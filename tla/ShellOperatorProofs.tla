------------------------- MODULE ShellOperatorProofs -------------------------
(***************************************************************************)
(* Theorems about ShellOperator.                                           *)
(***************************************************************************)
EXTENDS ShellOperator, InductionLemmas, FiniteSetTheorems

-----------------------------------------------------------------------------
(* What the assumption says of hooks, bindings and tasks.                  *)

Count == 0..(MaxEvents + MaxTicks)

LEMMA Bounds == Count \subseteq Nat /\ 0 \in Count
<1>1. MaxEvents \in Nat /\ MaxTicks \in Nat
  BY ShellOperatorAssumption
<1> QED BY <1>1 DEF Count

LEMMA HookNamesSeq == HookNames \in Seq(Hook) /\ StartupOrder \in Seq(Hook)
<1> QED BY ShellOperatorAssumption

LEMMA ConfigSeqs ==
    ASSUME NEW h \in Hook
    PROVE  /\ Kube(h) \in Seq(KubeBindings) /\ Sched(h) \in Seq(SchedBindings)
           /\ ToSet(Kube(h)) \subseteq KubeBindings /\ ToSet(Sched(h)) \subseteq SchedBindings
<1>1. PICK k : k = Kube(h)
  OBVIOUS
<1>2. PICK s : s = Sched(h)
  OBVIOUS
<1>3. k \in Seq(DOMAIN BindingConfig) /\ s \in Seq(DOMAIN BindingConfig)
  BY <1>1, <1>2, ShellOperatorAssumption
<1>4. ToSet(k) \subseteq KubeBindings /\ ToSet(s) \subseteq SchedBindings
  BY <1>1, <1>2 DEF KubeBindings, SchedBindings
<1>5. k \in Seq(KubeBindings)
  <2>1. \A i \in 1..Len(k) : k[i] \in KubeBindings
    BY <1>3, <1>4 DEF ToSet
  <2> QED BY <1>3, <2>1
<1>6. s \in Seq(SchedBindings)
  <2>1. \A i \in 1..Len(s) : s[i] \in SchedBindings
    BY <1>3, <1>4 DEF ToSet
  <2> QED BY <1>3, <2>1
<1> QED BY <1>1, <1>2, <1>4, <1>5, <1>6

\* A binding belongs to one hook.
LEMMA HookOfBinding ==
    /\ \A b \in Bindings : HookOf(b) \in Hook /\ b \in BindingsOf(HookOf(b))
    /\ \A h \in Hook : \A b \in BindingsOf(h) : b \in Bindings /\ HookOf(b) = h
<1>1. \A h \in Hook : \A b \in BindingsOf(h) : b \in Bindings
  BY DEF Bindings, BindingsOf, KubeBindings, SchedBindings
<1>2. \A b \in Bindings : \E h \in Hook : b \in BindingsOf(h)
  BY DEF Bindings, BindingsOf, KubeBindings, SchedBindings
<1>3. \A b \in Bindings : HookOf(b) \in Hook /\ b \in BindingsOf(HookOf(b))
  BY <1>2 DEF HookOf
<1>4. \A g, h \in Hook : g # h => BindingsOf(g) \intersect BindingsOf(h) = {}
  BY ShellOperatorAssumption
<1> QED BY <1>1, <1>3, <1>4

LEMMA QueueNames == "" \notin AllQueues /\ "main" \in AllQueues
<1>1. \A b \in Bindings : BindingConfig[b].queue # ""
  BY ShellOperatorAssumption
<1> QED BY <1>1 DEF AllQueues, NamedQueues

LEMMA ContextType ==
    ASSUME NEW b \in Bindings \union Hook, NEW n \in Count
    PROVE  Context(b, n) \in Contexts /\ Context(b, n).binding = b /\ Context(b, n).n = n
<1> QED BY DEF Context, Contexts, Count

\* What the contexts of a run have to do with its hook.
RunOf(t) ==
    \/ /\ t.queue = "" /\ t.allow = FALSE /\ t.ctxs = <<Context(t.hook, 0)>>
    \/ /\ t.queue # ""
       /\ \A c \in ToSet(t.ctxs) : c.binding \in BindingsOf(t.hook)

GoodTasks ==
    {t \in Tasks :
        /\ t.kind = "EnableKubernetesBindings" =>
              t = EnableTask("EnableKubernetesBindings", t.hook) /\ Kube(t.hook) # << >>
        /\ t.kind = "EnableScheduleBindings" =>
              t = EnableTask("EnableScheduleBindings", t.hook) /\ Sched(t.hook) # << >>
        /\ t.kind = "HookRun" => RunOf(t)}

LEMMA TaskFields ==
    ASSUME NEW t \in Tasks
    PROVE  /\ t.kind \in {"HookRun", "EnableKubernetesBindings", "EnableScheduleBindings"}
           /\ t.hook \in Hook /\ t.ctxs \in Seq(Contexts) /\ t.allow \in BOOLEAN
           /\ t.queue \in AllQueues \union {""}
<1> QED BY DEF Tasks

LEMMA OneContext ==
    ASSUME NEW c \in Contexts
    PROVE  <<c>> \in Seq(Contexts) /\ ToSet(<<c>>) = {c}
<1>1. <<c>> \in Seq(Contexts) /\ DOMAIN <<c>> = {1} /\ <<c>>[1] = c
  OBVIOUS
<1> QED BY <1>1 DEF ToSet

LEMMA StartupTaskGood ==
    ASSUME NEW h \in Hook
    PROVE  HookRun(h, <<Context(h, 0)>>, FALSE, "") \in GoodTasks
<1>1. PICK s : s = <<Context(h, 0)>>
  OBVIOUS
<1>2. s \in Seq(Contexts)
  BY <1>1, Bounds, ContextType, OneContext
<1>3. PICK t : t = HookRun(h, s, FALSE, "")
  OBVIOUS
<1>4. t \in Tasks /\ t.kind = "HookRun" /\ t.hook = h /\ t.queue = "" /\ t.allow = FALSE /\ t.ctxs = s
  BY <1>2, <1>3 DEF HookRun, Tasks
<1>5. RunOf(t)
  BY <1>1, <1>4 DEF RunOf
<1>6. t \in GoodTasks
  BY <1>4, <1>5 DEF GoodTasks
<1> QED BY <1>1, <1>3, <1>6

LEMMA EnableTaskGood ==
    ASSUME NEW h \in Hook
    PROVE  /\ Kube(h) # << >> => EnableTask("EnableKubernetesBindings", h) \in GoodTasks
           /\ Sched(h) # << >> => EnableTask("EnableScheduleBindings", h) \in GoodTasks
<1>1. ASSUME NEW k \in {"EnableKubernetesBindings", "EnableScheduleBindings"}
      PROVE  /\ EnableTask(k, h) \in Tasks
             /\ EnableTask(k, h).kind = k /\ EnableTask(k, h).hook = h
  <2>1. << >> \in Seq(Contexts)
    OBVIOUS
  <2> QED BY <2>1 DEF EnableTask, Tasks
<1>2. Kube(h) # << >> => EnableTask("EnableKubernetesBindings", h) \in GoodTasks
  <2>1. PICK t \in Tasks : t = EnableTask("EnableKubernetesBindings", h)
    BY <1>1
  <2>2. t.kind = "EnableKubernetesBindings" /\ t.hook = h
    BY <1>1, <2>1
  <2> QED BY <2>1, <2>2 DEF GoodTasks
<1>3. Sched(h) # << >> => EnableTask("EnableScheduleBindings", h) \in GoodTasks
  <2>1. PICK t \in Tasks : t = EnableTask("EnableScheduleBindings", h)
    BY <1>1
  <2>2. t.kind = "EnableScheduleBindings" /\ t.hook = h
    BY <1>1, <2>1
  <2> QED BY <2>1, <2>2 DEF GoodTasks
<1> QED BY <1>2, <1>3

LEMMA BindingRunGood ==
    ASSUME NEW b \in Bindings, NEW n \in Count, NEW q \in AllQueues
    PROVE  /\ BindingRun(b, n, q) \in GoodTasks
           /\ BindingRun(b, n, q).kind = "HookRun" /\ BindingRun(b, n, q).queue = q
           /\ BindingRun(b, n, q).hook = HookOf(b)
           /\ BindingRun(b, n, q).ctxs = <<Context(b, n)>>
           /\ BindingRun(b, n, q).allow = BindingConfig[b].allowFailure
<1>1. PICK s : s = <<Context(b, n)>>
  OBVIOUS
<1>2. s \in Seq(Contexts) /\ \A c \in ToSet(s) : c.binding = b
  BY <1>1, ContextType, OneContext
<1>3. PICK a \in BOOLEAN : a = BindingConfig[b].allowFailure
  BY ShellOperatorAssumption
<1>4. PICK h \in Hook : h = HookOf(b) /\ b \in BindingsOf(h)
  BY HookOfBinding
<1>5. PICK t : t = HookRun(h, s, a, q)
  OBVIOUS
<1>6. t \in Tasks /\ t.kind = "HookRun" /\ t.hook = h /\ t.queue = q /\ t.allow = a /\ t.ctxs = s
  BY <1>2, <1>5 DEF HookRun, Tasks
<1>7. RunOf(t)
  BY <1>2, <1>4, <1>6, QueueNames DEF RunOf
<1>8. t \in GoodTasks
  BY <1>6, <1>7 DEF GoodTasks
<1>9. t = BindingRun(b, n, q)
  BY <1>1, <1>3, <1>4, <1>5 DEF BindingRun
<1> QED BY <1>1, <1>3, <1>4, <1>6, <1>8, <1>9

-----------------------------------------------------------------------------
(* A queue and its worker.                                                 *)

Startup(t) == t.kind = "HookRun" /\ t.queue = ""
StartupsFirst(s) == \A i, j \in 1..Len(s) : i < j /\ Startup(s[j]) => Startup(s[i])

Works == [at : {"idle", "combine", "filter", "run", "enable", "monitors", "link", "add"},
          i : Nat, others : Seq(GoodTasks)]

\* The worker is at a place that fits the task at the head.
Fits(t, w) ==
    /\ w.at \in {"combine", "filter", "run"} => t.kind = "HookRun"
    /\ w.at \in {"combine", "filter"} => t.queue # "" /\ HookConfig[t.hook].version = "v1"
    /\ w.at \in {"enable", "monitors"} => t.kind = "EnableKubernetesBindings"
    /\ w.at = "enable" => w.i \in 1..Len(Kube(t.hook))
    /\ w.at \in {"link", "add"} => /\ t.kind = "EnableScheduleBindings"
                                   /\ w.i \in 1..Len(Sched(t.hook))

\* What Iterate has collected is still there, right behind the head.
Collected(s, others) ==
    /\ Len(others) + 1 <= Len(s)
    /\ \A i \in 1..Len(others) : /\ others[i] = s[i + 1]
                                 /\ others[i].hook = s[1].hook
                                 /\ others[i].kind = "HookRun"

QueueOK(s, w) ==
    /\ s \in Seq(GoodTasks)
    /\ StartupsFirst(s)
    /\ w \in Works
    /\ w.at = "idle" => w = Idle
    /\ w.at # "idle" => s # << >> /\ Fits(s[1], w)
    /\ w.at = "filter" => Collected(s, w.others)

LEMMA IdleWork == Idle \in Works /\ Idle.at = "idle"
<1>1. << >> \in Seq(GoodTasks)
  OBVIOUS
<1> QED BY <1>1 DEF Idle, Works

LEMMA AtWork ==
    ASSUME NEW p \in {"combine", "filter", "run", "enable", "monitors", "link", "add"}
    PROVE  At(p) \in Works /\ At(p).at = p /\ At(p).i = 1
<1>1. << >> \in Seq(GoodTasks)
  OBVIOUS
<1> QED BY <1>1 DEF At, Works

LEMMA QueueIdle ==
    ASSUME NEW s, NEW w, QueueOK(s, w)
    PROVE  QueueOK(s, Idle)
<1> QED BY IdleWork DEF QueueOK

LEMMA QueueMove ==
    ASSUME NEW s, NEW w, QueueOK(s, w), s # << >>, NEW v \in Works,
           v.at # "idle", v.at # "filter", Fits(s[1], v)
    PROVE  QueueOK(s, v)
<1> QED BY DEF QueueOK

LEMMA QueueAppend ==
    ASSUME NEW s, NEW w, QueueOK(s, w), NEW t \in GoodTasks, ~Startup(t)
    PROVE  QueueOK(Append(s, t), w)
<1>1. s \in Seq(GoodTasks)
  BY DEF QueueOK
<1>2. PICK u \in Seq(GoodTasks) : u = Append(s, t)
  BY <1>1, AppendProperties
<1>3. /\ Len(u) = Len(s) + 1 /\ u[Len(s) + 1] = t
      /\ \A i \in 1..Len(s) : u[i] = s[i]
  BY <1>1, <1>2, AppendProperties
<1>4. StartupsFirst(u)
  <2> SUFFICES ASSUME NEW i \in 1..Len(u), NEW j \in 1..Len(u), i < j, Startup(u[j])
               PROVE  Startup(u[i])
    BY DEF StartupsFirst
  <2>1. j \in 1..Len(s)
    BY <1>1, <1>3
  <2>2. i \in 1..Len(s)
    BY <1>1, <2>1
  <2> QED BY <1>3, <2>1, <2>2 DEF QueueOK, StartupsFirst
<1>5. w.at # "idle" => u # << >> /\ Fits(u[1], w)
  <2> SUFFICES ASSUME w.at # "idle" PROVE u # << >> /\ Fits(u[1], w)
    OBVIOUS
  <2>1. s # << >> /\ Fits(s[1], w)
    BY DEF QueueOK
  <2>2. 1 \in 1..Len(s)
    BY <1>1, <2>1
  <2>3. u[1] = s[1]
    BY <1>3, <2>2
  <2> QED BY <1>1, <1>2, <1>3, <2>1, <2>3, EmptySeq
<1>6. w.at = "filter" => Collected(u, w.others)
  <2> SUFFICES ASSUME w.at = "filter" PROVE Collected(u, w.others)
    OBVIOUS
  <2>1. Collected(s, w.others) /\ w.others \in Seq(GoodTasks) /\ s # << >>
    BY DEF QueueOK, Works
  <2>2. PICK o \in Seq(GoodTasks) : o = w.others
    BY <2>1
  <2>3. /\ Len(o) + 1 <= Len(s)
        /\ \A i \in 1..Len(o) : o[i] = s[i + 1] /\ o[i].hook = s[1].hook /\ o[i].kind = "HookRun"
    BY <2>1, <2>2 DEF Collected
  <2>4. Len(s) \in Nat /\ Len(o) \in Nat /\ 1 \in 1..Len(s)
    BY <1>1, <2>1
  <2>5. \A i \in 1..Len(o) : i + 1 \in 1..Len(s)
    BY <2>3, <2>4
  <2>6. Len(o) + 1 <= Len(u) /\ u[1] = s[1] /\ \A i \in 1..Len(o) : u[i + 1] = s[i + 1]
    BY <1>3, <2>3, <2>4, <2>5
  <2>7. Collected(u, o)
    BY <2>3, <2>6 DEF Collected
  <2> QED BY <2>2, <2>7
<1>7. w \in Works /\ (w.at = "idle" => w = Idle)
  BY DEF QueueOK
<1>8. QueueOK(u, w)
  BY <1>2, <1>4, <1>5, <1>6, <1>7 DEF QueueOK
<1> QED BY <1>2, <1>8

LEMMA QueueTail ==
    ASSUME NEW s, NEW w, QueueOK(s, w), s # << >>
    PROVE  /\ Tail(s) \in Seq(GoodTasks) /\ Len(Tail(s)) = Len(s) - 1
           /\ \A i \in 1..(Len(s) - 1) : Tail(s)[i] = s[i + 1]
           /\ s[1] = Head(s) /\ s[1] \in GoodTasks
           /\ StartupsFirst(Tail(s))
           /\ ~Startup(s[1]) => \A i \in 1..Len(s) : ~Startup(s[i])
<1>1. s \in Seq(GoodTasks) /\ StartupsFirst(s)
  BY DEF QueueOK
<1>2. PICK u \in Seq(GoodTasks) : u = Tail(s)
  BY <1>1, HeadTailProperties
<1>3. Len(u) = Len(s) - 1 /\ \A i \in 1..Len(u) : u[i] = s[i + 1]
  BY <1>1, <1>2, HeadTailProperties
<1>4. s[1] = Head(s) /\ s[1] \in GoodTasks /\ Len(s) \in Nat /\ 1 \in 1..Len(s)
  BY <1>1
<1>5. StartupsFirst(u)
  <2> SUFFICES ASSUME NEW i \in 1..Len(u), NEW j \in 1..Len(u), i < j, Startup(u[j])
               PROVE  Startup(u[i])
    BY DEF StartupsFirst
  <2>1. i + 1 \in 1..Len(s) /\ j + 1 \in 1..Len(s) /\ i + 1 < j + 1
    BY <1>3, <1>4
  <2> QED BY <1>1, <1>3, <2>1 DEF StartupsFirst
<1>6. ASSUME ~Startup(s[1]), NEW i \in 1..Len(s) PROVE ~Startup(s[i])
  BY <1>1, <1>4, <1>6 DEF StartupsFirst
<1> QED BY <1>2, <1>3, <1>4, <1>5, <1>6

LEMMA QueueFinish ==
    ASSUME NEW s, NEW w, QueueOK(s, w), s # << >>, NEW heads \in Seq(GoodTasks),
           \A i \in 1..Len(heads) : ~Startup(heads[i]),
           heads # << >> => ~Startup(s[1])
    PROVE  QueueOK(heads \o Tail(s), Idle)
<1>1. PICK u \in Seq(GoodTasks) : u = Tail(s)
  BY QueueTail
<1>s. s \in Seq(GoodTasks)
  BY DEF QueueOK
<1>2. /\ Len(u) = Len(s) - 1 /\ \A i \in 1..Len(u) : u[i] = s[i + 1]
      /\ StartupsFirst(u)
  BY <1>1, QueueTail
<1>3. PICK v \in Seq(GoodTasks) : v = heads \o u
  BY ConcatProperties
<1>4. /\ Len(v) = Len(heads) + Len(u)
      /\ \A i \in 1..Len(v) : v[i] = IF i <= Len(heads) THEN heads[i] ELSE u[i - Len(heads)]
  BY <1>3, ConcatProperties
<1>5. StartupsFirst(v)
  <2>1. CASE heads = << >>
    BY <1>2, <1>3, <2>1, ConcatEmptySeq
  <2>2. CASE heads # << >>
    <3>1. \A i \in 1..Len(s) : ~Startup(s[i])
      BY <2>2, QueueTail
    <3>2. \A i \in 1..Len(u) : ~Startup(u[i])
      <4>1. \A i \in 1..Len(u) : i + 1 \in 1..Len(s)
        BY <1>2, <1>s
      <4> QED BY <1>2, <3>1, <4>1
    <3>3. ASSUME NEW i \in 1..Len(v) PROVE ~Startup(v[i])
      <4>1. CASE i <= Len(heads)
        BY <1>4, <4>1
      <4>2. CASE ~(i <= Len(heads))
        <5>1. i - Len(heads) \in 1..Len(u)
          BY <1>4, <4>2
        <5> QED BY <1>4, <3>2, <4>2, <5>1
      <4> QED BY <4>1, <4>2
    <3> QED BY <3>3 DEF StartupsFirst
  <2> QED BY <2>1, <2>2
<1>6. QueueOK(v, Idle)
  BY <1>5, IdleWork DEF QueueOK
<1> QED BY <1>1, <1>3, <1>6

-----------------------------------------------------------------------------
(* Contexts of tasks, and what the combination of tasks leaves of them.    *)

Line(s) == [i \in DOMAIN s |-> s[i].ctxs]

LEMMA LineType ==
    ASSUME NEW s \in Seq(GoodTasks)
    PROVE  /\ Line(s) \in Seq(Seq(Contexts)) /\ Len(Line(s)) = Len(s)
           /\ \A i \in 1..Len(s) : Line(s)[i] = s[i].ctxs /\ s[i].ctxs \in Seq(Contexts)
           /\ ContextsOf(s) = FlattenSeq(Line(s))
<1>1. DOMAIN s = 1..Len(s) /\ Len(s) \in Nat
  OBVIOUS
<1>2. PICK l : l = Line(s)
  OBVIOUS
<1>3. l = [i \in 1..Len(s) |-> s[i].ctxs]
  BY <1>1, <1>2 DEF Line
<1>4. \A i \in 1..Len(s) : s[i].ctxs \in Seq(Contexts)
  <2>1. \A i \in 1..Len(s) : s[i] \in Tasks
    <3>1. \A i \in 1..Len(s) : s[i] \in GoodTasks
      BY ElementOfSeq
    <3> QED BY <3>1 DEF GoodTasks
  <2> QED BY <2>1, TaskFields
<1>5. PICK B : B = Seq(Contexts)
  OBVIOUS
<1>6. l \in [1..Len(s) -> B]
  BY <1>3, <1>4, <1>5
<1>7. l \in Seq(B) /\ Len(l) = Len(s)
  BY <1>1, <1>6, IsASeq, LenProperties
<1>8. ContextsOf(s) = FlattenSeq(l)
  BY <1>2 DEF ContextsOf, Line
<1> QED BY <1>2, <1>3, <1>4, <1>5, <1>7, <1>8

LEMMA ContextsOfType ==
    ASSUME NEW s \in Seq(GoodTasks)
    PROVE  /\ ContextsOf(s) \in Seq(Contexts)
           /\ \A c \in ToSet(ContextsOf(s)) : \E i \in 1..Len(s) : c \in ToSet(s[i].ctxs)
           /\ \A i \in 1..Len(s) : ToSet(s[i].ctxs) \subseteq ToSet(ContextsOf(s))
<1>1. PICK l : l = Line(s)
  OBVIOUS
<1>2. l \in Seq(Seq(Contexts)) /\ Len(l) = Len(s)
  BY <1>1, LineType
<1>3. \A i \in 1..Len(s) : l[i] = s[i].ctxs /\ l[i] \in Seq(Contexts)
  BY <1>1, LineType
<1>4. PICK f \in Seq(Contexts) : f = ContextsOf(s) /\ \E row, col : Places(l, f, row, col)
  BY <1>1, <1>2, FlattenPlaces, LineType
<1>5. PICK row, col : Places(l, f, row, col)
  BY <1>4
<1>6. ASSUME NEW c \in ToSet(f) PROVE \E i \in 1..Len(s) : c \in ToSet(s[i].ctxs)
  <2>1. PICK k \in 1..Len(f) : c = f[k]
    BY DEF ToSet
  <2>2. row[k] \in 1..Len(l) /\ col[k] \in 1..Len(l[row[k]]) /\ f[k] = l[row[k]][col[k]]
    BY <1>5 DEF Places
  <2>3. PICK i \in 1..Len(s) : i = row[k]
    BY <1>2, <2>2
  <2>4. PICK x \in Seq(Contexts) : x = l[i] /\ x = s[i].ctxs
    BY <1>3
  <2>5. col[k] \in 1..Len(x) /\ c = x[col[k]]
    BY <2>1, <2>2, <2>3, <2>4
  <2>6. c \in ToSet(x)
    BY <2>5 DEF ToSet
  <2> QED BY <2>4, <2>6
<1>7. ASSUME NEW i \in 1..Len(s), NEW c \in ToSet(s[i].ctxs) PROVE c \in ToSet(f)
  <2>1. PICK x \in Seq(Contexts) : x = l[i] /\ x = s[i].ctxs
    BY <1>3
  <2>2. PICK j \in 1..Len(x) : c = x[j]
    BY <2>1 DEF ToSet
  <2>3. i \in 1..Len(l) /\ j \in 1..Len(l[i])
    BY <1>2, <2>1, <2>2
  <2>4. PICK k \in 1..Len(f) : row[k] = i /\ col[k] = j
    BY <1>5, <2>3 DEF Places
  <2>5. f[k] = l[i][j]
    BY <1>5, <2>4 DEF Places
  <2>6. f[k] = c
    BY <2>1, <2>2, <2>5
  <2> QED BY <2>6 DEF ToSet
<1> QED BY <1>4, <1>6, <1>7

LEMMA KeepPicks ==
    ASSUME NEW A, NEW s \in Seq(A), NEW I
    PROVE  Keep(s, I) \in Seq(A) /\ \E row : Picks(s, I, Keep(s, I), row)
<1>1. PICK f, row :
          /\ f \in Seq(A)
          /\ f = FlattenSeq([i \in DOMAIN s |-> IF i \in I THEN <<s[i]>> ELSE << >>])
          /\ Picks(s, I, f, row)
  BY FlattenPicks, ZenonT(60)
<1>2. f = Keep(s, I)
  BY <1>1 DEF Keep
<1> QED BY <1>1, <1>2

LEMMA KeepElements ==
    ASSUME NEW A, NEW s \in Seq(A), NEW I
    PROVE  \A k \in 1..Len(Keep(s, I)) : \E i \in 1..Len(s) : i \in I /\ Keep(s, I)[k] = s[i]
<1>1. PICK f, row : f = Keep(s, I) /\ Picks(s, I, f, row)
  BY KeepPicks
<1>2. \A k \in 1..Len(f) : row[k] \in 1..Len(s) /\ row[k] \in I /\ f[k] = s[row[k]]
  BY <1>1 DEF Picks
<1> QED BY <1>1, <1>2

LEMMA CompactType ==
    ASSUME NEW s \in Seq(Contexts)
    PROVE  Compact(s) \in Seq(Contexts) /\ ToSet(Compact(s)) \subseteq ToSet(s)
<1>1. PICK I : I = {i \in DOMAIN s : ~Skipped(s, i)}
  OBVIOUS
<1>2. PICK f \in Seq(Contexts) : f = Compact(s) /\ f = Keep(s, I)
  BY <1>1, KeepPicks DEF Compact
<1>3. \A k \in 1..Len(f) : \E i \in 1..Len(s) : f[k] = s[i]
  BY <1>2, KeepElements
<1>4. ToSet(f) \subseteq ToSet(s)
  BY <1>3 DEF ToSet
<1> QED BY <1>2, <1>4

LEMMA WithoutType ==
    ASSUME NEW s \in Seq(GoodTasks), NEW o
    PROVE  /\ Without(s, o) \in Seq(GoodTasks)
           /\ \A k \in 1..Len(Without(s, o)) :
                 \E i \in 1..Len(s) : Without(s, o)[k] = s[i] /\ s[i] \notin ToSet(o)
<1>1. PICK I : I = {i \in DOMAIN s : s[i] \notin ToSet(o)}
  OBVIOUS
<1>2. PICK f \in Seq(GoodTasks) : f = Without(s, o) /\ f = Keep(s, I)
  BY <1>1, KeepPicks DEF Without
<1>3. \A k \in 1..Len(f) : \E i \in 1..Len(s) : i \in I /\ f[k] = s[i]
  BY <1>2, KeepElements
<1> QED BY <1>1, <1>2, <1>3

LEMMA ConsProperties ==
    ASSUME NEW A, NEW a \in A, NEW s \in Seq(A)
    PROVE  Cons(a, s) \in Seq(A) /\ Len(Cons(a, s)) = Len(s) + 1 /\ Cons(a, s)[1] = a
<1> QED BY DEF Cons

LEMMA ConsElements ==
    ASSUME NEW A, NEW a \in A, NEW s \in Seq(A), NEW i \in 2..(Len(s) + 1)
    PROVE  Cons(a, s)[i] = s[i - 1]
<1> QED BY DEF Cons

WithContexts(t, x) == [t EXCEPT !.ctxs = x]

LEMMA TaskWithContexts ==
    ASSUME NEW t \in GoodTasks, t.kind = "HookRun", t.queue # "",
           NEW x \in Seq(Contexts), \A c \in ToSet(x) : c.binding \in BindingsOf(t.hook)
    PROVE  /\ WithContexts(t, x) \in GoodTasks
           /\ WithContexts(t, x).kind = "HookRun" /\ WithContexts(t, x).queue = t.queue
           /\ WithContexts(t, x).hook = t.hook
           /\ WithContexts(t, x).ctxs = x /\ WithContexts(t, x).allow = t.allow
<1>u. PICK u : u = WithContexts(t, x)
  OBVIOUS
<1>1. t \in Tasks
  BY DEF GoodTasks
<1>3. /\ u \in Tasks /\ u.kind = "HookRun" /\ u.queue = t.queue /\ u.hook = t.hook /\ u.ctxs = x
      /\ u.allow = t.allow
  BY <1>1, <1>u DEF Tasks, WithContexts
<1>4. RunOf(u)
  BY <1>3 DEF RunOf
<1>5. u \in GoodTasks
  BY <1>3, <1>4 DEF GoodTasks
<1> QED BY <1>3, <1>5, <1>u

LEMMA CombinedOf ==
    ASSUME NEW s, NEW w, QueueOK(s, w), w.at = "filter"
    PROVE  /\ s[1].ctxs \o ContextsOf(w.others) \in Seq(Contexts)
           /\ \A c \in ToSet(s[1].ctxs \o ContextsOf(w.others)) : c.binding \in BindingsOf(s[1].hook)
<1>1. s # << >> /\ Fits(s[1], w) /\ Collected(s, w.others) /\ w.others \in Seq(GoodTasks)
  BY DEF QueueOK, Works
<1>2. PICK t \in GoodTasks : t = s[1] /\ t.kind = "HookRun" /\ t.queue # "" /\ t.ctxs \in Seq(Contexts)
  <2>1. s[1] \in GoodTasks
    BY <1>1, QueueTail
  <2>2. s[1].ctxs \in Seq(Contexts)
    BY <2>1, TaskFields DEF GoodTasks
  <2> QED BY <1>1, <2>1, <2>2 DEF Fits
<1>3. \A i \in 1..Len(s) : ~Startup(s[i])
  BY <1>1, <1>2, QueueTail DEF Startup
<1>4. PICK o \in Seq(GoodTasks) : o = w.others
  BY <1>1
<1>5. ASSUME NEW i \in 1..Len(o)
      PROVE  o[i].hook = t.hook /\ \A c \in ToSet(o[i].ctxs) : c.binding \in BindingsOf(t.hook)
  <2>1. o[i] = s[i + 1] /\ o[i].hook = t.hook /\ o[i].kind = "HookRun"
    BY <1>1, <1>2, <1>4 DEF Collected
  <2>2. i + 1 \in 1..Len(s)
    <3>1. Len(o) + 1 <= Len(s) /\ Len(s) \in Nat
      BY <1>1, <1>4 DEF Collected, QueueOK
    <3> QED BY <3>1
  <2>3. ~Startup(o[i])
    BY <1>3, <2>1, <2>2
  <2>4. RunOf(o[i])
    <3>1. o[i] \in GoodTasks
      BY ElementOfSeq
    <3> QED BY <2>1, <3>1 DEF GoodTasks
  <2> QED BY <2>1, <2>3, <2>4 DEF RunOf, Startup
<1>6. \A c \in ToSet(t.ctxs) : c.binding \in BindingsOf(t.hook)
  BY <1>2 DEF GoodTasks, RunOf
<1>7. PICK x \in Seq(Contexts) : x = t.ctxs
  BY <1>2
<1>8. PICK y \in Seq(Contexts) : y = ContextsOf(o)
  BY ContextsOfType
<1>9. \A c \in ToSet(y) : c.binding \in BindingsOf(t.hook)
  BY <1>5, <1>8, ContextsOfType
<1>10. PICK z \in Seq(Contexts) : z = x \o y
  BY ConcatProperties
<1>11. ToSet(z) \subseteq ToSet(x) \union ToSet(y)
  <2>1. \A i \in 1..Len(z) : z[i] = IF i <= Len(x) THEN x[i] ELSE y[i - Len(x)]
    BY <1>10, ConcatProperties
  <2>2. Len(z) = Len(x) + Len(y)
    BY <1>10, ConcatProperties
  <2>3. ASSUME NEW i \in 1..Len(z) PROVE z[i] \in ToSet(x) \union ToSet(y)
    <3>1. CASE i <= Len(x)
      BY <2>1, <3>1 DEF ToSet
    <3>2. CASE ~(i <= Len(x))
      <4>1. i - Len(x) \in 1..Len(y)
        BY <2>2, <3>2
      <4> QED BY <2>1, <3>2, <4>1 DEF ToSet
    <3> QED BY <3>1, <3>2
  <2> QED BY <2>3 DEF ToSet
<1> QED BY <1>2, <1>4, <1>6, <1>7, <1>8, <1>9, <1>10, <1>11

\* The queue after CombineFilter.
Combined(s, o) == <<[s[1] EXCEPT !.ctxs = Compact(s[1].ctxs \o ContextsOf(o))]>> \o Without(Tail(s), o)

LEMMA QueueCombine ==
    ASSUME NEW s, NEW w, QueueOK(s, w), w.at = "filter"
    PROVE  QueueOK(Combined(s, w.others), At("run"))
<1>1. s # << >> /\ Fits(s[1], w) /\ w.others \in Seq(GoodTasks)
  BY DEF QueueOK, Works
<1>s. s \in Seq(GoodTasks)
  BY DEF QueueOK
<1>2. PICK t \in GoodTasks : t = s[1] /\ t.kind = "HookRun" /\ t.queue # ""
  BY <1>1, QueueTail DEF Fits
<1>3. \A i \in 1..Len(s) : ~Startup(s[i])
  BY <1>1, <1>2, QueueTail DEF Startup
<1>4. PICK z \in Seq(Contexts) : /\ z = s[1].ctxs \o ContextsOf(w.others)
                                 /\ \A c \in ToSet(z) : c.binding \in BindingsOf(t.hook)
  BY <1>2, CombinedOf
<1>5. PICK x \in Seq(Contexts) : x = Compact(z) /\ \A c \in ToSet(x) : c.binding \in BindingsOf(t.hook)
  BY <1>4, CompactType
<1>6. PICK u : u = WithContexts(t, x)
  OBVIOUS
<1>6a. u \in GoodTasks /\ u.kind = "HookRun" /\ u.queue # ""
  <2>1. t \in GoodTasks /\ t.kind = "HookRun" /\ t.queue # ""
    BY <1>2
  <2>2. x \in Seq(Contexts) /\ \A c \in ToSet(x) : c.binding \in BindingsOf(t.hook)
    BY <1>5
  <2>3. u \in GoodTasks /\ u.kind = "HookRun" /\ u.queue = t.queue
    BY <1>6, <2>1, <2>2, TaskWithContexts
  <2> QED BY <2>1, <2>3
<1>7. PICK r \in Seq(GoodTasks) : r = Tail(s)
  BY <1>1, QueueTail
<1>8. Len(r) = Len(s) - 1 /\ \A i \in 1..Len(r) : r[i] = s[i + 1]
  BY <1>1, <1>7, QueueTail
<1>9. \A i \in 1..Len(r) : ~Startup(r[i])
  <2>1. \A i \in 1..Len(r) : i + 1 \in 1..Len(s)
    BY <1>8, <1>s
  <2> QED BY <1>3, <1>8, <2>1
<1>10. PICK v \in Seq(GoodTasks) : v = Without(r, w.others)
  BY WithoutType
<1>11. \A k \in 1..Len(v) : ~Startup(v[k])
  BY <1>9, <1>10, WithoutType
<1>12. PICK n : n = Cons(u, v)
  OBVIOUS
<1>13. /\ n \in Seq(GoodTasks) /\ Len(n) = Len(v) + 1 /\ n[1] = u
       /\ \A i \in 2..Len(n) : n[i] = v[i - 1]
  <2>1. u \in GoodTasks /\ v \in Seq(GoodTasks)
    BY <1>6a
  <2>2. n \in Seq(GoodTasks) /\ Len(n) = Len(v) + 1 /\ n[1] = u
    BY <1>12, <2>1, ConsProperties
  <2>3. ASSUME NEW i \in 2..(Len(v) + 1) PROVE n[i] = v[i - 1]
    BY <1>12, <2>1, ConsElements
  <2> QED BY <2>2, <2>3
<1>14. StartupsFirst(n)
  <2>1. \A i \in 2..Len(n) : i - 1 \in 1..Len(v)
    BY <1>13
  <2>2. \A i \in 2..Len(n) : ~Startup(n[i])
    BY <1>11, <1>13, <2>1
  <2>3. \A i, j \in 1..Len(n) : i < j => j \in 2..Len(n)
    OBVIOUS
  <2> QED BY <2>2, <2>3 DEF StartupsFirst
<1>15. n # << >>
  BY <1>13, EmptySeq
<1>16. PICK a \in Works : a = At("run") /\ a.at = "run"
  BY AtWork
<1>17. Fits(n[1], a)
  BY <1>6a, <1>13, <1>16 DEF Fits
<1>18. QueueOK(n, a)
  BY <1>13, <1>14, <1>15, <1>16, <1>17 DEF QueueOK
<1>19. n = Combined(s, w.others)
  BY <1>2, <1>4, <1>5, <1>6, <1>7, <1>10, <1>12 DEF Combined, WithContexts, Cons
<1> QED BY <1>16, <1>18, <1>19

-----------------------------------------------------------------------------
(* All queues.                                                             *)

Doing(ws, q) == IF q \in DOMAIN ws THEN ws[q] ELSE Idle
QueuesOK(qs, ws) ==
    /\ DOMAIN ws \subseteq DOMAIN qs
    /\ \A q \in DOMAIN qs : QueueOK(qs[q], Doing(ws, q))

Upd(f, q, v) == [f EXCEPT ![q] = v]

LEMMA UpdValue ==
    ASSUME NEW f, NEW q \in DOMAIN f, NEW v
    PROVE  /\ DOMAIN Upd(f, q, v) = DOMAIN f
           /\ Upd(f, q, v)[q] = v
           /\ \A p \in DOMAIN f : p # q => Upd(f, q, v)[p] = f[p]
<1> QED BY DEF Upd

LEMMA QueueOfWorker ==
    ASSUME NEW qs, NEW ws, QueuesOK(qs, ws), NEW q \in DOMAIN ws
    PROVE  q \in DOMAIN qs /\ QueueOK(qs[q], ws[q])
<1> QED BY DEF QueuesOK, Doing

LEMMA QueuesMove ==
    ASSUME NEW qs, NEW ws, QueuesOK(qs, ws), NEW q \in DOMAIN ws, NEW v, QueueOK(qs[q], v)
    PROVE  QueuesOK(qs, Upd(ws, q, v)) /\ DOMAIN Upd(ws, q, v) = DOMAIN ws
<1>1. PICK u : u = Upd(ws, q, v)
  OBVIOUS
<1>2. DOMAIN u = DOMAIN ws /\ u[q] = v /\ \A p \in DOMAIN ws : p # q => u[p] = ws[p]
  BY <1>1, UpdValue
<1>3. ASSUME NEW p \in DOMAIN qs PROVE QueueOK(qs[p], Doing(u, p))
  <2>1. CASE p = q
    BY <1>2, <2>1 DEF Doing
  <2>2. CASE p # q
    BY <1>2, <2>2 DEF Doing, QueuesOK
  <2> QED BY <2>1, <2>2
<1>4. QueuesOK(qs, u)
  BY <1>2, <1>3 DEF QueuesOK
<1> QED BY <1>1, <1>2, <1>4

LEMMA QueuesSet ==
    ASSUME NEW qs, NEW ws, QueuesOK(qs, ws), NEW q \in DOMAIN qs, NEW s,
           QueueOK(s, Doing(ws, q))
    PROVE  QueuesOK(Upd(qs, q, s), ws) /\ DOMAIN Upd(qs, q, s) = DOMAIN qs
<1>1. PICK u : u = Upd(qs, q, s)
  OBVIOUS
<1>2. DOMAIN u = DOMAIN qs /\ u[q] = s /\ \A p \in DOMAIN qs : p # q => u[p] = qs[p]
  BY <1>1, UpdValue
<1>3. ASSUME NEW p \in DOMAIN qs PROVE QueueOK(u[p], Doing(ws, p))
  <2>1. CASE p = q
    BY <1>2, <2>1
  <2>2. CASE p # q
    BY <1>2, <2>2 DEF QueuesOK
  <2> QED BY <2>1, <2>2
<1>4. QueuesOK(u, ws)
  BY <1>2, <1>3 DEF QueuesOK
<1> QED BY <1>1, <1>2, <1>4

LEMMA QueuesReplace ==
    ASSUME NEW qs, NEW ws, QueuesOK(qs, ws), NEW q \in DOMAIN ws, NEW s, NEW v, QueueOK(s, v)
    PROVE  /\ QueuesOK(Upd(qs, q, s), Upd(ws, q, v))
           /\ DOMAIN Upd(qs, q, s) = DOMAIN qs /\ DOMAIN Upd(ws, q, v) = DOMAIN ws
<1>0. q \in DOMAIN qs
  BY QueueOfWorker
<1>1. PICK u : u = Upd(qs, q, s)
  OBVIOUS
<1>2. PICK x : x = Upd(ws, q, v)
  OBVIOUS
<1>3. DOMAIN u = DOMAIN qs /\ u[q] = s /\ \A p \in DOMAIN qs : p # q => u[p] = qs[p]
  BY <1>0, <1>1, UpdValue
<1>4. DOMAIN x = DOMAIN ws /\ x[q] = v /\ \A p \in DOMAIN ws : p # q => x[p] = ws[p]
  BY <1>2, UpdValue
<1>5. ASSUME NEW p \in DOMAIN qs PROVE QueueOK(u[p], Doing(x, p))
  <2>1. CASE p = q
    BY <1>3, <1>4, <2>1 DEF Doing
  <2>2. CASE p # q
    BY <1>3, <1>4, <2>2 DEF Doing, QueuesOK
  <2> QED BY <2>1, <2>2
<1>6. DOMAIN x \subseteq DOMAIN u
  BY <1>3, <1>4 DEF QueuesOK
<1>7. QueuesOK(u, x)
  BY <1>3, <1>5, <1>6 DEF QueuesOK
<1> QED BY <1>1, <1>2, <1>3, <1>4, <1>7

-----------------------------------------------------------------------------
(* The type invariant.                                                     *)

EventTasks == {t \in GoodTasks : t.kind = "HookRun" /\ t.queue \in NamedQueues}
Fires == [crontab : Crontabs, n : Count]

StageInv ==
    /\ stage \in {"prepopulate", "main", "queues", "handler", "up"}
    /\ DOMAIN queues \subseteq AllQueues
    /\ stage = "prepopulate" => DOMAIN queues = {}
    /\ stage = "main" => DOMAIN work = {} /\ DOMAIN queues = {"main"}
    /\ stage \in {"queues", "handler", "up"} => DOMAIN work = DOMAIN queues /\ "main" \in DOMAIN work
    /\ stage \in {"handler", "up"} => NamedQueues \subseteq DOMAIN queues
    /\ stage \notin {"handler", "up"} => tailTasks = << >>

EventInv ==
    /\ linked \subseteq Bindings /\ monitors \subseteq KubeBindings /\ entries \subseteq SchedBindings
    /\ emitted \in [KubeBindings \union Crontabs -> Count]
    /\ kubeCh \in Seq(Contexts) /\ Len(kubeCh) <= 1
    /\ \A i \in 1..Len(kubeCh) : kubeCh[i].binding \in KubeBindings /\ kubeCh[i].n # 0
    /\ scheduleCh \in Seq(Fires) /\ Len(scheduleCh) <= 1
    /\ \A i \in 1..Len(scheduleCh) : scheduleCh[i].n # 0
    /\ tailTasks \in Seq(EventTasks)

HistoryInv ==
    /\ owed \subseteq Contexts /\ done \subseteq Contexts /\ dropped \subseteq Contexts
    /\ DOMAIN heir \subseteq Contexts /\ \A c \in DOMAIN heir : heir[c] \in Contexts

TypeInv == StageInv /\ QueuesOK(queues, work) /\ EventInv /\ HistoryInv

LEMMA EmptyFunction == DOMAIN << >> = {}
<1> QED OBVIOUS

LEMMA InitType == Init => TypeInv
<1> SUFFICES ASSUME Init PROVE TypeInv
  OBVIOUS
<1>1. DOMAIN queues = {} /\ DOMAIN work = {} /\ DOMAIN heir = {}
  BY EmptyFunction DEF Init
<1>2. StageInv
  BY <1>1 DEF Init, StageInv
<1>3. QueuesOK(queues, work)
  BY <1>1 DEF QueuesOK
<1>4. emitted \in [KubeBindings \union Crontabs -> Count]
  BY Bounds DEF Init
<1>5. EventInv
  BY <1>4 DEF Init, EventInv
<1>6. HistoryInv
  BY <1>1 DEF Init, HistoryInv
<1> QED BY <1>2, <1>3, <1>5, <1>6 DEF TypeInv

LEMMA TypeCorrectness == TypeInv => TypeOK
<1> SUFFICES ASSUME TypeInv PROVE TypeOK
  OBVIOUS
<1>1. /\ stage \in {"prepopulate", "main", "queues", "handler", "up"}
      /\ DOMAIN queues \subseteq AllQueues /\ DOMAIN work \subseteq DOMAIN queues
  BY DEF TypeInv, StageInv, QueuesOK
<1>2. GoodTasks \subseteq Tasks /\ EventTasks \subseteq Tasks
  BY DEF GoodTasks, EventTasks
<1>3. \A s \in Seq(GoodTasks) : s \in Seq(Tasks)
  BY <1>2, SeqMonotonic
<1>4. \A s \in Seq(EventTasks) : s \in Seq(Tasks)
  BY <1>2, SeqMonotonic
<1>5. \A q \in DOMAIN queues : queues[q] \in Seq(Tasks)
  BY <1>3 DEF TypeInv, QueuesOK, QueueOK
<1>6. ASSUME NEW q \in DOMAIN work
      PROVE  /\ work[q].at \in {"idle", "combine", "filter", "run", "enable", "monitors", "link", "add"}
             /\ work[q].others \in Seq(Tasks)
             /\ work[q] # Idle => queues[q] # << >>
  <2>1. PICK s, w : s = queues[q] /\ w = work[q] /\ QueueOK(s, w)
    BY QueueOfWorker DEF TypeInv
  <2>2. /\ w.at \in {"idle", "combine", "filter", "run", "enable", "monitors", "link", "add"}
        /\ w.others \in Seq(Tasks)
    BY <1>3, <2>1 DEF QueueOK, Works
  <2>3. w # Idle => s # << >>
    BY <2>1 DEF QueueOK
  <2> QED BY <2>1, <2>2, <2>3
<1>7. ToSet(kubeCh) \subseteq Contexts
  BY DEF TypeInv, EventInv, ToSet
<1> QED BY <1>1, <1>4, <1>5, <1>6, <1>7 DEF TypeOK, TypeInv, EventInv, HistoryInv

-----------------------------------------------------------------------------
(* The steps of a worker.                                                  *)

LEMMA WorkerQueue ==
    ASSUME TypeInv, NEW q \in DOMAIN work
    PROVE  /\ QueueOK(queues[q], work[q]) /\ q \in DOMAIN queues /\ q \in AllQueues
           /\ queues[q] \in Seq(GoodTasks) /\ work[q] \in Works
           /\ stage \in {"queues", "handler", "up"}
<1>1. QueueOK(queues[q], work[q]) /\ q \in DOMAIN queues
  BY QueueOfWorker DEF TypeInv
<1>2. q \in AllQueues /\ stage \in {"queues", "handler", "up"}
  BY <1>1, EmptyFunction DEF TypeInv, StageInv, QueuesOK
<1>3. queues[q] \in Seq(GoodTasks) /\ work[q] \in Works
  BY <1>1 DEF QueueOK
<1> QED BY <1>1, <1>2, <1>3

\* The head of the queue of a worker that is busy.
LEMMA WorkerHead ==
    ASSUME TypeInv, NEW q \in DOMAIN work, queues[q] # << >>
    PROVE  /\ Head(queues[q]) = queues[q][1] /\ queues[q][1] \in GoodTasks
           /\ queues[q][1].hook \in Hook /\ queues[q][1].ctxs \in Seq(Contexts)
           /\ queues[q][1].allow \in BOOLEAN
           /\ queues[q][1].kind \in {"HookRun", "EnableKubernetesBindings", "EnableScheduleBindings"}
<1>1. PICK s, w : s = queues[q] /\ w = work[q] /\ QueueOK(s, w)
  BY WorkerQueue
<1>2. s[1] = Head(s) /\ s[1] \in GoodTasks
  BY <1>1, QueueTail
<1>3. s[1] \in Tasks
  BY <1>2 DEF GoodTasks
<1> QED BY <1>1, <1>2, <1>3, TaskFields

LEMMA BusyHead ==
    ASSUME TypeInv, NEW q \in DOMAIN work, work[q].at # "idle"
    PROVE  queues[q] # << >> /\ Fits(queues[q][1], work[q])
<1> QED BY WorkerQueue DEF QueueOK

LEMMA MoveStep ==
    ASSUME TypeInv, NEW q \in DOMAIN work, NEW v \in Works, queues[q] # << >>,
           v.at # "idle", v.at # "filter", Fits(queues[q][1], v), Move(q, v)
    PROVE  QueuesOK(queues, work') /\ DOMAIN work' = DOMAIN work
<1>1. QueueOK(queues[q], v)
  BY WorkerQueue, QueueMove
<1>2. work' = Upd(work, q, v)
  BY DEF Move, Upd
<1>3. QueuesOK(queues, work)
  BY DEF TypeInv
<1> QED BY <1>1, <1>2, <1>3, QueuesMove

LEMMA IdleStep ==
    ASSUME TypeInv, NEW q \in DOMAIN work, Move(q, Idle)
    PROVE  QueuesOK(queues, work') /\ DOMAIN work' = DOMAIN work
<1>1. QueueOK(queues[q], Idle)
  BY WorkerQueue, QueueIdle
<1>2. work' = Upd(work, q, Idle)
  BY DEF Move, Upd
<1>3. QueuesOK(queues, work)
  BY DEF TypeInv
<1> QED BY <1>1, <1>2, <1>3, QueuesMove

LEMMA FinishStep ==
    ASSUME TypeInv, NEW q \in DOMAIN work, queues[q] # << >>,
           NEW heads \in Seq(GoodTasks), \A i \in 1..Len(heads) : ~Startup(heads[i]),
           heads # << >> => ~Startup(queues[q][1]),
           Finish(q, heads)
    PROVE  /\ QueuesOK(queues', work') /\ DOMAIN queues' = DOMAIN queues /\ DOMAIN work' = DOMAIN work
           /\ queues' = Upd(queues, q, heads \o Tail(queues[q])) /\ work' = Upd(work, q, Idle)
<1>1. PICK s : s = queues[q]
  OBVIOUS
<1>2. QueueOK(heads \o Tail(s), Idle)
  BY <1>1, WorkerQueue, QueueFinish
<1>3. PICK n : n = heads \o Tail(s)
  OBVIOUS
<1>4. queues' = Upd(queues, q, n) /\ work' = Upd(work, q, Idle)
  <2>1. q \in DOMAIN queues
    BY WorkerQueue
  <2> QED BY <1>1, <1>3, <2>1 DEF Finish, Move, Upd
<1>5. QueuesOK(queues, work)
  BY DEF TypeInv
<1>6. PICK d : d = Idle /\ QueueOK(n, d)
  BY <1>2, <1>3
<1> QED BY <1>1, <1>3, <1>4, <1>5, <1>6, QueuesReplace

LEMMA FinishEmpty ==
    ASSUME TypeInv, NEW q \in DOMAIN work, queues[q] # << >>, Finish(q, << >>)
    PROVE  /\ QueuesOK(queues', work') /\ DOMAIN queues' = DOMAIN queues /\ DOMAIN work' = DOMAIN work
           /\ queues' = Upd(queues, q, Tail(queues[q])) /\ work' = Upd(work, q, Idle)
<1>1. PICK h : h = << >>
  OBVIOUS
<1>2. h \in Seq(GoodTasks) /\ Len(h) = 0
  BY <1>1
<1>3. /\ QueuesOK(queues', work') /\ DOMAIN queues' = DOMAIN queues /\ DOMAIN work' = DOMAIN work
      /\ queues' = Upd(queues, q, h \o Tail(queues[q])) /\ work' = Upd(work, q, Idle)
  <2>1. \A i \in 1..Len(h) : ~Startup(h[i])
    BY <1>2
  <2>2. Finish(q, h)
    BY <1>1
  <2> QED BY <1>1, <1>2, <2>1, <2>2, FinishStep
<1>4. Tail(queues[q]) \in Seq(GoodTasks)
  BY WorkerQueue, QueueTail
<1>5. h \o Tail(queues[q]) = Tail(queues[q])
  BY <1>1, <1>4, ConcatEmptySeq
<1> QED BY <1>3, <1>5

LEMMA BeginType ==
    ASSUME TypeInv, NEW q \in DOMAIN work, Begin(q)
    PROVE  QueuesOK(queues', work') /\ DOMAIN work' = DOMAIN work
<1>1. PICK t : t = Head(queues[q]) /\ t = queues[q][1] /\ t \in GoodTasks /\ t.hook \in Hook
               /\ t.kind \in {"HookRun", "EnableKubernetesBindings", "EnableScheduleBindings"}
  BY WorkerHead DEF Begin
<1>2. queues[q] # << >> /\ queues' = queues
  BY DEF Begin
<1>3. CASE t.kind = "HookRun"
  <2>1. CASE HookConfig[t.hook].version = "v1" /\ t.queue \in DOMAIN queues
    <3>1. Move(q, At("combine"))
      BY <1>1, <1>3, <2>1 DEF Begin
    <3>2. t.queue # ""
      BY <2>1, QueueNames DEF TypeInv, StageInv
    <3>3. PICK v \in Works : v = At("combine") /\ v.at = "combine"
      BY AtWork
    <3>4. Fits(t, v)
      BY <1>3, <2>1, <3>2, <3>3 DEF Fits
    <3> QED BY <1>1, <1>2, <3>1, <3>3, <3>4, MoveStep
  <2>2. CASE ~(HookConfig[t.hook].version = "v1" /\ t.queue \in DOMAIN queues)
    <3>1. Move(q, At("run"))
      BY <1>1, <1>3, <2>2 DEF Begin
    <3>3. PICK v \in Works : v = At("run") /\ v.at = "run"
      BY AtWork
    <3>4. Fits(t, v)
      BY <1>3, <3>3 DEF Fits
    <3> QED BY <1>1, <1>2, <3>1, <3>3, <3>4, MoveStep
  <2> QED BY <2>1, <2>2
<1>4. CASE t.kind = "EnableKubernetesBindings"
  <2>1. Move(q, At("enable"))
    BY <1>1, <1>4 DEF Begin
  <2>2. PICK v \in Works : v = At("enable") /\ v.at = "enable" /\ v.i = 1
    BY AtWork
  <2>3. Kube(t.hook) \in Seq(KubeBindings) /\ Kube(t.hook) # << >>
    BY <1>1, <1>4, ConfigSeqs DEF GoodTasks
  <2>4. 1 \in 1..Len(Kube(t.hook))
    BY <2>3
  <2>5. Fits(t, v)
    BY <1>4, <2>2, <2>4 DEF Fits
  <2> QED BY <1>1, <1>2, <2>1, <2>2, <2>5, MoveStep
<1>5. CASE t.kind = "EnableScheduleBindings"
  <2>1. Move(q, At("link"))
    BY <1>1, <1>5 DEF Begin
  <2>2. PICK v \in Works : v = At("link") /\ v.at = "link" /\ v.i = 1
    BY AtWork
  <2>3. Sched(t.hook) \in Seq(SchedBindings) /\ Sched(t.hook) # << >>
    BY <1>1, <1>5, ConfigSeqs DEF GoodTasks
  <2>4. 1 \in 1..Len(Sched(t.hook))
    BY <2>3
  <2>5. Fits(t, v)
    BY <1>5, <2>2, <2>4 DEF Fits
  <2> QED BY <1>1, <1>2, <2>1, <2>2, <2>5, MoveStep
<1> QED BY <1>1, <1>3, <1>4, <1>5

LEMMA SimilarTasks ==
    ASSUME NEW s \in Seq(GoodTasks), s # << >>
    PROVE  /\ Similar(s) \in Seq(GoodTasks) /\ Len(Similar(s)) + 1 <= Len(s)
           /\ \A i \in 1..Len(Similar(s)) : /\ Similar(s)[i] = s[i + 1]
                                            /\ Similar(s)[i].hook = s[1].hook
                                            /\ Similar(s)[i].kind = s[1].kind
<1> DEFINE T == {n \in DOMAIN s : \A i \in 2..n : s[i].hook = s[1].hook /\ s[i].kind = s[1].kind}
<1>1. DOMAIN s = 1..Len(s) /\ Len(s) \in Nat /\ Len(s) # 0
  OBVIOUS
<1>2. T \subseteq Nat /\ 1 \in T /\ \A k \in T : k <= Len(s)
  BY <1>1
<1>3. PICK m \in T : \A k \in T : k <= m
  BY <1>1, <1>2, GreatestNumber
<1>4. Max(T) \in T
  <2>1. \E x \in T : \A y \in T : x >= y
    BY <1>2, <1>3
  <2> HIDE DEF T
  <2> QED BY <2>1 DEF Max
<1>5. PICK n \in 1..Len(s) : n = Max(T)
  BY <1>1, <1>4
<1>6. \A i \in 2..n : s[i].hook = s[1].hook /\ s[i].kind = s[1].kind
  BY <1>4, <1>5
<1>7. Similar(s) = SubSeq(s, 2, n)
  BY <1>5 DEF Similar
<1>8. PICK u : u = SubSeq(s, 2, n)
  OBVIOUS
<1>9. u \in Seq(GoodTasks) /\ Len(u) = n - 1 /\ \A i \in 1..Len(u) : u[i] = s[i + 1]
  BY <1>1, <1>8
<1>10. \A i \in 1..Len(u) : i + 1 \in 2..n
  BY <1>9
<1> QED BY <1>1, <1>6, <1>7, <1>8, <1>9, <1>10

LEMMA CombineIterateType ==
    ASSUME TypeInv, NEW q \in DOMAIN work, CombineIterate(q)
    PROVE  QueuesOK(queues', work') /\ DOMAIN work' = DOMAIN work
<1>1. work[q].at = "combine" /\ queues' = queues
  BY DEF CombineIterate
<1>2. queues[q] # << >> /\ Fits(queues[q][1], work[q])
  BY <1>1, BusyHead
<1>3. PICK s \in Seq(GoodTasks) : s = queues[q] /\ QueueOK(s, work[q])
  BY WorkerQueue
<1>4. PICK o \in Seq(GoodTasks) : o = Similar(s)
  BY <1>2, <1>3, SimilarTasks
<1>h. s[1].kind = "HookRun" /\ s[1].queue # "" /\ HookConfig[s[1].hook].version = "v1"
  BY <1>1, <1>2, <1>3 DEF Fits
<1>5. CASE o = << >>
  <2>1. Move(q, At("run"))
    BY <1>3, <1>4, <1>5 DEF CombineIterate
  <2>2. PICK v \in Works : v = At("run") /\ v.at = "run"
    BY AtWork
  <2>3. Fits(queues[q][1], v)
    BY <1>3, <1>h, <2>2 DEF Fits
  <2> QED BY <1>1, <1>2, <2>1, <2>2, <2>3, MoveStep
<1>6. CASE o # << >>
  <2>1. PICK v : v = [at |-> "filter", i |-> 1, others |-> o]
    OBVIOUS
  <2>2. v \in Works /\ v.at = "filter" /\ v.others = o
    BY <2>1 DEF Works
  <2>3. Move(q, v)
    BY <1>3, <1>4, <1>6, <2>1 DEF CombineIterate
  <2>4. Fits(s[1], v)
    BY <1>h, <2>2 DEF Fits
  <2>5. Collected(s, o)
    BY <1>2, <1>3, <1>4, <1>h, SimilarTasks DEF Collected
  <2>6. QueueOK(s, v)
    BY <1>2, <1>3, <2>2, <2>4, <2>5 DEF QueueOK
  <2>7. work' = Upd(work, q, v)
    BY <2>3 DEF Move, Upd
  <2>8. QueuesOK(queues, work)
    BY DEF TypeInv
  <2> QED BY <1>1, <1>3, <2>6, <2>7, <2>8, QueuesMove
<1> QED BY <1>5, <1>6

LEMMA CombineFilterType ==
    ASSUME TypeInv, NEW q \in DOMAIN work, CombineFilter(q)
    PROVE  /\ QueuesOK(queues', work') /\ DOMAIN queues' = DOMAIN queues /\ DOMAIN work' = DOMAIN work
           /\ queues' = Upd(queues, q, Combined(queues[q], work[q].others))
           /\ work' = Upd(work, q, At("run"))
<1>1. work[q].at = "filter"
  BY DEF CombineFilter
<1>2. queues[q] # << >>
  BY <1>1, BusyHead
<1>3. PICK s, w : s = queues[q] /\ w = work[q] /\ QueueOK(s, w)
  BY WorkerQueue
<1>4. Head(s) = s[1]
  BY <1>2, <1>3, WorkerHead
<1>5. QueueOK(Combined(s, w.others), At("run"))
  BY <1>1, <1>3, QueueCombine
<1>6. PICK n, a : n = Combined(s, w.others) /\ a = At("run") /\ QueueOK(n, a)
  BY <1>5
<1>7. queues' = Upd(queues, q, n) /\ work' = Upd(work, q, a)
  BY <1>3, <1>4, <1>6 DEF CombineFilter, Move, Upd, Combined
<1>8. QueuesOK(queues, work)
  BY DEF TypeInv
<1> QED BY <1>3, <1>6, <1>7, <1>8, QueuesReplace

LEMMA HookEndsType ==
    ASSUME TypeInv, NEW q \in DOMAIN work, HookSucceeds(q) \/ HookFails(q)
    PROVE  /\ QueuesOK(queues', work') /\ DOMAIN queues' = DOMAIN queues /\ DOMAIN work' = DOMAIN work
           /\ done' \subseteq Contexts /\ dropped' \subseteq Contexts
<1>1. work[q].at = "run"
  BY DEF HookSucceeds, HookFails
<1>2. queues[q] # << >>
  BY <1>1, BusyHead
<1>3. PICK x \in Seq(Contexts) : x = Head(queues[q]).ctxs
  BY <1>2, WorkerHead
<1>4. ToSet(x) \subseteq Contexts /\ done \subseteq Contexts /\ dropped \subseteq Contexts
  BY DEF ToSet, TypeInv, HistoryInv
<1>5. done' \subseteq Contexts /\ dropped' \subseteq Contexts
  BY <1>3, <1>4 DEF HookSucceeds, HookFails
<1>6. CASE Finish(q, << >>)
  BY <1>2, <1>5, <1>6, FinishEmpty
<1>7. CASE Move(q, Idle) /\ queues' = queues
  BY <1>5, <1>7, IdleStep
<1> QED BY <1>6, <1>7 DEF HookSucceeds, HookFails

\* The bindings whose Synchronization a hook is given, in their order.
SyncBs(h) == Keep(Kube(h), {i \in DOMAIN Kube(h) : /\ HookConfig[h].version = "v1"
                                                   /\ BindingConfig[Kube(h)[i]].sync})

LEMMA SyncTasksType ==
    ASSUME NEW h \in Hook
    PROVE  /\ SyncTasks(h) \in Seq(GoodTasks) /\ SyncBs(h) \in Seq(KubeBindings)
           /\ Len(SyncTasks(h)) = Len(SyncBs(h))
           /\ \A i \in 1..Len(SyncBs(h)) : /\ SyncTasks(h)[i] = BindingRun(SyncBs(h)[i], 0, "main")
                                           /\ ~Startup(SyncTasks(h)[i])
           /\ ToSet(SyncBs(h)) = SyncBindings(h)
<1>k. PICK k \in Seq(KubeBindings) : k = Kube(h)
  BY ConfigSeqs
<1>I. PICK I : I = {i \in DOMAIN k : HookConfig[h].version = "v1" /\ BindingConfig[k[i]].sync}
  OBVIOUS
<1>1. PICK bs \in Seq(KubeBindings) : bs = Keep(k, I) /\ bs = SyncBs(h)
  BY <1>k, <1>I, KeepPicks DEF SyncBs
<1>2. PICK u : u = [i \in DOMAIN bs |-> BindingRun(bs[i], 0, "main")]
  OBVIOUS
<1>3. DOMAIN bs = 1..Len(bs) /\ Len(bs) \in Nat
  OBVIOUS
<1>4. ASSUME NEW i \in 1..Len(bs)
      PROVE  u[i] = BindingRun(bs[i], 0, "main") /\ u[i] \in GoodTasks /\ ~Startup(u[i])
  <2>0. bs[i] \in KubeBindings
    BY ElementOfSeq
  <2>1. PICK b \in Bindings : b = bs[i]
    BY <2>0 DEF Bindings
  <2>2. u[i] = BindingRun(b, 0, "main")
    BY <1>2, <1>3, <2>1
  <2>3. u[i] \in GoodTasks /\ u[i].queue = "main"
    <3>1. PICK m \in AllQueues, z \in Count : m = "main" /\ z = 0
      BY Bounds, QueueNames
    <3>2. u[i] = BindingRun(b, z, m)
      BY <2>2, <3>1
    <3> QED BY <3>1, <3>2, BindingRunGood
  <2> QED BY <2>1, <2>2, <2>3 DEF Startup
<1>5. u \in [1..Len(bs) -> GoodTasks]
  BY <1>2, <1>3, <1>4
<1>6. u \in Seq(GoodTasks) /\ Len(u) = Len(bs)
  BY <1>3, <1>5, IsASeq, LenProperties
<1>7. u = SyncTasks(h)
  BY <1>1, <1>2 DEF SyncTasks, SyncBs
<1>8. ToSet(bs) = SyncBindings(h)
  <2>1. PICK row : Picks(k, I, bs, row)
    BY <1>1, KeepPicks
  <2>2. ASSUME NEW j \in 1..Len(bs) PROVE bs[j] \in SyncBindings(h)
    <3>1. PICK i \in 1..Len(k) : i \in I /\ bs[j] = k[i]
      BY <2>1 DEF Picks
    <3> QED BY <1>k, <1>I, <3>1 DEF SyncBindings, ToSet
  <2>3. ASSUME NEW b \in SyncBindings(h) PROVE b \in ToSet(bs)
    <3>1. PICK i \in 1..Len(k) : b = k[i] /\ i \in I
      BY <1>k, <1>I DEF SyncBindings, ToSet
    <3>2. PICK j \in 1..Len(bs) : row[j] = i /\ bs[j] = k[i]
      BY <2>1, <3>1 DEF Picks
    <3> QED BY <3>1, <3>2 DEF ToSet
  <2> QED BY <1>3, <2>2, <2>3 DEF ToSet
<1> QED BY <1>1, <1>4, <1>6, <1>7, <1>8

LEMMA ReverseSeq ==
    ASSUME NEW A, NEW s \in Seq(A)
    PROVE  /\ Reverse(s) \in Seq(A) /\ Len(Reverse(s)) = Len(s)
           /\ \A i \in 1..Len(s) : Reverse(s)[i] = s[(Len(s) - i) + 1] /\ (Len(s) - i) + 1 \in 1..Len(s)
<1>1. PICK n \in Nat : n = Len(s)
  OBVIOUS
<1>2. PICK u : u = Reverse(s)
  OBVIOUS
<1>3. u = [i \in 1..n |-> s[(n - i) + 1]]
  BY <1>1, <1>2 DEF Reverse
<1>4. \A i \in 1..n : (n - i) + 1 \in 1..n
  OBVIOUS
<1>5. \A i \in 1..n : s[(n - i) + 1] \in A
  BY <1>1, <1>4, ElementOfSeq
<1>6. u \in [1..n -> A]
  BY <1>3, <1>5
<1>7. u \in Seq(A) /\ Len(u) = n
  BY <1>6, IsASeq, LenProperties
<1> QED BY <1>1, <1>2, <1>3, <1>4, <1>7

LEMMA WorkFields ==
    ASSUME NEW w \in Works
    PROVE  w.i \in Nat /\ w.others \in Seq(GoodTasks)
<1> QED BY DEF Works

LEMMA AddMonitorType ==
    ASSUME TypeInv, NEW q \in DOMAIN work, NEW b \in KubeBindings, AddMonitor(q, b)
    PROVE  QueuesOK(queues', work') /\ DOMAIN work' = DOMAIN work /\ linked' \subseteq Bindings
<1>1. work[q].at = "enable" /\ queues' = queues
  BY DEF AddMonitor
<1>2. queues[q] # << >> /\ Fits(queues[q][1], work[q])
  BY <1>1, BusyHead
<1>3. PICK t : t = Head(queues[q]) /\ t = queues[q][1] /\ t \in GoodTasks /\ t.hook \in Hook
  BY <1>2, WorkerHead
<1>4. PICK w \in Works : w = work[q]
  BY WorkerQueue
<1>5. t.kind = "EnableKubernetesBindings" /\ w.i \in 1..Len(Kube(t.hook))
  BY <1>1, <1>2, <1>3, <1>4 DEF Fits
<1>6. linked' \subseteq Bindings
  BY DEF AddMonitor, TypeInv, EventInv, Bindings
<1>7. CASE w.i < Len(Kube(t.hook))
  <2>1. PICK v : v = [w EXCEPT !.i = @ + 1]
    OBVIOUS
  <2>2. v \in Works /\ v.at = "enable" /\ v.i = w.i + 1
    BY <1>1, <1>4, <2>1 DEF Works
  <2>3. Move(q, v)
    BY <1>3, <1>4, <1>7, <2>1 DEF AddMonitor
  <2>4. w.i + 1 \in 1..Len(Kube(t.hook))
    <3>1. Len(Kube(t.hook)) \in Nat
      BY <1>3, ConfigSeqs
    <3> QED BY <1>5, <1>7, <3>1
  <2>5. Fits(t, v)
    BY <1>5, <2>2, <2>4 DEF Fits
  <2> QED BY <1>1, <1>2, <1>3, <1>6, <2>2, <2>3, <2>5, MoveStep
<1>8. CASE ~(w.i < Len(Kube(t.hook)))
  <2>1. PICK v \in Works : v = At("monitors") /\ v.at = "monitors"
    BY AtWork
  <2>2. Move(q, v)
    BY <1>3, <1>4, <1>8, <2>1 DEF AddMonitor
  <2>3. Fits(t, v)
    BY <1>5, <2>1 DEF Fits
  <2> QED BY <1>1, <1>2, <1>3, <1>6, <2>1, <2>2, <2>3, MoveStep
<1> QED BY <1>7, <1>8

LEMMA KubernetesEnabledType ==
    ASSUME TypeInv, NEW q \in DOMAIN work, KubernetesEnabled(q)
    PROVE  /\ QueuesOK(queues', work') /\ DOMAIN queues' = DOMAIN queues /\ DOMAIN work' = DOMAIN work
           /\ queues' = Upd(queues, q, Reverse(SyncTasks(queues[q][1].hook)) \o Tail(queues[q]))
           /\ work' = Upd(work, q, Idle)
<1>1. work[q].at = "monitors"
  BY DEF KubernetesEnabled
<1>2. queues[q] # << >> /\ Fits(queues[q][1], work[q])
  BY <1>1, BusyHead
<1>3. PICK t : t = Head(queues[q]) /\ t = queues[q][1] /\ t \in GoodTasks /\ t.hook \in Hook
  BY <1>2, WorkerHead
<1>4. t.kind = "EnableKubernetesBindings"
  BY <1>1, <1>2, <1>3 DEF Fits
<1>5. ~Startup(queues[q][1])
  BY <1>3, <1>4 DEF Startup
<1>6. PICK s \in Seq(GoodTasks) : s = SyncTasks(t.hook) /\ \A i \in 1..Len(s) : ~Startup(s[i])
  BY <1>3, SyncTasksType
<1>7. PICK r \in Seq(GoodTasks) : r = Reverse(s) /\ \A i \in 1..Len(r) : ~Startup(r[i])
  BY <1>6, ReverseSeq
<1>8. Finish(q, r)
  BY <1>3, <1>6, <1>7 DEF KubernetesEnabled
<1>9. /\ QueuesOK(queues', work') /\ DOMAIN queues' = DOMAIN queues /\ DOMAIN work' = DOMAIN work
      /\ queues' = Upd(queues, q, r \o Tail(queues[q])) /\ work' = Upd(work, q, Idle)
  BY <1>2, <1>5, <1>7, <1>8, FinishStep
<1> QED BY <1>3, <1>6, <1>7, <1>9

LEMMA LinkScheduleType ==
    ASSUME TypeInv, NEW q \in DOMAIN work, LinkSchedule(q)
    PROVE  QueuesOK(queues', work') /\ DOMAIN work' = DOMAIN work /\ linked' \subseteq Bindings
<1>1. work[q].at = "link" /\ queues' = queues
  BY DEF LinkSchedule
<1>2. queues[q] # << >> /\ Fits(queues[q][1], work[q])
  BY <1>1, BusyHead
<1>3. PICK t : t = Head(queues[q]) /\ t = queues[q][1] /\ t \in GoodTasks /\ t.hook \in Hook
  BY <1>2, WorkerHead
<1>4. PICK w \in Works : w = work[q]
  BY WorkerQueue
<1>5. t.kind = "EnableScheduleBindings" /\ w.i \in 1..Len(Sched(t.hook))
  BY <1>1, <1>2, <1>3, <1>4 DEF Fits
<1>6. Sched(t.hook)[w.i] \in SchedBindings
  BY <1>3, <1>5, ConfigSeqs, ElementOfSeq
<1>7. linked' \subseteq Bindings
  BY <1>3, <1>4, <1>6 DEF LinkSchedule, TypeInv, EventInv, Bindings
<1>8. PICK v : v = [w EXCEPT !.at = "add"]
  OBVIOUS
<1>9. v \in Works /\ v.at = "add" /\ v.i = w.i
  BY <1>4, <1>8 DEF Works
<1>10. Move(q, v)
  BY <1>4, <1>8 DEF LinkSchedule
<1>11. Fits(t, v)
  BY <1>5, <1>9 DEF Fits
<1> QED BY <1>1, <1>2, <1>3, <1>7, <1>9, <1>10, <1>11, MoveStep

LEMMA AddScheduleType ==
    ASSUME TypeInv, NEW q \in DOMAIN work, AddSchedule(q)
    PROVE  /\ QueuesOK(queues', work') /\ DOMAIN queues' = DOMAIN queues /\ DOMAIN work' = DOMAIN work
           /\ entries' \subseteq SchedBindings
<1>1. work[q].at = "add"
  BY DEF AddSchedule
<1>2. queues[q] # << >> /\ Fits(queues[q][1], work[q])
  BY <1>1, BusyHead
<1>3. PICK t : t = Head(queues[q]) /\ t = queues[q][1] /\ t \in GoodTasks /\ t.hook \in Hook
  BY <1>2, WorkerHead
<1>4. PICK w \in Works : w = work[q]
  BY WorkerQueue
<1>5. t.kind = "EnableScheduleBindings" /\ w.i \in 1..Len(Sched(t.hook))
  BY <1>1, <1>2, <1>3, <1>4 DEF Fits
<1>6. Sched(t.hook)[w.i] \in SchedBindings
  BY <1>3, <1>5, ConfigSeqs, ElementOfSeq
<1>7. entries' \subseteq SchedBindings
  BY <1>3, <1>4, <1>6 DEF AddSchedule, TypeInv, EventInv
<1>8. CASE w.i < Len(Sched(t.hook))
  <2>0. PICK a \in Works : a = At("link") /\ a.at = "link"
    BY AtWork
  <2>1. PICK v : v = [a EXCEPT !.i = w.i + 1]
    OBVIOUS
  <2>2. v \in Works /\ v.at = "link" /\ v.i = w.i + 1
    <3>1. w.i \in Nat
      BY <1>4, WorkFields
    <3> QED BY <2>0, <2>1, <3>1 DEF Works
  <2>3. Move(q, v) /\ queues' = queues
    BY <1>3, <1>4, <1>8, <2>0, <2>1 DEF AddSchedule
  <2>4. w.i + 1 \in 1..Len(Sched(t.hook))
    <3>1. Len(Sched(t.hook)) \in Nat
      BY <1>3, ConfigSeqs
    <3> QED BY <1>5, <1>8, <3>1
  <2>5. Fits(t, v)
    BY <1>5, <2>2, <2>4 DEF Fits
  <2>6. QueuesOK(queues, work') /\ DOMAIN work' = DOMAIN work
    BY <1>2, <1>3, <2>2, <2>3, <2>5, MoveStep
  <2> QED BY <1>7, <2>3, <2>6
<1>9. CASE ~(w.i < Len(Sched(t.hook)))
  <2>1. Finish(q, << >>)
    BY <1>3, <1>4, <1>9 DEF AddSchedule
  <2> QED BY <1>2, <1>7, <2>1, FinishEmpty
<1> QED BY <1>8, <1>9

-----------------------------------------------------------------------------
(* The context that stands for a compacted one.                            *)

LEMMA SurvivorIs ==
    ASSUME NEW s \in Seq(Contexts), NEW i \in 1..Len(s)
    PROVE  \E j \in i..Len(s) : /\ Survivor(s, i) = s[j] /\ ~Skipped(s, j)
                                /\ Group(s[j]) = Group(s[i])
<1>n. PICK n \in Nat : n = Len(s)
  OBVIOUS
<1> DEFINE T == {j \in i..n : ~Skipped(s, j)}
<1>1. T \subseteq Nat /\ n \in T
  <2>1. ~Skipped(s, n)
    <3>1. ~(n < Len(s))
      BY <1>n
    <3> QED BY <3>1 DEF Skipped
  <2> QED BY <1>n, <2>1
<1>2. PICK m \in T : \A k \in T : m <= k
  BY <1>1, LeastNumber
<1>3. m \in i..n /\ ~Skipped(s, m) /\ \A k \in i..(m - 1) : Skipped(s, k)
  <2>1. ASSUME NEW k \in i..(m - 1) PROVE Skipped(s, k)
    <3>1. k \in i..n /\ ~(m <= k)
      BY <1>2, <1>n
    <3> QED BY <1>2, <3>1
  <2> QED BY <2>1
<1>4. PICK j \in i..n : /\ Survivor(s, i) = s[j]
                        /\ ~Skipped(s, j) /\ \A k \in i..(j - 1) : Skipped(s, k)
  <2>1. \E x \in i..Len(s) : ~Skipped(s, x) /\ \A k \in i..(x - 1) : Skipped(s, k)
    BY <1>3, <1>n
  <2> QED BY <1>n, <2>1 DEF Survivor
<1>5. Group(s[j]) = Group(s[i])
  <2> DEFINE D == {k \in i..j : Group(s[k]) # Group(s[i])}
  <2> SUFFICES ASSUME D # {} PROVE FALSE
    BY <1>4, <1>n
  <2>1. D \subseteq Nat
    OBVIOUS
  <2>2. PICK k \in D : \A l \in D : k <= l
    BY <2>1, LeastNumber
  <2>3. k \in i..j /\ k # i
    OBVIOUS
  <2>4. k - 1 \in i..(j - 1) /\ k - 1 \in i..j /\ ~(k <= k - 1) /\ (k - 1) + 1 = k
    BY <2>3, <1>n
  <2>5. Group(s[k - 1]) = Group(s[i])
    BY <2>2, <2>4
  <2>6. Group(s[(k - 1) + 1]) = Group(s[k - 1])
    BY <1>4, <2>4 DEF Skipped
  <2> QED BY <2>4, <2>5, <2>6
<1> QED BY <1>4, <1>5, <1>n

Gone(s) == {s[i] : i \in {j \in DOMAIN s : Skipped(s, j)}}
Stands(s, c) == IF c \in Gone(s) THEN Survivor(s, CHOOSE i \in DOMAIN s : s[i] = c) ELSE c

\* NewHeirs, seen from one context.
LEMMA NewHeirOf ==
    ASSUME NEW s
    PROVE  /\ DOMAIN NewHeirs(s) = DOMAIN heir \union Gone(s)
           /\ \A c \in DOMAIN heir : NewHeirs(s)[c] = Stands(s, heir[c])
           /\ \A c \in Gone(s) : c \notin DOMAIN heir => NewHeirs(s)[c] = Stands(s, c)
<1> QED BY DEF NewHeirs, Gone, Stands

LEMMA StandsIs ==
    ASSUME NEW s \in Seq(Contexts), NEW c \in Gone(s)
    PROVE  \E j \in 1..Len(s) : /\ Stands(s, c) = s[j] /\ ~Skipped(s, j)
                                /\ Group(s[j]) = Group(c)
<1>1. DOMAIN s = 1..Len(s)
  OBVIOUS
<1>2. PICK i \in 1..Len(s) : s[i] = c /\ i = CHOOSE k \in DOMAIN s : s[k] = c
  BY <1>1 DEF Gone
<1>3. Stands(s, c) = Survivor(s, i)
  BY <1>2 DEF Stands
<1>4. PICK j \in i..Len(s) : Survivor(s, i) = s[j] /\ ~Skipped(s, j) /\ Group(s[j]) = Group(s[i])
  BY SurvivorIs
<1>5. j \in 1..Len(s)
  OBVIOUS
<1> QED BY <1>2, <1>3, <1>4, <1>5

LEMMA NewHeirsType ==
    ASSUME HistoryInv, NEW s \in Seq(Contexts)
    PROVE  /\ DOMAIN NewHeirs(s) \subseteq Contexts
           /\ \A c \in DOMAIN NewHeirs(s) : NewHeirs(s)[c] \in Contexts
<1>1. Gone(s) \subseteq Contexts
  BY DEF Gone
<1>2. ASSUME NEW c \in Contexts PROVE Stands(s, c) \in Contexts
  <2>1. CASE c \in Gone(s)
    <3>1. PICK j \in 1..Len(s) : Stands(s, c) = s[j]
      BY <2>1, StandsIs
    <3> QED BY <3>1, ElementOfSeq
  <2>2. CASE c \notin Gone(s)
    BY <2>2 DEF Stands
  <2> QED BY <2>1, <2>2
<1>3. PICK h : h = NewHeirs(s)
  OBVIOUS
<1>4. DOMAIN h = DOMAIN heir \union Gone(s)
  BY <1>3, NewHeirOf
<1>5. ASSUME NEW c \in DOMAIN h PROVE h[c] \in Contexts
  <2>1. CASE c \in DOMAIN heir
    <3>1. h[c] = Stands(s, heir[c]) /\ heir[c] \in Contexts
      BY <1>3, <2>1, NewHeirOf DEF HistoryInv
    <3> QED BY <1>2, <3>1
  <2>2. CASE c \notin DOMAIN heir
    <3>1. c \in Gone(s) /\ h[c] = Stands(s, c)
      BY <1>3, <1>4, <2>2, NewHeirOf
    <3> QED BY <1>1, <1>2, <3>1
  <2> QED BY <2>1, <2>2
<1> QED BY <1>1, <1>3, <1>4, <1>5 DEF HistoryInv

LEMMA CombineFilterHeirs ==
    ASSUME TypeInv, NEW q \in DOMAIN work, CombineFilter(q)
    PROVE  /\ heir' = NewHeirs(queues[q][1].ctxs \o ContextsOf(work[q].others))
           /\ queues[q][1].ctxs \o ContextsOf(work[q].others) \in Seq(Contexts)
           /\ DOMAIN heir' \subseteq Contexts /\ \A c \in DOMAIN heir' : heir'[c] \in Contexts
<1>1. work[q].at = "filter"
  BY DEF CombineFilter
<1>2. queues[q] # << >>
  BY <1>1, BusyHead
<1>3. PICK s, w : s = queues[q] /\ w = work[q] /\ QueueOK(s, w)
  BY WorkerQueue
<1>4. Head(s) = s[1]
  BY <1>2, <1>3, WorkerHead
<1>5. PICK z \in Seq(Contexts) : z = s[1].ctxs \o ContextsOf(w.others)
  BY <1>1, <1>3, CombinedOf
<1>6. heir' = NewHeirs(z)
  BY <1>3, <1>4, <1>5 DEF CombineFilter
<1> QED BY <1>3, <1>5, <1>6, NewHeirsType DEF TypeInv

-----------------------------------------------------------------------------
(* The first tasks of the main queue.                                      *)

StartTask(h) == HookRun(h, <<Context(h, 0)>>, FALSE, "")
StartTasks == [i \in DOMAIN StartupOrder |-> StartTask(StartupOrder[i])]
EnablingTasks == FlattenSeq([i \in DOMAIN HookNames |-> EnableTasks(HookNames[i])])

LEMMA StartTasksType ==
    /\ StartTasks \in Seq(GoodTasks) /\ Len(StartTasks) = Len(StartupOrder)
    /\ \A i \in 1..Len(StartupOrder) : /\ StartTasks[i] = StartTask(StartupOrder[i])
                                       /\ Startup(StartTasks[i])
<1>1. PICK n \in Nat : n = Len(StartupOrder) /\ DOMAIN StartupOrder = 1..n
  BY HookNamesSeq
<1>2. ASSUME NEW i \in 1..n
      PROVE  StartTasks[i] = StartTask(StartupOrder[i]) /\ StartTasks[i] \in GoodTasks /\ Startup(StartTasks[i])
  <2>1. PICK h \in Hook : h = StartupOrder[i]
    BY <1>1, HookNamesSeq, ElementOfSeq
  <2>2. StartTasks[i] = StartTask(h)
    BY <1>1, <2>1 DEF StartTasks
  <2>3. StartTask(h) \in GoodTasks
    BY StartupTaskGood DEF StartTask
  <2>4. Startup(StartTask(h))
    BY DEF StartTask, Startup, HookRun
  <2> QED BY <2>1, <2>2, <2>3, <2>4
<1>3. StartTasks \in [1..n -> GoodTasks]
  BY <1>1, <1>2 DEF StartTasks
<1>4. StartTasks \in Seq(GoodTasks) /\ Len(StartTasks) = n
  BY <1>3, IsASeq, LenProperties
<1> QED BY <1>1, <1>2, <1>4

LEMMA TwoElements ==
    ASSUME NEW A, NEW a \in A, NEW b \in A, NEW u, u = <<a>> \o <<b>>
    PROVE  u \in Seq(A) /\ Len(u) = 2 /\ u[1] = a /\ u[2] = b
<1> QED OBVIOUS

\* The enabling tasks of one hook.
LEMMA EnableTasksType ==
    ASSUME NEW h \in Hook
    PROVE  /\ EnableTasks(h) \in Seq(GoodTasks)
           /\ \A i \in 1..Len(EnableTasks(h)) :
                 /\ EnableTasks(h)[i].kind \in {"EnableKubernetesBindings", "EnableScheduleBindings"}
                 /\ EnableTasks(h)[i].hook = h
           /\ \A i, j \in 1..Len(EnableTasks(h)) : EnableTasks(h)[i] = EnableTasks(h)[j] => i = j
<1>1. PICK k : k = EnableTask("EnableKubernetesBindings", h)
  OBVIOUS
<1>2. PICK s : s = EnableTask("EnableScheduleBindings", h)
  OBVIOUS
<1>3. k.kind = "EnableKubernetesBindings" /\ k.hook = h /\ s.kind = "EnableScheduleBindings" /\ s.hook = h
  BY <1>1, <1>2 DEF EnableTask
<1>4. (Kube(h) # << >> => k \in GoodTasks) /\ (Sched(h) # << >> => s \in GoodTasks)
  BY <1>1, <1>2, EnableTaskGood
<1>5. EnableTasks(h) = (IF Kube(h) # << >> THEN <<k>> ELSE << >>) \o (IF Sched(h) # << >> THEN <<s>> ELSE << >>)
  BY <1>1, <1>2 DEF EnableTasks
<1>6. CASE Kube(h) # << >> /\ Sched(h) # << >>
  <2>0. EnableTasks(h) = <<k>> \o <<s>>
    BY <1>5, <1>6
  <2>1. k \in GoodTasks /\ s \in GoodTasks
    BY <1>4, <1>6
  <2>4. PICK u : u = <<k>> \o <<s>> /\ u = EnableTasks(h)
    BY <2>0
  <2>5. u \in Seq(GoodTasks) /\ Len(u) = 2 /\ u[1] = k /\ u[2] = s
    BY <2>1, <2>4, TwoElements
  <2>6. k # s
    BY <1>3
  <2>7. \A i \in 1..Len(u) : i = 1 \/ i = 2
    BY <2>5
  <2>8. \A i \in 1..Len(u) :
           u[i].kind \in {"EnableKubernetesBindings", "EnableScheduleBindings"} /\ u[i].hook = h
    BY <1>3, <2>5, <2>7
  <2>9. \A i, j \in 1..Len(u) : u[i] = u[j] => i = j
    BY <2>5, <2>6, <2>7
  <2>10. u \in Seq(GoodTasks) /\ u = EnableTasks(h)
    BY <2>4, <2>5
  <2> QED BY <2>8, <2>9, <2>10
<1>7. CASE Kube(h) # << >> /\ Sched(h) = << >>
  <2>1. EnableTasks(h) = <<k>> /\ k \in GoodTasks
    BY <1>4, <1>5, <1>7
  <2> QED BY <1>3, <2>1
<1>8. CASE Kube(h) = << >> /\ Sched(h) # << >>
  <2>1. EnableTasks(h) = <<s>> /\ s \in GoodTasks
    BY <1>4, <1>5, <1>8
  <2> QED BY <1>3, <2>1
<1>9. CASE Kube(h) = << >> /\ Sched(h) = << >>
  <2>1. EnableTasks(h) = << >>
    BY <1>5, <1>9
  <2> QED BY <2>1
<1> QED BY <1>6, <1>7, <1>8, <1>9

LEMMA EnablingTasksType ==
    /\ EnablingTasks \in Seq(GoodTasks)
    /\ \A i \in 1..Len(EnablingTasks) :
          EnablingTasks[i].kind \in {"EnableKubernetesBindings", "EnableScheduleBindings"}
    /\ \A i, j \in 1..Len(EnablingTasks) : EnablingTasks[i] = EnablingTasks[j] => i = j
<1>1. PICK n \in Nat : n = Len(HookNames) /\ DOMAIN HookNames = 1..n
  BY HookNamesSeq
<1>2. PICK s : s = [i \in 1..n |-> EnableTasks(HookNames[i])]
  OBVIOUS
<1>3. ASSUME NEW i \in 1..n
      PROVE  /\ s[i] \in Seq(GoodTasks)
             /\ \A k \in 1..Len(s[i]) :
                   /\ s[i][k].kind \in {"EnableKubernetesBindings", "EnableScheduleBindings"}
                   /\ s[i][k].hook = HookNames[i]
             /\ \A k, l \in 1..Len(s[i]) : s[i][k] = s[i][l] => k = l
  <2>1. PICK h \in Hook : h = HookNames[i]
    BY <1>1, HookNamesSeq, ElementOfSeq
  <2>2. s[i] = EnableTasks(h)
    BY <1>2, <2>1
  <2> QED BY <2>1, <2>2, EnableTasksType
<1>4. PICK B : B = Seq(GoodTasks)
  OBVIOUS
<1>5. s \in [1..n -> B]
  BY <1>2, <1>3, <1>4
<1>6. s \in Seq(B) /\ Len(s) = n
  BY <1>5, IsASeq, LenProperties
<1>7. EnablingTasks = FlattenSeq(s)
  BY <1>1, <1>2 DEF EnablingTasks
<1>8. PICK f \in Seq(GoodTasks) : f = FlattenSeq(s) /\ \E row, col : Places(s, f, row, col)
  BY <1>4, <1>6, FlattenPlaces
<1>9. PICK row, col : Places(s, f, row, col)
  BY <1>8
<1>10. ASSUME NEW k \in 1..Len(f)
       PROVE  row[k] \in 1..n /\ col[k] \in 1..Len(s[row[k]]) /\ f[k] = s[row[k]][col[k]]
              /\ row[k] \in Nat /\ col[k] \in Nat
  BY <1>6, <1>9 DEF Places
<1>11. ASSUME NEW k \in 1..Len(f)
       PROVE  /\ f[k].kind \in {"EnableKubernetesBindings", "EnableScheduleBindings"}
              /\ f[k].hook = HookNames[row[k]]
  BY <1>3, <1>10
<1>12. IsInjective(HookNames)
  BY ShellOperatorAssumption
<1>13. ASSUME NEW k \in 1..Len(f), NEW l \in 1..Len(f), f[k] = f[l] PROVE ~(k < l)
  <2>1. HookNames[row[k]] = HookNames[row[l]]
    BY <1>11, <1>13
  <2>2. row[k] = row[l]
    BY <1>1, <1>10, <1>12, <2>1 DEF IsInjective
  <2>3. PICK i \in 1..n : i = row[k] /\ i = row[l]
    BY <1>10, <2>2
  <2>4. s[i][col[k]] = s[i][col[l]] /\ col[k] \in 1..Len(s[i]) /\ col[l] \in 1..Len(s[i])
    BY <1>10, <1>13, <2>3
  <2>5. col[k] = col[l]
    BY <1>3, <2>4
  <2>6. col[k] \in Nat /\ row[k] \in Nat
    BY <1>10
  <2>7. k < l => row[k] < row[l] \/ (row[k] = row[l] /\ col[k] < col[l])
    BY <1>9 DEF Places
  <2> QED BY <2>2, <2>5, <2>6, <2>7
<1>14. ASSUME NEW k \in 1..Len(f), NEW l \in 1..Len(f), f[k] = f[l] PROVE k = l
  <2>1. ~(k < l) /\ ~(l < k)
    BY <1>13, <1>14
  <2> QED BY <2>1
<1> QED BY <1>7, <1>8, <1>11, <1>14

\* What PrepopulateMainQueue puts into the main queue.
FirstTasks == StartTasks \o EnablingTasks

LEMMA FirstTasksType ==
    /\ FirstTasks \in Seq(GoodTasks) /\ Len(FirstTasks) = Len(StartupOrder) + Len(EnablingTasks)
    /\ \A i \in 1..Len(FirstTasks) :
          FirstTasks[i] = IF i <= Len(StartupOrder) THEN StartTask(StartupOrder[i])
                          ELSE EnablingTasks[i - Len(StartupOrder)]
    /\ QueueOK(FirstTasks, Idle)
<1>1. PICK a \in Seq(GoodTasks) : a = StartTasks
  BY StartTasksType
<1>2. PICK b \in Seq(GoodTasks) : b = EnablingTasks
  BY EnablingTasksType
<1>n. PICK n \in Nat : n = Len(StartupOrder) /\ n = Len(a)
  BY <1>1, StartTasksType
<1>3. PICK f \in Seq(GoodTasks) : f = FirstTasks /\ f = a \o b
  BY <1>1, <1>2, ConcatProperties DEF FirstTasks
<1>4. Len(f) = n + Len(b) /\ \A i \in 1..Len(f) : f[i] = IF i <= n THEN a[i] ELSE b[i - n]
  BY <1>n, <1>3, ConcatProperties
<1>5. \A i \in 1..n : a[i] = StartTask(StartupOrder[i]) /\ Startup(a[i])
  BY <1>1, <1>n, StartTasksType
<1>6. ASSUME NEW i \in 1..Len(f)
      PROVE  /\ f[i] = IF i <= n THEN StartTask(StartupOrder[i]) ELSE b[i - n]
             /\ Startup(f[i]) <=> i <= n
  <2>1. CASE i <= n
    <3>1. i \in 1..n
      BY <2>1
    <3> QED BY <1>4, <1>5, <2>1, <3>1
  <2>2. CASE ~(i <= n)
    <3>1. i - n \in 1..Len(b)
      BY <1>4, <2>2
    <3>2. f[i] = b[i - n]
      BY <1>4, <2>2
    <3>3. b[i - n].kind \in {"EnableKubernetesBindings", "EnableScheduleBindings"}
      BY <1>2, <3>1, EnablingTasksType
    <3> QED BY <2>2, <3>2, <3>3 DEF Startup
  <2> QED BY <2>1, <2>2
<1>7. StartupsFirst(f)
  <2>1. ASSUME NEW i \in 1..Len(f), NEW j \in 1..Len(f), i < j, Startup(f[j]) PROVE Startup(f[i])
    <3>1. i <= n
      BY <1>6, <2>1
    <3> QED BY <1>6, <3>1
  <2> QED BY <2>1 DEF StartupsFirst
<1>8. QueueOK(f, Idle)
  BY <1>7, IdleWork DEF QueueOK
<1> QED BY <1>2, <1>3, <1>4, <1>6, <1>8, <1>n

-----------------------------------------------------------------------------
(* The start, and the events.                                              *)

LEMMA StartType ==
    ASSUME TypeInv, StartOperator
    PROVE  StageInv' /\ QueuesOK(queues', work')
<1>0. StageInv /\ QueuesOK(queues, work)
  BY DEF TypeInv
<1>1. CASE PrepopulateMainQueue
  <2>1. queues' = [q \in {"main"} |-> FirstTasks] /\ work' = work /\ stage' = "main" /\ tailTasks' = tailTasks
    BY <1>1 DEF PrepopulateMainQueue, FirstTasks, StartTasks, StartTask, EnablingTasks, events
  <2>2. DOMAIN queues = {} /\ DOMAIN work = {} /\ tailTasks = << >>
    BY <1>0, <1>1 DEF PrepopulateMainQueue, StageInv, QueuesOK
  <2>3. DOMAIN queues' = {"main"} /\ queues'["main"] = FirstTasks
    BY <2>1
  <2>4. QueuesOK(queues', work')
    BY <2>1, <2>2, <2>3, FirstTasksType DEF QueuesOK, Doing
  <2> QED BY <2>1, <2>2, <2>3, <2>4, QueueNames DEF StageInv
<1>2. CASE StartMain
  <2>1. work' = [q \in {"main"} |-> Idle] /\ queues' = queues /\ stage' = "queues" /\ tailTasks' = tailTasks
    BY <1>2 DEF StartMain, events
  <2>2. DOMAIN queues = {"main"} /\ DOMAIN work = {} /\ tailTasks = << >>
    BY <1>0, <1>2 DEF StartMain, StageInv
  <2>3. DOMAIN work' = {"main"} /\ work'["main"] = Idle
    BY <2>1
  <2>4. QueueOK(queues["main"], Idle)
    BY <1>0, <2>2 DEF QueuesOK, Doing
  <2>5. QueuesOK(queues', work')
    BY <2>1, <2>2, <2>3, <2>4 DEF QueuesOK, Doing
  <2> QED BY <2>1, <2>2, <2>3, <2>5, QueueNames DEF StageInv
<1>3. ASSUME NEW q \in NamedQueues, InitAndStartHookQueues(q)
      PROVE  StageInv' /\ QueuesOK(queues', work')
  <2>1. /\ stage = "queues" /\ q \notin DOMAIN queues /\ stage' = stage /\ tailTasks' = tailTasks
        /\ DOMAIN queues' = DOMAIN queues \union {q} /\ DOMAIN work' = DOMAIN work \union {q}
        /\ queues'[q] = << >> /\ work'[q] = Idle
        /\ \A p \in DOMAIN queues : p # q => queues'[p] = queues[p]
        /\ \A p \in DOMAIN work : p # q => work'[p] = work[p]
    BY <1>3 DEF InitAndStartHookQueues, startup, events
  <2>2. DOMAIN work = DOMAIN queues /\ "main" \in DOMAIN work /\ tailTasks = << >>
    BY <1>0, <2>1 DEF StageInv
  <2>3. QueueOK(<< >>, Idle)
    <3>1. << >> \in Seq(GoodTasks) /\ Len(<< >>) = 0
      OBVIOUS
    <3> QED BY <3>1, IdleWork DEF QueueOK, StartupsFirst
  <2>4. ASSUME NEW p \in DOMAIN queues' PROVE QueueOK(queues'[p], Doing(work', p))
    <3>1. CASE p = q
      BY <2>1, <2>3, <3>1 DEF Doing
    <3>2. CASE p # q
      BY <1>0, <2>1, <2>2, <3>2 DEF Doing, QueuesOK
    <3> QED BY <3>1, <3>2
  <2>5. QueuesOK(queues', work')
    BY <2>1, <2>2, <2>4 DEF QueuesOK
  <2>6. q \in AllQueues
    BY DEF AllQueues
  <2> QED BY <1>0, <2>1, <2>2, <2>5, <2>6 DEF StageInv
<1>4. CASE StartEventsHandler \/ StartScheduleManager
  BY <1>0, <1>4 DEF StartEventsHandler, StartScheduleManager, StageInv, events
<1> QED BY <1>1, <1>2, <1>3, <1>4 DEF StartOperator

LEMMA EventTaskGood ==
    ASSUME NEW b \in Bindings, NEW n \in Count
    PROVE  BindingRun(b, n, BindingConfig[b].queue) \in EventTasks
<1>1. PICK q : q = BindingConfig[b].queue
  OBVIOUS
<1>2. q \in NamedQueues /\ q \in AllQueues
  BY <1>1 DEF NamedQueues, AllQueues
<1>3. BindingRun(b, n, q) \in GoodTasks
  BY <1>2, BindingRunGood
<1>4. BindingRun(b, n, q).kind = "HookRun" /\ BindingRun(b, n, q).queue = q
  BY <1>2, BindingRunGood
<1> QED BY <1>1, <1>2, <1>3, <1>4 DEF EventTasks

LEMMA SingleSeq ==
    ASSUME NEW A, NEW a \in A
    PROVE  <<a>> \in Seq(A) /\ Len(<<a>>) = 1 /\ <<a>>[1] = a
<1> QED OBVIOUS

LEMMA OneMore ==
    ASSUME NEW x \in Count, x < MaxEvents \/ x < MaxTicks
    PROVE  x + 1 \in Count /\ x + 1 # 0
<1>1. MaxEvents \in Nat /\ MaxTicks \in Nat
  BY ShellOperatorAssumption
<1> QED BY <1>1 DEF Count

LEMMA MonitorEventType ==
    ASSUME TypeInv, NEW b \in KubeBindings, MonitorEvent(b)
    PROVE  EventInv' /\ owed' \subseteq Contexts
<1>0. EventInv /\ owed \subseteq Contexts
  BY DEF TypeInv, HistoryInv
<1>1. PICK e \in Count : e = emitted[b] /\ e < MaxEvents
  BY <1>0 DEF MonitorEvent, EventInv
<1>2. PICK n \in Count : n = e + 1 /\ n # 0
  BY <1>1, OneMore
<1>3. PICK c : c = Context(b, n)
  OBVIOUS
<1>4. c \in Contexts /\ c.binding = b /\ c.n = n
  BY <1>3, ContextType DEF Bindings
<1>5. emitted' = [emitted EXCEPT ![b] = n]
  BY <1>1, <1>2 DEF MonitorEvent
<1>6. emitted' \in [KubeBindings \union Crontabs -> Count]
  BY <1>0, <1>5 DEF EventInv
<1>7. kubeCh' = <<c>> /\ owed' = owed \union {c}
  BY <1>1, <1>2, <1>3 DEF MonitorEvent
<1>8. kubeCh' \in Seq(Contexts) /\ Len(kubeCh') = 1 /\ kubeCh'[1] = c
  BY <1>4, <1>7, SingleSeq
<1>9. \A i \in 1..Len(kubeCh') : kubeCh'[i].binding \in KubeBindings /\ kubeCh'[i].n # 0
  BY <1>2, <1>4, <1>8
<1>10. /\ linked' = linked /\ monitors' = monitors /\ entries' = entries
       /\ scheduleCh' = scheduleCh /\ tailTasks' = tailTasks
  BY DEF MonitorEvent, startup
<1>11. Len(kubeCh') <= 1
  BY <1>8
<1> QED BY <1>0, <1>4, <1>6, <1>7, <1>8, <1>9, <1>10, <1>11 DEF EventInv

LEMMA CronFiresType ==
    ASSUME TypeInv, NEW c \in Crontabs, CronFires(c)
    PROVE  EventInv' /\ owed' \subseteq Contexts
<1>0. EventInv /\ owed \subseteq Contexts
  BY DEF TypeInv, HistoryInv
<1>1. PICK e \in Count : e = emitted[c] /\ e < MaxTicks
  BY <1>0 DEF CronFires, EventInv
<1>2. PICK n \in Count : n = e + 1 /\ n # 0
  BY <1>1, OneMore
<1>3. PICK f : f = [crontab |-> c, n |-> n]
  OBVIOUS
<1>4. f \in Fires /\ f.n = n
  BY <1>3 DEF Fires
<1>5. emitted' = [emitted EXCEPT ![c] = n]
  BY <1>1, <1>2 DEF CronFires
<1>6. emitted' \in [KubeBindings \union Crontabs -> Count]
  BY <1>0, <1>5 DEF EventInv
<1>7. scheduleCh' = <<f>>
  BY <1>1, <1>2, <1>3 DEF CronFires
<1>8. scheduleCh' \in Seq(Fires) /\ Len(scheduleCh') = 1 /\ scheduleCh'[1] = f
  BY <1>4, <1>7, SingleSeq
<1>9. \A i \in 1..Len(scheduleCh') : scheduleCh'[i].n # 0
  BY <1>2, <1>4, <1>8
<1>10. /\ linked' = linked /\ monitors' = monitors /\ entries' = entries
       /\ kubeCh' = kubeCh /\ tailTasks' = tailTasks
  BY DEF CronFires, startup
<1>11. Len(scheduleCh') <= 1
  BY <1>8
<1>12. \A b \in entries : Context(b, n) \in Contexts
  BY <1>0, ContextType DEF EventInv, Bindings
<1>13. owed' = owed \union {Context(b, n) : b \in {x \in entries : BindingConfig[x].crontab = c}}
  BY <1>1, <1>2 DEF CronFires
<1>14. owed' \subseteq Contexts
  BY <1>0, <1>12, <1>13
<1> QED BY <1>0, <1>6, <1>8, <1>9, <1>10, <1>11, <1>14 DEF EventInv

\* The event at the head of a channel.
LEMMA AtMostOne ==
    ASSUME NEW A, NEW s \in Seq(A), s # << >>, Len(s) <= 1
    PROVE  Head(s) = s[1] /\ s[1] \in A /\ Tail(s) = << >> /\ Len(s) = 1
<1>1. Len(s) = 1
  <2>1. Len(s) \in Nat /\ Len(s) # 0
    BY EmptySeq
  <2> QED BY <2>1
<1>2. Head(s) = s[1] /\ s[1] \in A
  BY <1>1
<1>3. Tail(s) \in Seq(A) /\ Len(Tail(s)) = 0
  BY <1>1, HeadTailProperties
<1>4. Tail(s) = << >>
  BY <1>3, EmptySeq
<1> QED BY <1>1, <1>2, <1>4

LEMMA KubeHead ==
    ASSUME EventInv, kubeCh # << >>
    PROVE  /\ Head(kubeCh) = kubeCh[1] /\ kubeCh[1] \in Contexts /\ Tail(kubeCh) = << >>
           /\ kubeCh[1].binding \in KubeBindings /\ kubeCh[1].n \in Count /\ kubeCh[1].n # 0
           /\ Len(kubeCh) = 1
<1>1. PICK k \in Seq(Contexts) : k = kubeCh /\ Len(k) <= 1
  BY DEF EventInv
<1>2. Head(k) = k[1] /\ k[1] \in Contexts /\ Tail(k) = << >> /\ Len(k) = 1
  BY <1>1, AtMostOne
<1>3. k[1].n \in Count
  BY <1>2 DEF Contexts, Count
<1>4. k[1].binding \in KubeBindings /\ k[1].n # 0
  BY <1>1, <1>2 DEF EventInv
<1> QED BY <1>1, <1>2, <1>3, <1>4

LEMMA ScheduleHead ==
    ASSUME EventInv, scheduleCh # << >>
    PROVE  /\ Head(scheduleCh) = scheduleCh[1] /\ Tail(scheduleCh) = << >> /\ Len(scheduleCh) = 1
           /\ scheduleCh[1].n \in Count /\ scheduleCh[1].n # 0 /\ scheduleCh[1].crontab \in Crontabs
<1>1. PICK k \in Seq(Fires) : k = scheduleCh /\ Len(k) <= 1
  BY DEF EventInv
<1>2. Head(k) = k[1] /\ k[1] \in Fires /\ Tail(k) = << >> /\ Len(k) = 1
  BY <1>1, AtMostOne
<1>3. k[1].n \in Count /\ k[1].crontab \in Crontabs
  BY <1>2 DEF Fires
<1>4. k[1].n # 0
  BY <1>1, <1>2 DEF EventInv
<1> QED BY <1>1, <1>2, <1>3, <1>4

LEMMA ElementsFinite ==
    ASSUME NEW A, NEW s \in Seq(A)
    PROVE  IsFiniteSet(ToSet(s))
<1>1. s \in [1..Len(s) -> ToSet(s)] /\ \A x \in ToSet(s) : \E i \in 1..Len(s) : s[i] = x
  BY DEF ToSet
<1>2. s \in Surjection(1..Len(s), ToSet(s))
  BY <1>1 DEF Surjection
<1>3. IsFiniteSet(1..Len(s))
  BY FS_Interval
<1> QED BY <1>2, <1>3, FS_Surjection DEF ExistsSurjection

LEMMA SchedBindingsFinite == IsFiniteSet(SchedBindings)
<1>1. PICK n \in Nat : n = Len(HookNames) /\ DOMAIN HookNames = 1..n
  BY HookNamesSeq
<1>2. PICK s : s = [i \in 1..n |-> ToSet(Sched(HookNames[i]))]
  OBVIOUS
<1>3. s \in [1..n -> SUBSET SchedBindings]
  <2>1. \A i \in 1..n : HookNames[i] \in Hook
    BY <1>1, HookNamesSeq, ElementOfSeq
  <2> QED BY <1>2, <2>1, ConfigSeqs
<1>4. s \in Seq(SUBSET SchedBindings)
  BY <1>3, IsASeq
<1>5. IsFiniteSet(ToSet(s))
  BY <1>4, ElementsFinite
<1>6. \A S \in ToSet(s) : IsFiniteSet(S)
  <2>1. ASSUME NEW i \in 1..n PROVE IsFiniteSet(s[i])
    <3>1. PICK h \in Hook : h = HookNames[i]
      BY <1>1, HookNamesSeq, ElementOfSeq
    <3>2. Sched(h) \in Seq(SchedBindings)
      BY ConfigSeqs
    <3>3. IsFiniteSet(ToSet(Sched(h)))
      BY <3>2, ElementsFinite
    <3> QED BY <1>2, <3>1, <3>3
  <2> QED BY <1>3, <2>1 DEF ToSet
<1>7. SchedBindings = UNION ToSet(s)
  <2>1. Hook = {HookNames[i] : i \in 1..n}
    BY <1>1 DEF Hook, ToSet
  <2>2. ToSet(s) = {ToSet(Sched(h)) : h \in Hook}
    <3>1. ToSet(s) = {s[i] : i \in 1..n}
      BY <1>3 DEF ToSet
    <3> QED BY <1>2, <2>1, <3>1
  <2> QED BY <2>2 DEF SchedBindings
<1> QED BY <1>5, <1>6, <1>7, FS_UNION

LEMMA TakeKubeEventType ==
    ASSUME TypeInv, TakeKubeEvent
    PROVE  EventInv'
<1>0. EventInv /\ kubeCh # << >>
  BY DEF TypeInv, TakeKubeEvent
<1>1. PICK b \in KubeBindings, n \in Count : b = Head(kubeCh).binding /\ n = Head(kubeCh).n
  BY <1>0, KubeHead
<1>2. PICK t \in EventTasks : t = BindingRun(b, n, BindingConfig[b].queue)
  BY EventTaskGood DEF Bindings
<1>3. tailTasks' = IF b \in linked THEN <<t>> ELSE << >>
  BY <1>1, <1>2 DEF TakeKubeEvent
<1>4. tailTasks' \in Seq(EventTasks)
  <2>1. << >> \in Seq(EventTasks) /\ <<t>> \in Seq(EventTasks)
    BY SingleSeq
  <2> QED BY <1>3, <2>1
<1>5. kubeCh' = << >> /\ << >> \in Seq(Contexts) /\ Len(<< >>) = 0
  BY <1>0, KubeHead DEF TakeKubeEvent
<1>6. /\ linked' = linked /\ monitors' = monitors /\ entries' = entries
      /\ scheduleCh' = scheduleCh /\ emitted' = emitted
  BY DEF TakeKubeEvent, startup
<1> QED BY <1>0, <1>4, <1>5, <1>6 DEF EventInv

LEMMA TakeScheduleEventType ==
    ASSUME TypeInv, TakeScheduleEvent
    PROVE  EventInv'
<1>0. EventInv /\ scheduleCh # << >>
  BY DEF TypeInv, TakeScheduleEvent
<1>1. PICK n \in Count : n = Head(scheduleCh).n
  BY <1>0, ScheduleHead
<1>2. PICK hit : hit = {b \in SchedBindings \intersect linked :
                           BindingConfig[b].crontab = Head(scheduleCh).crontab}
  OBVIOUS
<1>3. PICK s \in SetToSeqs(hit) :
         tailTasks' = [i \in DOMAIN s |-> BindingRun(s[i], n, BindingConfig[s[i]].queue)]
  BY <1>1, <1>2 DEF TakeScheduleEvent
<1>4. PICK D : D = 1..Cardinality(hit) /\ s \in [D -> hit]
  BY DEF SetToSeqs
<1>5. tailTasks' \in [D -> EventTasks]
  <2>1. \A i \in D : s[i] \in Bindings
    BY <1>2, <1>4 DEF Bindings
  <2>2. \A i \in D : BindingRun(s[i], n, BindingConfig[s[i]].queue) \in EventTasks
    BY <2>1, EventTaskGood
  <2> QED BY <1>3, <1>4, <2>2
<1>6. tailTasks' \in Seq(EventTasks)
  <2>1. IsFiniteSet(hit)
    BY <1>2, SchedBindingsFinite, FS_Subset
  <2>2. PICK m \in Nat : m = Cardinality(hit)
    BY <2>1, FS_CardinalityType
  <2>3. tailTasks' \in [1..m -> EventTasks]
    BY <1>4, <1>5, <2>2
  <2> QED BY <2>3, IsASeq
<1>7. scheduleCh' = << >> /\ << >> \in Seq(Fires) /\ Len(<< >>) = 0
  BY <1>0, ScheduleHead DEF TakeScheduleEvent
<1>8. /\ linked' = linked /\ monitors' = monitors /\ entries' = entries
      /\ kubeCh' = kubeCh /\ emitted' = emitted
  BY DEF TakeScheduleEvent, startup
<1> QED BY <1>0, <1>6, <1>7, <1>8 DEF EventInv

LEMMA QueueTaskType ==
    ASSUME TypeInv, QueueTask
    PROVE  /\ QueuesOK(queues', work') /\ DOMAIN queues' = DOMAIN queues
           /\ tailTasks' \in Seq(EventTasks) /\ tailTasks' = Tail(tailTasks)
           /\ Head(tailTasks) \in EventTasks /\ Head(tailTasks).queue \in DOMAIN queues
           /\ Head(tailTasks) = tailTasks[1]
           /\ queues' = Upd(queues, Head(tailTasks).queue,
                            Append(queues[Head(tailTasks).queue], Head(tailTasks)))
<1>1. PICK u \in Seq(EventTasks) : u = tailTasks /\ u # << >>
  BY DEF TypeInv, EventInv, QueueTask
<1>2. PICK t : t = Head(u)
  OBVIOUS
<1>3. t \in EventTasks /\ Tail(u) \in Seq(EventTasks) /\ t = u[1]
  BY <1>1, <1>2, HeadTailProperties
<1>4. t.queue \in DOMAIN queues
  BY <1>1, <1>3 DEF TypeInv, StageInv, EventTasks
<1>5. PICK q \in DOMAIN queues : q = t.queue
  BY <1>4
<1>6. queues' = Upd(queues, q, Append(queues[q], t)) /\ work' = work
  BY <1>1, <1>2, <1>5 DEF QueueTask, Upd
<1>7. QueuesOK(queues, work)
  BY DEF TypeInv
<1>8. PICK s, w : s = queues[q] /\ w = Doing(work, q) /\ QueueOK(s, w)
  BY <1>7 DEF QueuesOK
<1>9. t \in GoodTasks /\ ~Startup(t)
  BY <1>3, QueueNames DEF EventTasks, Startup, AllQueues
<1>10. QueueOK(Append(s, t), w)
  BY <1>8, <1>9, QueueAppend
<1>11. PICK n : n = Append(s, t) /\ QueueOK(n, Doing(work, q))
  BY <1>8, <1>10
<1>12. QueuesOK(queues', work') /\ DOMAIN queues' = DOMAIN queues
  BY <1>6, <1>7, <1>8, <1>11, QueuesSet
<1> QED BY <1>1, <1>2, <1>3, <1>4, <1>5, <1>6, <1>12 DEF QueueTask

LEMMA StageSame ==
    ASSUME StageInv, stage' = stage, DOMAIN queues' = DOMAIN queues, DOMAIN work' = DOMAIN work,
           tailTasks' = tailTasks \/ stage \in {"handler", "up"}
    PROVE  StageInv'
<1> QED BY DEF StageInv

LEMMA WorkerType ==
    ASSUME TypeInv, NEW q \in DOMAIN work, TaskHandler(q)
    PROVE  TypeInv'
<1>0. StageInv /\ EventInv /\ HistoryInv
  BY DEF TypeInv
<1> USE DEF startup, events, results
<1>1. CASE Begin(q)
  <2>1. QueuesOK(queues', work') /\ DOMAIN work' = DOMAIN work
    BY <1>1, BeginType
  <2>2. UNCHANGED <<queues, startup, events, results>>
    BY <1>1 DEF Begin
  <2>3. StageInv'
    BY <1>0, <2>1, <2>2, StageSame
  <2> QED BY <1>0, <2>1, <2>2, <2>3 DEF TypeInv, EventInv, HistoryInv
<1>2. CASE CombineIterate(q)
  <2>1. QueuesOK(queues', work') /\ DOMAIN work' = DOMAIN work
    BY <1>2, CombineIterateType
  <2>2. UNCHANGED <<queues, startup, events, results>>
    BY <1>2 DEF CombineIterate
  <2>3. StageInv'
    BY <1>0, <2>1, <2>2, StageSame
  <2> QED BY <1>0, <2>1, <2>2, <2>3 DEF TypeInv, EventInv, HistoryInv
<1>3. CASE CombineFilter(q)
  <2>1. QueuesOK(queues', work') /\ DOMAIN queues' = DOMAIN queues /\ DOMAIN work' = DOMAIN work
    BY <1>3, CombineFilterType
  <2>2. UNCHANGED <<startup, events, done, dropped>>
    BY <1>3 DEF CombineFilter
  <2>3. StageInv'
    BY <1>0, <2>1, <2>2, StageSame
  <2>4. DOMAIN heir' \subseteq Contexts /\ \A c \in DOMAIN heir' : heir'[c] \in Contexts
    BY <1>3, CombineFilterHeirs
  <2>5. HistoryInv'
    BY <1>0, <2>2, <2>4 DEF HistoryInv
  <2> QED BY <1>0, <2>1, <2>2, <2>3, <2>5 DEF TypeInv, EventInv
<1>4. CASE HookSucceeds(q) \/ HookFails(q)
  <2>1. /\ QueuesOK(queues', work') /\ DOMAIN queues' = DOMAIN queues /\ DOMAIN work' = DOMAIN work
        /\ done' \subseteq Contexts /\ dropped' \subseteq Contexts
    BY <1>4, HookEndsType
  <2>2. UNCHANGED <<startup, events, heir>>
    BY <1>4 DEF HookSucceeds, HookFails
  <2>3. StageInv'
    BY <1>0, <2>1, <2>2, StageSame
  <2>5. HistoryInv'
    BY <1>0, <2>1, <2>2 DEF HistoryInv
  <2> QED BY <1>0, <2>1, <2>2, <2>3, <2>5 DEF TypeInv, EventInv
<1>5. ASSUME NEW b \in KubeBindings, AddMonitor(q, b) PROVE TypeInv'
  <2>1. QueuesOK(queues', work') /\ DOMAIN work' = DOMAIN work /\ linked' \subseteq Bindings
    BY <1>5, AddMonitorType
  <2>2. UNCHANGED <<stage, queues, monitors, entries, events, results>>
    BY <1>5 DEF AddMonitor
  <2>3. StageInv'
    BY <1>0, <2>1, <2>2, StageSame
  <2> QED BY <1>0, <2>1, <2>2, <2>3 DEF TypeInv, EventInv, HistoryInv
<1>6. CASE AddMonitorFails(q)
  <2>2. UNCHANGED <<queues, startup, events, results>> /\ Move(q, Idle)
    BY <1>6 DEF AddMonitorFails
  <2>1. QueuesOK(queues', work') /\ DOMAIN work' = DOMAIN work
    BY <2>2, IdleStep
  <2>3. StageInv'
    BY <1>0, <2>1, <2>2, StageSame
  <2> QED BY <1>0, <2>1, <2>2, <2>3 DEF TypeInv, EventInv, HistoryInv
<1>7. CASE StartMonitor(q)
  <2>1. UNCHANGED <<stage, linked, entries, queues, work, events, results>> /\ work[q].at = "monitors"
    BY <1>7 DEF StartMonitor
  <2>2. PICK h \in Hook : h = Head(queues[q]).hook
    BY <2>1, BusyHead, WorkerHead
  <2>3. ToSet(Kube(h)) \subseteq KubeBindings
    BY ConfigSeqs
  <2>4. monitors' \subseteq KubeBindings
    BY <1>0, <1>7, <2>2, <2>3 DEF StartMonitor, EventInv
  <2>5. StageInv'
    BY <1>0, <2>1 DEF StageInv
  <2>6. QueuesOK(queues', work')
    BY <2>1 DEF TypeInv
  <2> QED BY <1>0, <2>1, <2>4, <2>5, <2>6 DEF TypeInv, EventInv, HistoryInv
<1>8. CASE KubernetesEnabled(q)
  <2>1. QueuesOK(queues', work') /\ DOMAIN queues' = DOMAIN queues /\ DOMAIN work' = DOMAIN work
    BY <1>8, KubernetesEnabledType
  <2>2. UNCHANGED <<startup, events, results>>
    BY <1>8 DEF KubernetesEnabled
  <2>3. StageInv'
    BY <1>0, <2>1, <2>2, StageSame
  <2> QED BY <1>0, <2>1, <2>2, <2>3 DEF TypeInv, EventInv, HistoryInv
<1>9. CASE LinkSchedule(q)
  <2>1. QueuesOK(queues', work') /\ DOMAIN work' = DOMAIN work /\ linked' \subseteq Bindings
    BY <1>9, LinkScheduleType
  <2>2. UNCHANGED <<stage, queues, monitors, entries, events, results>>
    BY <1>9 DEF LinkSchedule
  <2>3. StageInv'
    BY <1>0, <2>1, <2>2, StageSame
  <2> QED BY <1>0, <2>1, <2>2, <2>3 DEF TypeInv, EventInv, HistoryInv
<1>10. CASE AddSchedule(q)
  <2>1. /\ QueuesOK(queues', work') /\ DOMAIN queues' = DOMAIN queues /\ DOMAIN work' = DOMAIN work
        /\ entries' \subseteq SchedBindings
    BY <1>10, AddScheduleType
  <2>2. UNCHANGED <<stage, linked, monitors, events, results>>
    BY <1>10 DEF AddSchedule
  <2>3. StageInv'
    BY <1>0, <2>1, <2>2, StageSame
  <2> QED BY <1>0, <2>1, <2>2, <2>3 DEF TypeInv, EventInv, HistoryInv
<1> QED BY <1>1, <1>2, <1>3, <1>4, <1>5, <1>6, <1>7, <1>8, <1>9, <1>10 DEF TaskHandler

LEMMA TypeStep == TypeInv /\ [Next]_vars => TypeInv'
<1> SUFFICES ASSUME TypeInv, [Next]_vars PROVE TypeInv'
  OBVIOUS
<1>0. StageInv /\ EventInv /\ HistoryInv /\ QueuesOK(queues, work)
  BY DEF TypeInv
<1> USE DEF startup, events, results
<1>1. CASE StartOperator
  <2>1. StageInv' /\ QueuesOK(queues', work')
    BY <1>1, StartType
  <2>2. UNCHANGED <<linked, monitors, entries, events, results>>
    BY <1>1 DEF StartOperator, PrepopulateMainQueue, StartMain, InitAndStartHookQueues,
                StartEventsHandler, StartScheduleManager
  <2> QED BY <1>0, <2>1, <2>2 DEF TypeInv, EventInv, HistoryInv
<1>2. CASE TakeKubeEvent \/ TakeScheduleEvent
  <2>1. EventInv'
    BY <1>2, TakeKubeEventType, TakeScheduleEventType
  <2>2. UNCHANGED <<queues, work, startup, owed, results>> /\ stage \in {"handler", "up"}
    BY <1>2 DEF TakeKubeEvent, TakeScheduleEvent, HandlerReady
  <2>3. StageInv'
    BY <1>0, <2>2 DEF StageInv
  <2>4. QueuesOK(queues', work')
    BY <1>0, <2>2
  <2> QED BY <1>0, <2>1, <2>2, <2>3, <2>4 DEF TypeInv, HistoryInv
<1>3. CASE QueueTask
  <2>1. QueuesOK(queues', work') /\ DOMAIN queues' = DOMAIN queues /\ tailTasks' \in Seq(EventTasks)
    BY <1>3, QueueTaskType
  <2>2. UNCHANGED <<work, startup, kubeCh, scheduleCh, emitted, owed, results>> /\ tailTasks # << >>
    BY <1>3 DEF QueueTask
  <2>3. StageInv'
    BY <1>0, <2>1, <2>2 DEF StageInv
  <2> QED BY <1>0, <2>1, <2>2, <2>3 DEF TypeInv, EventInv, HistoryInv
<1>4. ASSUME NEW b \in KubeBindings, MonitorEvent(b) PROVE TypeInv'
  <2>1. EventInv' /\ owed' \subseteq Contexts
    BY <1>4, MonitorEventType
  <2>2. UNCHANGED <<queues, work, startup, tailTasks, results>>
    BY <1>4 DEF MonitorEvent
  <2>3. StageInv'
    BY <1>0, <2>2 DEF StageInv
  <2>4. QueuesOK(queues', work')
    BY <1>0, <2>2
  <2> QED BY <1>0, <2>1, <2>2, <2>3, <2>4 DEF TypeInv, HistoryInv
<1>5. ASSUME NEW c \in Crontabs, CronFires(c) PROVE TypeInv'
  <2>1. EventInv' /\ owed' \subseteq Contexts
    BY <1>5, CronFiresType
  <2>2. UNCHANGED <<queues, work, startup, tailTasks, results>>
    BY <1>5 DEF CronFires
  <2>3. StageInv'
    BY <1>0, <2>2 DEF StageInv
  <2>4. QueuesOK(queues', work')
    BY <1>0, <2>2
  <2> QED BY <1>0, <2>1, <2>2, <2>3, <2>4 DEF TypeInv, HistoryInv
<1>6. ASSUME NEW q \in AllQueues \intersect DOMAIN work, TaskHandler(q) PROVE TypeInv'
  BY <1>6, WorkerType
<1>7. CASE UNCHANGED vars
  <2>1. StageInv' /\ EventInv' /\ HistoryInv'
    BY <1>0, <1>7 DEF vars, StageInv, EventInv, HistoryInv
  <2>2. queues' = queues /\ work' = work
    BY <1>7 DEF vars
  <2> QED BY <1>0, <2>1, <2>2 DEF TypeInv
<1> QED BY <1>1, <1>2, <1>3, <1>4, <1>5, <1>6, <1>7 DEF Next, EventsHandler

\* Tasks, contexts and queues are well formed, and the worker of a queue that is
\* at work has its task at the head of its queue: of TaskHandler, the start
\* sequence and the events handler, for any set of hooks.
THEOREM TypeCorrect == Spec => []TypeOK
<1>1. Spec => []TypeInv
  BY InitType, TypeStep, PTL DEF Spec
<1> QED BY <1>1, TypeCorrectness, PTL

-----------------------------------------------------------------------------
(***************************************************************************)
(* What becomes of a context on its way from a monitor, a crontab or the   *)
(* start to a hook, for any set of hooks and bindings: none is lost, none  *)
(* is given to a hook twice, and they come in their order.                 *)
(***************************************************************************)

-----------------------------------------------------------------------------
(* The inductive invariants.                                               *)

\* The queue a context has been put into.
Routed(c, q) ==
    \/ /\ c.n = 0 /\ q = "main"
       /\ c.binding \in KubeBindings /\ c.binding \in SyncBindings(HookOf(c.binding))
    \/ /\ c.n # 0 /\ c.binding \in Bindings /\ q = BindingConfig[c.binding].queue

Belongs(t, q) ==
    \/ /\ t.kind = "HookRun" /\ t.queue = q
       /\ \A c \in ToSet(t.ctxs) : Routed(c, q)
    \/ q = "main" /\ t.kind = "HookRun" /\ t.queue = ""
    \/ q = "main" /\ t.kind # "HookRun"

\* The task HandleKubeEvent or HandleScheduleEvent makes of an event.
EventRun(t) ==
    \E b \in Bindings, n \in Count : n # 0 /\ t = BindingRun(b, n, BindingConfig[b].queue)

PlaceInv ==
    /\ \A q \in DOMAIN queues : \A i \in 1..Len(queues[q]) : Belongs(queues[q][i], q)
    /\ \A i \in 1..Len(tailTasks) : EventRun(tailTasks[i])

\* Who emits events has a link already.
Links(s, w, l) ==
    /\ w.at = "enable" => \A j \in 1..(w.i - 1) : Kube(s[1].hook)[j] \in l
    /\ w.at = "monitors" => ToSet(Kube(s[1].hook)) \subseteq l
    /\ w.at = "add" => Sched(s[1].hook)[w.i] \in l

LinkInv ==
    /\ monitors \subseteq linked /\ entries \subseteq linked
    /\ \A i \in 1..Len(kubeCh) : kubeCh[i].binding \in linked
    /\ \A c \in owed : c.binding \in linked
    /\ \A q \in DOMAIN work : Links(queues[q], work[q], linked)

\* The contexts of some task of s.
Held(s) == UNION {ToSet(s[i].ctxs) : i \in 1..Len(s)}

\* A context is on its way or was handled.
Near(c) ==
    \/ c \in ToSet(kubeCh)
    \/ Ticking(c) /\ c.binding \in linked
    \/ c \in Held(tailTasks)
    \/ \E q \in DOMAIN queues : c \in Held(queues[q])
    \/ c \in done \union dropped

SameKind(c, d) == Group(c) = Group(d) /\ HookOf(c.binding) = HookOf(d.binding)

LostInv ==
    /\ \A c \in Owed : Near(c) \/ c \in DOMAIN heir
    /\ \A c \in DOMAIN heir : SameKind(heir[c], c) /\ Near(heir[c])

\* c comes before d.
Prec(c, d) ==
    /\ c # d
    /\ c.binding = d.binding /\ c.binding \in KubeBindings /\ d.n # 0 => c.n < d.n

\* A context that has been made, and is in no channel.
Known(c) ==
    /\ c.binding \in Hook => c.n = 0 /\ stage # "prepopulate"
    /\ c.binding \notin Hook /\ c.n = 0 =>
          /\ c.binding \in KubeBindings
          /\ ~Pending("EnableKubernetesBindings", HookOf(c.binding))
    /\ c.n # 0 /\ c.binding \in KubeBindings => c.n <= emitted[c.binding] /\ c \notin ToSet(kubeCh)
    /\ c.n # 0 /\ c.binding \in SchedBindings =>
          c.n <= emitted[BindingConfig[c.binding].crontab] /\ ~Ticking(c)

\* The contexts of one task after the other.
InLine(s) ==
    /\ \A i \in 1..Len(s) : \A k, l \in 1..Len(s[i].ctxs) : k < l => Prec(s[i].ctxs[k], s[i].ctxs[l])
    /\ \A i, j \in 1..Len(s) : i < j =>
          \A c \in ToSet(s[i].ctxs), d \in ToSet(s[j].ctxs) : Prec(c, d)

\* No enabling task is there twice.
EnableOnce(s) == \A i, j \in 1..Len(s) : s[i].kind # "HookRun" /\ s[i] = s[j] => i = j

\* The number in a channel is the last one.
ChannelInv ==
    /\ \A i \in 1..Len(kubeCh) : kubeCh[i].n = emitted[kubeCh[i].binding]
    /\ \A i \in 1..Len(scheduleCh) : scheduleCh[i].n = emitted[scheduleCh[i].crontab]

\* A context that is made and not handled, and that no handled one has overtaken.
Open(c) == Known(c) /\ c \notin DOMAIN heir /\ \A d \in done \union dropped : Prec(d, c)

LineInv ==
    /\ ChannelInv
    /\ \A q \in DOMAIN queues : InLine(queues[q]) /\ EnableOnce(queues[q])
    /\ InLine(tailTasks)
    /\ \A q \in DOMAIN queues : \A c \in Held(queues[q]) :
          /\ Open(c)
          /\ \A d \in Held(tailTasks) : Prec(c, d)
          /\ \A p \in DOMAIN queues : p # q => c \notin Held(queues[p])
    /\ \A c \in Held(tailTasks) : Open(c)
    /\ \A c \in done \union dropped \union DOMAIN heir : Known(c)

\* The Synchronization of b, or the task that will queue it, comes before the
\* context at position l of task j.
SyncAt(s, b, j, l) ==
    \/ \E i \in 1..(j - 1) : \/ s[i] = EnableTask("EnableKubernetesBindings", HookOf(b))
                             \/ Context(b, 0) \in ToSet(s[i].ctxs)
    \/ \E k \in 1..(l - 1) : s[j].ctxs[k] = Context(b, 0)

SyncBefore(s, b) ==
    \A j \in 1..Len(s) : \A l \in 1..Len(s[j].ctxs) :
        s[j].ctxs[l].binding = b /\ s[j].ctxs[l].n # 0 => SyncAt(s, b, j, l)

\* The bindings whose Synchronization and events all go to the main queue, and
\* those of them whose Synchronization the hook has not got yet.
InMain(b) == b \in KubeBindings /\ b \in SyncBindings(HookOf(b)) /\ BindingConfig[b].queue = "main"
Unsynced(b) == Context(b, 0) \notin done \union dropped \union DOMAIN heir

\* While the hook has not got the Synchronization of b it has got no event of b,
\* and each of these in the main queue comes after it.
SyncInv ==
    \A b \in KubeBindings : InMain(b) /\ Unsynced(b) =>
        /\ \A c \in done \union dropped : c.binding = b => c.n = 0
        /\ "main" \in DOMAIN queues => SyncBefore(queues["main"], b)

\* Until all onStartup hooks have succeeded nothing but their tasks has run.
Started == \A i \in 1..Len(StartupOrder) : Context(StartupOrder[i], 0) \in done

StartingFrom(k) ==
    /\ done = {Context(StartupOrder[i], 0) : i \in 1..k} /\ dropped = {}
    /\ monitors = {} /\ entries = {}
    /\ kubeCh = << >> /\ scheduleCh = << >> /\ tailTasks = << >>
    /\ \A q \in DOMAIN queues : q # "main" => queues[q] = << >>
    /\ stage = "prepopulate" => k = 0
    /\ stage # "prepopulate" =>
          /\ Len(queues["main"]) = Len(FirstTasks) - k
          /\ \A i \in 1..(Len(FirstTasks) - k) : queues["main"][i] = FirstTasks[i + k]

StartInv == Started \/ \E k \in 0..(Len(StartupOrder) - 1) : StartingFrom(k)

-----------------------------------------------------------------------------
(* What a step does to the queues and to what comes into them.             *)

unmoved == <<stage, tailTasks, kubeCh, scheduleCh, emitted, owed>>

Prepopulated ==
    /\ stage = "prepopulate" /\ stage' = "main"
    /\ DOMAIN queues = {} /\ DOMAIN queues' = {"main"} /\ queues'["main"] = FirstTasks
    /\ work' = work /\ linked' = linked
    /\ UNCHANGED <<tailTasks, kubeCh, scheduleCh, emitted, owed, done, dropped, heir>>

QueueAdded(q) ==
    /\ stage # "prepopulate" /\ q \notin DOMAIN queues /\ "main" \in DOMAIN queues
    /\ DOMAIN queues' = DOMAIN queues \union {q}
    /\ queues'[q] = << >> /\ \A p \in DOMAIN queues : queues'[p] = queues[p]
    /\ linked' = linked
    /\ UNCHANGED <<unmoved, done, dropped, heir>>

Still ==
    /\ stage = "prepopulate" <=> stage' = "prepopulate"
    /\ linked \subseteq linked'
    /\ UNCHANGED <<queues, tailTasks, kubeCh, scheduleCh, emitted, owed, done, dropped, heir>>

\* The head of the queue is finished: its contexts were handled.
Leaves(q) ==
    /\ q \in DOMAIN work /\ queues[q] # << >>
    /\ queues[q][1].kind # "EnableKubernetesBindings"
    /\ queues' = Upd(queues, q, Tail(queues[q]))
    /\ done \subseteq done' /\ dropped \subseteq dropped'
    /\ done' \union dropped' = done \union dropped \union ToSet(queues[q][1].ctxs)
    /\ \/ dropped' = dropped
       \/ /\ queues[q][1].kind = "HookRun" /\ queues[q][1].allow
          /\ dropped' = dropped \union ToSet(queues[q][1].ctxs)
    /\ linked' = linked
    /\ UNCHANGED <<unmoved, heir>>

Enabled(q) ==
    /\ q \in DOMAIN work /\ queues[q] # << >>
    /\ queues[q][1].kind = "EnableKubernetesBindings"
    /\ queues' = Upd(queues, q, Reverse(SyncTasks(queues[q][1].hook)) \o Tail(queues[q]))
    /\ linked' = linked
    /\ UNCHANGED <<unmoved, done, dropped, heir>>

Joined(q) ==
    /\ q \in DOMAIN work /\ work[q].at = "filter"
    /\ queues' = Upd(queues, q, Combined(queues[q], work[q].others))
    /\ heir' = NewHeirs(queues[q][1].ctxs \o ContextsOf(work[q].others))
    /\ linked' = linked
    /\ UNCHANGED <<unmoved, done, dropped>>

\* The events handler queues its next task.
Arrives(t) ==
    /\ tailTasks # << >> /\ t = tailTasks[1] /\ t \in EventTasks
    /\ tailTasks' = Tail(tailTasks)
    /\ t.queue \in DOMAIN queues
    /\ queues' = Upd(queues, t.queue, Append(queues[t.queue], t))
    /\ linked' = linked
    /\ UNCHANGED <<stage, kubeCh, scheduleCh, emitted, owed, done, dropped, heir>>

LEMMA GoodEnable ==
    ASSUME NEW t \in GoodTasks, t.kind # "HookRun"
    PROVE  t.ctxs = << >> /\ t.queue = "" /\ t = EnableTask(t.kind, t.hook)
<1>1. PICK k, h : k = t.kind /\ h = t.hook
  OBVIOUS
<1>a. t.kind = "EnableKubernetesBindings" \/ t.kind = "EnableScheduleBindings"
  BY TaskFields DEF GoodTasks
<1>b. t = EnableTask("EnableKubernetesBindings", t.hook) \/ t = EnableTask("EnableScheduleBindings", t.hook)
  BY <1>a DEF GoodTasks
<1>c. PICK x \in {"EnableKubernetesBindings", "EnableScheduleBindings"} : t = EnableTask(x, h)
  BY <1>1, <1>b
<1>2. t = EnableTask(k, h)
  <2>1. EnableTask(x, h).kind = x
    BY DEF EnableTask
  <2> QED BY <1>1, <1>c, <2>1
<1>3. EnableTask(k, h).ctxs = << >> /\ EnableTask(k, h).queue = ""
  BY DEF EnableTask
<1> QED BY <1>1, <1>2, <1>3

LEMMA WorkerShapes ==
    ASSUME TypeInv, NEW q \in DOMAIN work, TaskHandler(q)
    PROVE  Still \/ Leaves(q) \/ Enabled(q) \/ Joined(q)
<1> USE DEF startup, events, results, unmoved
<1>1. CASE Begin(q) \/ CombineIterate(q) \/ AddMonitorFails(q)
  BY <1>1 DEF Begin, CombineIterate, AddMonitorFails, Still
<1>2. CASE CombineFilter(q)
  <2>1. queues' = Upd(queues, q, Combined(queues[q], work[q].others))
    BY <1>2, CombineFilterType
  <2>2. heir' = NewHeirs(queues[q][1].ctxs \o ContextsOf(work[q].others))
    BY <1>2, CombineFilterHeirs
  <2> QED BY <1>2, <2>1, <2>2 DEF CombineFilter, Joined
<1>3. CASE HookSucceeds(q) \/ HookFails(q)
  <2>1. work[q].at = "run" /\ UNCHANGED <<startup, events, heir>>
    BY <1>3 DEF HookSucceeds, HookFails
  <2>2. queues[q] # << >> /\ queues[q][1].kind = "HookRun" /\ Head(queues[q]) = queues[q][1]
    BY <2>1, BusyHead, WorkerHead DEF Fits
  <2>3. CASE Finish(q, << >>) /\ done' \union dropped' = done \union dropped \union ToSet(Head(queues[q]).ctxs)
             /\ done \subseteq done' /\ dropped \subseteq dropped'
             /\ (dropped' = dropped \/ (Head(queues[q]).allow /\ dropped' = dropped \union ToSet(Head(queues[q]).ctxs)))
    <3>1. queues' = Upd(queues, q, Tail(queues[q]))
      BY <2>2, <2>3, FinishEmpty
    <3> QED BY <2>1, <2>2, <2>3, <3>1 DEF Leaves
  <2>4. CASE UNCHANGED <<queues, done, dropped>>
    BY <2>1, <2>4 DEF Still
  <2>5. \/ Finish(q, << >>) /\ done' \union dropped' = done \union dropped \union ToSet(Head(queues[q]).ctxs)
           /\ done \subseteq done' /\ dropped \subseteq dropped'
           /\ (dropped' = dropped \/ (Head(queues[q]).allow /\ dropped' = dropped \union ToSet(Head(queues[q]).ctxs)))
        \/ UNCHANGED <<queues, done, dropped>>
    BY <1>3 DEF HookSucceeds, HookFails
  <2> QED BY <2>3, <2>4, <2>5
<1>4. ASSUME NEW b \in KubeBindings, AddMonitor(q, b) PROVE Still
  BY <1>4 DEF AddMonitor, Still
<1>5. CASE StartMonitor(q)
  BY <1>5 DEF StartMonitor, Still
<1>6. CASE KubernetesEnabled(q)
  <2>1. work[q].at = "monitors" /\ UNCHANGED <<startup, events, results>>
    BY <1>6 DEF KubernetesEnabled
  <2>2. queues[q] # << >> /\ queues[q][1].kind = "EnableKubernetesBindings"
    BY <2>1, BusyHead DEF Fits
  <2>3. queues' = Upd(queues, q, Reverse(SyncTasks(queues[q][1].hook)) \o Tail(queues[q]))
    BY <1>6, KubernetesEnabledType
  <2> QED BY <2>1, <2>2, <2>3 DEF Enabled
<1>7. CASE LinkSchedule(q)
  BY <1>7 DEF LinkSchedule, Still
<1>8. CASE AddSchedule(q)
  <2>1. work[q].at = "add" /\ UNCHANGED <<stage, linked, monitors, events, results>>
    BY <1>8 DEF AddSchedule
  <2>2. queues[q] # << >> /\ queues[q][1].kind = "EnableScheduleBindings"
    BY <2>1, BusyHead DEF Fits
  <2>3. CASE UNCHANGED queues
    BY <2>1, <2>3 DEF Still
  <2>4. CASE Finish(q, << >>)
    <3>1. queues' = Upd(queues, q, Tail(queues[q]))
      BY <2>2, <2>4, FinishEmpty
    <3>2. queues[q][1].ctxs = << >>
      <4>1. queues[q][1] \in GoodTasks
        BY <2>2, WorkerHead
      <4> QED BY <2>2, <4>1, GoodEnable
    <3>3. ToSet(<< >>) = {}
      BY EmptyFunction DEF ToSet
    <3> QED BY <2>1, <2>2, <3>1, <3>2, <3>3 DEF Leaves
  <2> QED BY <1>8, <2>3, <2>4 DEF AddSchedule
<1> QED BY <1>1, <1>2, <1>3, <1>4, <1>5, <1>6, <1>7, <1>8 DEF TaskHandler

LEMMA StartShapes ==
    ASSUME TypeInv, StartOperator
    PROVE  Prepopulated \/ Still \/ \E q \in NamedQueues : QueueAdded(q)
<1> USE DEF startup, events, results, unmoved
<1>0. StageInv
  BY DEF TypeInv
<1>1. CASE PrepopulateMainQueue
  <2>1. queues' = [q \in {"main"} |-> FirstTasks]
    BY <1>1 DEF PrepopulateMainQueue, FirstTasks, StartTasks, StartTask, EnablingTasks
  <2> QED BY <1>0, <1>1, <2>1 DEF PrepopulateMainQueue, Prepopulated, StageInv
<1>2. CASE StartMain \/ StartEventsHandler \/ StartScheduleManager
  BY <1>2 DEF StartMain, StartEventsHandler, StartScheduleManager, Still
<1>3. ASSUME NEW q \in NamedQueues, InitAndStartHookQueues(q) PROVE QueueAdded(q)
  <2>1. "main" \in DOMAIN queues
    BY <1>0, <1>3 DEF InitAndStartHookQueues, StageInv
  <2>2. DOMAIN queues' = DOMAIN queues \union {q}
    BY <1>3 DEF InitAndStartHookQueues
  <2>3. queues'[q] = << >> /\ \A p \in DOMAIN queues : queues'[p] = queues[p]
    BY <1>3 DEF InitAndStartHookQueues
  <2> QED BY <1>3, <2>1, <2>2, <2>3 DEF InitAndStartHookQueues, QueueAdded
<1> QED BY <1>1, <1>2, <1>3 DEF StartOperator

\* Every step is one of these.
LEMMA Shapes ==
    ASSUME TypeInv, [Next]_vars
    PROVE  \/ Prepopulated \/ Still \/ \E q \in NamedQueues : QueueAdded(q)
           \/ \E q \in DOMAIN work : Leaves(q) \/ Enabled(q) \/ Joined(q)
           \/ \E t \in EventTasks : Arrives(t)
           \/ TakeKubeEvent \/ TakeScheduleEvent
           \/ (\E b \in KubeBindings : MonitorEvent(b)) \/ (\E c \in Crontabs : CronFires(c))
<1> USE DEF startup, events, results, unmoved
<1>1. CASE QueueTask
  <2>1. PICK t \in EventTasks : t = Head(tailTasks)
    BY <1>1, QueueTaskType
  <2>2. /\ t = tailTasks[1] /\ t.queue \in DOMAIN queues /\ tailTasks' = Tail(tailTasks)
        /\ queues' = Upd(queues, t.queue, Append(queues[t.queue], t))
    BY <1>1, <2>1, QueueTaskType
  <2>3. Arrives(t)
    BY <1>1, <2>2 DEF QueueTask, Arrives
  <2> QED BY <2>3
<1>2. CASE UNCHANGED vars
  BY <1>2 DEF vars, Still
<1>3. CASE StartOperator
  BY <1>3, StartShapes
<1>4. ASSUME NEW q \in AllQueues \intersect DOMAIN work, TaskHandler(q)
      PROVE  Still \/ Leaves(q) \/ Enabled(q) \/ Joined(q)
  BY <1>4, WorkerShapes
<1> QED BY <1>1, <1>2, <1>3, <1>4 DEF Next, EventsHandler

-----------------------------------------------------------------------------
(* A queue after the step of its worker: k new tasks, then what is left of *)
(* the old ones.                                                           *)

Follows(u, k, s, r, lost) ==
    /\ k \in 0..Len(u)
    /\ r \in [(k + 1)..Len(u) -> 2..Len(s)]
    /\ \A i \in (k + 1)..Len(u) : u[i] = s[r[i]] /\ u[i] \notin lost
    /\ \A i, j \in (k + 1)..Len(u) : i < j => r[i] < r[j]
    /\ \A j \in 2..Len(s) : s[j] \notin lost => \E i \in (k + 1)..Len(u) : r[i] = j

LEMMA HeadsFollow ==
    ASSUME NEW s \in Seq(GoodTasks), s # << >>, NEW heads \in Seq(GoodTasks)
    PROVE  /\ heads \o Tail(s) \in Seq(GoodTasks)
           /\ \A i \in 1..Len(heads) : (heads \o Tail(s))[i] = heads[i]
           /\ \E r : Follows(heads \o Tail(s), Len(heads), s, r, {})
<1>1. PICK v \in Seq(GoodTasks) : v = Tail(s)
  BY HeadTailProperties
<1>2. Len(v) = Len(s) - 1 /\ \A i \in 1..Len(v) : v[i] = s[i + 1]
  BY <1>1, HeadTailProperties
<1>3. PICK u : u = heads \o v
  OBVIOUS
<1>4. /\ u \in Seq(GoodTasks) /\ Len(u) = Len(heads) + Len(v)
      /\ \A i \in 1..Len(u) : u[i] = IF i <= Len(heads) THEN heads[i] ELSE v[i - Len(heads)]
  BY <1>3, ConcatProperties
<1>5. PICK k \in Nat, n \in Nat : k = Len(heads) /\ n = Len(s) /\ n # 0
  BY EmptySeq
<1>6. Len(u) = k + n - 1 /\ Len(u) \in Nat /\ Len(v) = n - 1
  BY <1>2, <1>4, <1>5
<1>7. PICK r : r = [i \in (k + 1)..Len(u) |-> i - k + 1]
  OBVIOUS
<1>8. ASSUME NEW i \in (k + 1)..Len(u) PROVE r[i] = i - k + 1 /\ r[i] \in 2..n /\ u[i] = s[r[i]]
  <2>1. r[i] = i - k + 1 /\ i - k \in 1..(n - 1) /\ i \in 1..Len(u) /\ ~(i <= k)
    BY <1>6, <1>7
  <2>2. u[i] = v[i - k]
    BY <1>4, <1>5, <2>1
  <2>3. PICK m \in 1..(n - 1) : m = i - k
    BY <2>1
  <2>4. v[m] = s[m + 1] /\ m + 1 \in 2..n /\ r[i] = m + 1
    BY <1>2, <1>6, <2>1, <2>3, SMTT(40)
  <2> QED BY <2>1, <2>2, <2>3, <2>4
<1>9. \A j \in 2..n : j + k - 1 \in (k + 1)..Len(u) /\ r[j + k - 1] = j
  BY <1>6, <1>8
<1>10. \A i, j \in (k + 1)..Len(u) : i < j => r[i] < r[j]
  BY <1>6, <1>8
<1>11. r \in [(k + 1)..Len(u) -> 2..n]
  BY <1>7, <1>8
<1>12. Follows(u, k, s, r, {})
  <2>1. k \in 0..Len(u)
    BY <1>5, <1>6
  <2>2. \A i \in (k + 1)..Len(u) : u[i] = s[r[i]] /\ u[i] \notin {}
    BY <1>8
  <2>3. \A j \in 2..n : s[j] \notin {} => \E i \in (k + 1)..Len(u) : r[i] = j
    BY <1>9
  <2> QED BY <1>5, <1>10, <1>11, <2>1, <2>2, <2>3 DEF Follows
<1>13. \A i \in 1..k : u[i] = heads[i]
  BY <1>4, <1>5, <1>6, SMTT(40)
<1> QED BY <1>1, <1>3, <1>4, <1>5, <1>12, <1>13

LEMMA TailFollows ==
    ASSUME NEW s \in Seq(GoodTasks), s # << >>
    PROVE  Tail(s) \in Seq(GoodTasks) /\ \E r : Follows(Tail(s), 0, s, r, {})
<1>1. PICK v \in Seq(GoodTasks) : v = Tail(s)
  BY HeadTailProperties
<1>2. PICK e \in Seq(GoodTasks) : e = << >> /\ Len(e) = 0
  BY EmptySeq
<1>3. e \o v = v
  BY <1>2, ConcatEmptySeq
<1>4. \E r : Follows(e \o v, Len(e), s, r, {})
  BY <1>1, HeadsFollow
<1> QED BY <1>1, <1>2, <1>3, <1>4

LEMMA CombinedFollows ==
    ASSUME NEW s, NEW w, QueueOK(s, w), w.at = "filter"
    PROVE  /\ Combined(s, w.others)[1] = WithContexts(s[1], Compact(s[1].ctxs \o ContextsOf(w.others)))
           /\ \E r : Follows(Combined(s, w.others), 1, s, r, ToSet(w.others))
<1>1. s \in Seq(GoodTasks) /\ s # << >> /\ w.others \in Seq(GoodTasks) /\ s[1] \in GoodTasks
  BY QueueTail DEF QueueOK, Works
<1>2. PICK o \in Seq(GoodTasks) : o = w.others
  BY <1>1
<1>3. PICK v \in Seq(GoodTasks) : v = Tail(s)
  BY <1>1, QueueTail
<1>4. Len(v) = Len(s) - 1 /\ \A i \in 1..Len(v) : v[i] = s[i + 1]
  BY <1>1, <1>3, QueueTail
<1>5. PICK I : I = {i \in DOMAIN v : v[i] \notin ToSet(o)}
  OBVIOUS
<1>6. PICK f \in Seq(GoodTasks) : f = Keep(v, I) /\ \E row : Picks(v, I, f, row)
  BY KeepPicks
<1>7. PICK row : Picks(v, I, f, row)
  BY <1>6
<1>8. f = Without(v, o)
  BY <1>5, <1>6 DEF Without
<1>9. PICK t : t = WithContexts(s[1], Compact(s[1].ctxs \o ContextsOf(o)))
  OBVIOUS
<1>10. PICK u : u = Cons(t, f)
  OBVIOUS
<1>11. u = Combined(s, o)
  BY <1>3, <1>8, <1>9, <1>10 DEF Combined, Cons, WithContexts
<1>12. PICK A : A = GoodTasks \union {t}
  OBVIOUS
<1>13. f \in Seq(A) /\ t \in A
  <2>1. GoodTasks \subseteq A /\ t \in A
    BY <1>12
  <2>2. \A i \in 1..Len(f) : f[i] \in A
    BY <2>1, ElementOfSeq
  <2> QED BY <2>1, <2>2
<1>14. /\ Len(u) = Len(f) + 1 /\ u[1] = t /\ Len(u) \in Nat
       /\ \A i \in 2..Len(u) : u[i] = f[i - 1] /\ i - 1 \in 1..Len(f)
  <2>1. Len(u) = Len(f) + 1 /\ u[1] = t /\ Len(f) \in Nat
    BY <1>10, <1>13, ConsProperties, SMTT(40)
  <2>2. ASSUME NEW i \in 2..(Len(f) + 1) PROVE u[i] = f[i - 1]
    BY <1>10, <1>13, ConsElements
  <2>3. \A i \in 2..(Len(f) + 1) : i - 1 \in 1..Len(f)
    BY <2>1
  <2> QED BY <2>1, <2>2, <2>3
<1>15. PICK r : r = [i \in 2..Len(u) |-> row[i - 1] + 1]
  OBVIOUS
<1>n. Len(s) \in Nat /\ Len(v) \in Nat /\ Len(v) = Len(s) - 1 /\ DOMAIN v = 1..Len(v)
  BY <1>1, <1>4
<1>16. ASSUME NEW i \in 2..Len(u)
       PROVE  /\ r[i] = row[i - 1] + 1 /\ r[i] \in 2..Len(s) /\ u[i] = s[r[i]] /\ u[i] \notin ToSet(o)
              /\ row[i - 1] \in Nat
  <2>1. u[i] = f[i - 1] /\ i - 1 \in 1..Len(f) /\ r[i] = row[i - 1] + 1
    BY <1>14, <1>15
  <2>2. row[i - 1] \in 1..Len(v) /\ row[i - 1] \in I /\ f[i - 1] = v[row[i - 1]]
    BY <1>7, <2>1 DEF Picks
  <2>3. v[row[i - 1]] = s[row[i - 1] + 1] /\ v[row[i - 1]] \notin ToSet(o)
    BY <1>4, <1>5, <2>2
  <2>4. row[i - 1] + 1 \in 2..Len(s)
    BY <1>n, <2>2, SMTT(40)
  <2> QED BY <2>1, <2>2, <2>3, <2>4
<1>17. ASSUME NEW i \in 2..Len(u), NEW j \in 2..Len(u), i < j PROVE r[i] < r[j]
  <2>1. i - 1 \in 1..Len(f) /\ j - 1 \in 1..Len(f) /\ i - 1 < j - 1
    BY <1>14, <1>17
  <2>2. row[i - 1] < row[j - 1]
    BY <1>7, <2>1 DEF Picks
  <2>3. /\ r[i] = row[i - 1] + 1 /\ row[i - 1] \in Nat
        /\ r[j] = row[j - 1] + 1 /\ row[j - 1] \in Nat
    BY <1>16
  <2> QED BY <2>2, <2>3
<1>18. ASSUME NEW j \in 2..Len(s), s[j] \notin ToSet(o) PROVE \E i \in 2..Len(u) : r[i] = j
  <2>1. j - 1 \in 1..Len(v) /\ v[j - 1] = s[j]
    <3>1. j - 1 \in 1..Len(v) /\ (j - 1) + 1 = j
      BY <1>n
    <3> QED BY <1>4, <3>1
  <2>2. j - 1 \in I
    BY <1>5, <1>18, <1>n, <2>1
  <2>3. PICK k \in 1..Len(f) : row[k] = j - 1
    BY <1>7, <2>1, <2>2 DEF Picks
  <2>4. k + 1 \in 2..Len(u) /\ (k + 1) - 1 = k
    BY <1>14
  <2>5. r[k + 1] = row[k] + 1
    BY <1>16, <2>4
  <2> QED BY <2>3, <2>4, <2>5
<1>19. r \in [2..Len(u) -> 2..Len(s)]
  BY <1>15, <1>16
<1>20. 1 \in 0..Len(u)
  BY <1>14
<1>21. Follows(u, 1, s, r, ToSet(o))
  BY <1>16, <1>17, <1>18, <1>19, <1>20 DEF Follows
<1> QED BY <1>2, <1>9, <1>11, <1>14, <1>21

-----------------------------------------------------------------------------
(* Where the contexts of the first n tasks are, one after the other.       *)

Gathers(s, n, z, row, col) ==
    /\ \A k \in 1..Len(z) : /\ row[k] \in 1..n /\ col[k] \in 1..Len(s[row[k]].ctxs)
                            /\ z[k] = s[row[k]].ctxs[col[k]]
    /\ \A k, l \in 1..Len(z) : k < l => row[k] < row[l] \/ (row[k] = row[l] /\ col[k] < col[l])
    /\ \A i \in 1..n : \A j \in 1..Len(s[i].ctxs) : \E k \in 1..Len(z) : row[k] = i /\ col[k] = j

LEMMA LineGathers ==
    ASSUME NEW s \in Seq(GoodTasks)
    PROVE  \E row, col : Gathers(s, Len(s), ContextsOf(s), row, col)
<1>1. PICK u \in Seq(Seq(Contexts)) : u = Line(s)
  BY LineType
<1>2. /\ Len(u) = Len(s) /\ ContextsOf(s) = FlattenSeq(u)
      /\ \A i \in 1..Len(s) : u[i] = s[i].ctxs
  BY <1>1, LineType
<1>3. PICK row, col : Places(u, FlattenSeq(u), row, col)
  BY FlattenPlaces
<1>4. PICK z : z = FlattenSeq(u) /\ z = ContextsOf(s)
  BY <1>2
<1>5. ASSUME NEW k \in 1..Len(z)
      PROVE  /\ row[k] \in 1..Len(s) /\ col[k] \in 1..Len(s[row[k]].ctxs)
             /\ z[k] = s[row[k]].ctxs[col[k]]
  <2>1. row[k] \in 1..Len(u) /\ col[k] \in 1..Len(u[row[k]]) /\ z[k] = u[row[k]][col[k]]
    BY <1>3, <1>4 DEF Places
  <2>2. u[row[k]] = s[row[k]].ctxs
    BY <1>2, <2>1
  <2> QED BY <1>2, <2>1, <2>2
<1>6. \A k, l \in 1..Len(z) : k < l => row[k] < row[l] \/ (row[k] = row[l] /\ col[k] < col[l])
  BY <1>3, <1>4 DEF Places
<1>7. ASSUME NEW i \in 1..Len(s), NEW j \in 1..Len(s[i].ctxs)
      PROVE  \E k \in 1..Len(z) : row[k] = i /\ col[k] = j
  <2>1. i \in 1..Len(u) /\ u[i] = s[i].ctxs
    BY <1>2
  <2>2. j \in 1..Len(u[i])
    BY <2>1
  <2> QED BY <1>3, <1>4, <2>1, <2>2 DEF Places
<1>8. Gathers(s, Len(s), z, row, col)
  BY <1>5, <1>6, <1>7 DEF Gathers
<1> QED BY <1>4, <1>8

LEMMA JoinGathers ==
    ASSUME NEW s, NEW w, QueueOK(s, w), w.at = "filter",
           NEW z, z = s[1].ctxs \o ContextsOf(w.others)
    PROVE  \E row, col : Gathers(s, Len(w.others) + 1, z, row, col)
<1>1. s \in Seq(GoodTasks) /\ s # << >> /\ w.others \in Seq(GoodTasks) /\ s[1] \in GoodTasks
      /\ Collected(s, w.others)
  BY QueueTail DEF QueueOK, Works
<1>2. PICK o \in Seq(GoodTasks) : o = w.others
  BY <1>1
<1>3. PICK m \in Nat : m = Len(o)
  OBVIOUS
<1>4. \A i \in 1..m : o[i] = s[i + 1]
  BY <1>1, <1>2, <1>3 DEF Collected
<1>5. PICK x \in Seq(Contexts) : x = s[1].ctxs
  BY <1>1, TaskFields DEF GoodTasks
<1>6. PICK y \in Seq(Contexts) : y = ContextsOf(o)
  BY ContextsOfType
<1>7. PICK g, h : Gathers(o, m, y, g, h)
  BY <1>3, <1>6, LineGathers
<1>8. PICK a \in Nat, b \in Nat : a = Len(x) /\ b = Len(y)
  OBVIOUS
<1>9. z = x \o y
  BY <1>2, <1>5, <1>6
<1>10. Len(z) = a + b /\ \A k \in 1..(a + b) : z[k] = IF k <= a THEN x[k] ELSE y[k - a]
  BY <1>8, <1>9, ConcatProperties
<1>11. PICK row : row = [k \in 1..(a + b) |-> IF k <= a THEN 1 ELSE g[k - a] + 1]
  OBVIOUS
<1>12. PICK col : col = [k \in 1..(a + b) |-> IF k <= a THEN k ELSE h[k - a]]
  OBVIOUS
<1>13. ASSUME NEW k \in 1..a
       PROVE  row[k] = 1 /\ col[k] = k /\ z[k] = s[1].ctxs[k] /\ k \in 1..Len(s[1].ctxs)
  <2>1. k \in 1..(a + b) /\ k <= a
    OBVIOUS
  <2> QED BY <1>5, <1>8, <1>10, <1>11, <1>12, <2>1
<1>14. ASSUME NEW l \in 1..b
       PROVE  /\ a + l \in 1..(a + b) /\ row[a + l] = g[l] + 1 /\ col[a + l] = h[l]
              /\ g[l] \in 1..m /\ h[l] \in 1..Len(s[g[l] + 1].ctxs) /\ z[a + l] = s[g[l] + 1].ctxs[h[l]]
  <2>1. a + l \in 1..(a + b) /\ ~(a + l <= a) /\ (a + l) - a = l
    OBVIOUS
  <2>2. row[a + l] = g[l] + 1 /\ col[a + l] = h[l] /\ z[a + l] = y[l]
    BY <1>10, <1>11, <1>12, <2>1
  <2>3. g[l] \in 1..m /\ h[l] \in 1..Len(o[g[l]].ctxs) /\ y[l] = o[g[l]].ctxs[h[l]]
    BY <1>7, <1>8 DEF Gathers
  <2>4. o[g[l]] = s[g[l] + 1]
    BY <1>4, <2>3
  <2> QED BY <2>1, <2>2, <2>3, <2>4
<1>15. \A k \in 1..(a + b) : k \in 1..a \/ \E l \in 1..b : k = a + l
  <2> TAKE k \in 1..(a + b)
  <2>1. CASE k <= a
    BY <2>1
  <2>2. CASE ~(k <= a)
    <3>1. k - a \in 1..b /\ k = a + (k - a)
      BY <2>2
    <3> QED BY <3>1
  <2> QED BY <2>1, <2>2
<1>16. ASSUME NEW k \in 1..(a + b)
       PROVE  /\ row[k] \in 1..(m + 1) /\ col[k] \in 1..Len(s[row[k]].ctxs)
              /\ z[k] = s[row[k]].ctxs[col[k]]
  <2>1. CASE k \in 1..a
    <3>1. row[k] = 1 /\ col[k] = k /\ z[k] = s[1].ctxs[k] /\ k \in 1..Len(s[1].ctxs)
      BY <1>13, <2>1
    <3>2. 1 \in 1..(m + 1)
      OBVIOUS
    <3> QED BY <3>1, <3>2
  <2>2. ASSUME NEW l \in 1..b, k = a + l
        PROVE  /\ row[k] \in 1..(m + 1) /\ col[k] \in 1..Len(s[row[k]].ctxs)
               /\ z[k] = s[row[k]].ctxs[col[k]]
    <3>0. PICK e \in 1..m : e = g[l]
      BY <1>14
    <3>1. g[l] + 1 \in 1..(m + 1)
      BY <3>0
    <3> QED BY <1>14, <2>2, <3>1
  <2> QED BY <1>15, <2>1, <2>2
<1>17. ASSUME NEW k \in 1..(a + b), NEW l \in 1..(a + b), k < l
       PROVE  row[k] < row[l] \/ (row[k] = row[l] /\ col[k] < col[l])
  <2>1. CASE k \in 1..a /\ l \in 1..a
    BY <1>13, <1>17, <2>1
  <2>2. ASSUME k \in 1..a, NEW j \in 1..b, l = a + j
        PROVE  row[k] < row[l]
    <3>1. PICK e \in 1..m : e = g[j] /\ row[l] = e + 1
      BY <1>14, <2>2
    <3>2. row[k] = 1
      BY <1>13, <2>2
    <3> QED BY <3>1, <3>2
  <2>3. ASSUME NEW i \in 1..b, k = a + i, l \in 1..a PROVE FALSE
    BY <1>17, <2>3
  <2>4. ASSUME NEW i \in 1..b, k = a + i, NEW j \in 1..b, l = a + j
        PROVE  row[k] < row[l] \/ (row[k] = row[l] /\ col[k] < col[l])
    <3>1. i < j
      BY <1>17, <2>4
    <3>2. g[i] < g[j] \/ (g[i] = g[j] /\ h[i] < h[j])
      BY <1>7, <1>8, <3>1 DEF Gathers
    <3>3. g[i] \in 1..m /\ g[j] \in 1..m
      BY <1>14
    <3>4. row[k] = g[i] + 1 /\ row[l] = g[j] + 1 /\ col[k] = h[i] /\ col[l] = h[j]
      BY <1>14, <2>4
    <3> QED BY <3>2, <3>3, <3>4
  <2> QED BY <1>15, <2>1, <2>2, <2>3, <2>4
<1>18. ASSUME NEW i \in 1..(m + 1), NEW j \in 1..Len(s[i].ctxs)
       PROVE  \E k \in 1..(a + b) : row[k] = i /\ col[k] = j
  <2>1. CASE i = 1
    <3>1. j \in 1..a /\ j \in 1..(a + b)
      BY <1>5, <1>8, <2>1
    <3> QED BY <1>13, <2>1, <3>1
  <2>2. CASE i # 1
    <3>1. PICK i0 \in 1..m : i = i0 + 1
      <4>1. i - 1 \in 1..m /\ i = (i - 1) + 1
        BY <2>2
      <4> QED BY <4>1
    <3>2. o[i0] = s[i]
      BY <1>4, <3>1
    <3>3. PICK l \in 1..b : g[l] = i0 /\ h[l] = j
      BY <1>7, <1>8, <3>2 DEF Gathers
    <3> QED BY <1>14, <3>1, <3>3
  <2> QED BY <2>1, <2>2
<1>e. Len(z) = a + b
  BY <1>10
<1>f. \A k \in 1..Len(z) : /\ row[k] \in 1..(m + 1) /\ col[k] \in 1..Len(s[row[k]].ctxs)
                           /\ z[k] = s[row[k]].ctxs[col[k]]
  BY <1>e, <1>16
<1>g. \A k, l \in 1..Len(z) : k < l => row[k] < row[l] \/ (row[k] = row[l] /\ col[k] < col[l])
  BY <1>e, <1>17
<1>h. \A i \in 1..(m + 1) : \A j \in 1..Len(s[i].ctxs) : \E k \in 1..Len(z) : row[k] = i /\ col[k] = j
  BY <1>e, <1>18
<1>19. Gathers(s, m + 1, z, row, col)
  BY <1>f, <1>g, <1>h DEF Gathers
<1> QED BY <1>2, <1>3, <1>19

-----------------------------------------------------------------------------
(* The tasks a step makes.                                                 *)

LEMMA EventRunFields ==
    ASSUME NEW t, EventRun(t)
    PROVE  \E b \in Bindings, n \in Count :
              /\ n # 0 /\ t = BindingRun(b, n, BindingConfig[b].queue)
              /\ t \in GoodTasks /\ t.kind = "HookRun" /\ t.hook = HookOf(b)
              /\ t.queue = BindingConfig[b].queue /\ t.queue \in NamedQueues /\ t.queue # ""
              /\ t.ctxs = <<Context(b, n)>> /\ ToSet(t.ctxs) = {Context(b, n)}
              /\ Context(b, n).binding = b /\ Context(b, n).n = n
              /\ t.allow = BindingConfig[b].allowFailure
<1>1. PICK b \in Bindings, n \in Count : n # 0 /\ t = BindingRun(b, n, BindingConfig[b].queue)
  BY DEF EventRun
<1>2. PICK q \in AllQueues : q = BindingConfig[b].queue /\ q \in NamedQueues /\ q # ""
  BY QueueNames DEF AllQueues, NamedQueues
<1>3. PICK c \in Contexts : c = Context(b, n) /\ c.binding = b /\ c.n = n
  BY ContextType
<1>4. /\ BindingRun(b, n, q) \in GoodTasks /\ BindingRun(b, n, q).kind = "HookRun"
      /\ BindingRun(b, n, q).queue = q /\ BindingRun(b, n, q).hook = HookOf(b)
  BY BindingRunGood
<1>5. BindingRun(b, n, q).ctxs = <<Context(b, n)>> /\ BindingRun(b, n, q).allow = BindingConfig[b].allowFailure
  BY BindingRunGood
<1>6. ToSet(<<c>>) = {c}
  BY OneContext
<1> QED BY <1>1, <1>2, <1>3, <1>4, <1>5, <1>6

\* The tasks of one fire of crontab c: one for each of the bindings s.
FiredTasks(u, s, c, n) ==
    /\ s \in Seq(SchedBindings) /\ u \in Seq(EventTasks) /\ Len(u) = Len(s)
    /\ \A i \in 1..Len(s) : /\ u[i] = BindingRun(s[i], n, BindingConfig[s[i]].queue)
                            /\ s[i] \in linked /\ BindingConfig[s[i]].crontab = c
    /\ \A i, j \in 1..Len(s) : i # j => s[i] # s[j]
    /\ \A b \in SchedBindings \intersect linked :
          BindingConfig[b].crontab = c => \E i \in 1..Len(s) : s[i] = b

LEMMA Fired ==
    ASSUME TypeInv, TakeScheduleEvent
    PROVE  \E s : \E c \in Crontabs, n \in Count :
              /\ n # 0 /\ Len(scheduleCh) = 1 /\ scheduleCh[1].crontab = c /\ scheduleCh[1].n = n
              /\ scheduleCh' = << >> /\ FiredTasks(tailTasks', s, c, n)
<1>0. EventInv /\ EventInv' /\ scheduleCh # << >>
  BY TakeScheduleEventType DEF TypeInv, TakeScheduleEvent
<1>1. PICK c \in Crontabs, n \in Count :
         /\ n # 0 /\ Len(scheduleCh) = 1 /\ scheduleCh[1].crontab = c /\ scheduleCh[1].n = n
         /\ Head(scheduleCh) = scheduleCh[1] /\ Tail(scheduleCh) = << >>
  BY <1>0, ScheduleHead
<1>2. PICK hit : hit = {b \in SchedBindings \intersect linked : BindingConfig[b].crontab = c}
  OBVIOUS
<1>3. PICK s \in SetToSeqs(hit) :
         tailTasks' = [i \in DOMAIN s |-> BindingRun(s[i], n, BindingConfig[s[i]].queue)]
  <2>1. hit = {b \in SchedBindings \intersect linked :
                  BindingConfig[b].crontab = Head(scheduleCh).crontab}
    BY <1>1, <1>2
  <2>2. n = Head(scheduleCh).n
    BY <1>1
  <2> QED BY <2>1, <2>2 DEF TakeScheduleEvent
<1>4. IsFiniteSet(hit)
  BY <1>2, SchedBindingsFinite, FS_Subset
<1>5. PICK m \in Nat : m = Cardinality(hit)
  BY <1>4, FS_CardinalityType
<1>6. s \in [1..m -> hit] /\ \A i, j \in 1..m : i # j => s[i] # s[j]
  BY <1>5 DEF SetToSeqs
<1>7. s \in Seq(hit) /\ Len(s) = m
  BY <1>6, IsASeq, LenProperties
<1>8. s \in Seq(SchedBindings)
  <2>1. s \in [1..m -> SchedBindings]
    BY <1>2, <1>6
  <2> QED BY <2>1, IsASeq
<1>9. \A i \in 1..m : /\ tailTasks'[i] = BindingRun(s[i], n, BindingConfig[s[i]].queue)
                      /\ s[i] \in linked /\ BindingConfig[s[i]].crontab = c
  BY <1>2, <1>3, <1>6
<1>10. tailTasks' \in Seq(EventTasks) /\ Len(tailTasks') = m
  <2>1. PICK u \in Seq(EventTasks) : u = tailTasks'
    BY <1>0 DEF EventInv
  <2>2. DOMAIN u = 1..m
    BY <1>3, <1>6, <2>1
  <2> QED BY <2>1, <2>2, LenProperties
<1>11. \A b \in hit : \E i \in 1..m : s[i] = b
  <2>1. s \in Injection(1..m, hit)
    BY <1>6 DEF Injection, IsInjective
  <2>2. IsFiniteSet(1..m) /\ Cardinality(1..m) = m
    BY FS_Interval
  <2>3. s \in Surjection(1..m, hit)
    BY <1>4, <1>5, <2>1, <2>2, FS_Injection
  <2> QED BY <2>3 DEF Surjection
<1>12. FiredTasks(tailTasks', s, c, n)
  BY <1>2, <1>6, <1>7, <1>8, <1>9, <1>10, <1>11 DEF FiredTasks
<1> QED BY <1>1, <1>12 DEF TakeScheduleEvent

\* The Synchronization tasks of a hook: one for each of the bindings bs.
SyncRuns(u, bs, h) ==
    /\ u \in Seq(GoodTasks) /\ bs \in Seq(KubeBindings) /\ Len(u) = Len(bs)
    /\ \A i \in 1..Len(bs) : /\ u[i] = BindingRun(bs[i], 0, "main") /\ bs[i] \in SyncBindings(h)
                             /\ bs[i] \in ToSet(Kube(h))
    /\ \A i, j \in 1..Len(bs) : i # j => bs[i] # bs[j]
    /\ \A b \in SyncBindings(h) : \E i \in 1..Len(bs) : bs[i] = b

LEMMA HookKubeInjective ==
    ASSUME NEW h \in Hook
    PROVE  \A i, j \in 1..Len(Kube(h)) : i # j => Kube(h)[i] # Kube(h)[j]
<1>1. Kube(h) \in Seq(KubeBindings)
  BY ConfigSeqs
<1>2. IsInjective(Kube(h))
  BY ShellOperatorAssumption DEF ShellOperatorAssumption
<1>3. DOMAIN Kube(h) = 1..Len(Kube(h))
  BY <1>1, LenProperties
<1> QED BY <1>2, <1>3 DEF IsInjective

LEMMA SyncTasksAre ==
    ASSUME NEW h \in Hook
    PROVE  \E bs : SyncRuns(Reverse(SyncTasks(h)), bs, h)
<1>1. PICK x \in Seq(KubeBindings) : x = SyncBs(h)
  BY SyncTasksType
<1>2. PICK t \in Seq(GoodTasks) : t = SyncTasks(h)
  BY SyncTasksType
<1>3. PICK n \in Nat : n = Len(x) /\ n = Len(t)
  BY <1>1, <1>2, SyncTasksType
<1>4. \A i \in 1..n : t[i] = BindingRun(x[i], 0, "main")
  BY <1>1, <1>2, <1>3, SyncTasksType
<1>5. ToSet(x) = SyncBindings(h)
  BY <1>1, SyncTasksType
<1>6. \A i, j \in 1..n : i # j => x[i] # x[j]
  <2>1. PICK k \in Seq(KubeBindings) : k = Kube(h)
    BY ConfigSeqs
  <2>2. PICK I : I = {i \in DOMAIN k : HookConfig[h].version = "v1" /\ BindingConfig[k[i]].sync}
    OBVIOUS
  <2>3. x = Keep(k, I)
    BY <1>1, <2>1, <2>2 DEF SyncBs
  <2>4. PICK row : Picks(k, I, x, row)
    BY <2>3, KeepPicks
  <2>5. \A i, j \in 1..Len(k) : i # j => k[i] # k[j]
    BY <2>1, HookKubeInjective
  <2>6. ASSUME NEW i \in 1..n, NEW j \in 1..n, i < j PROVE x[i] # x[j]
    <3>1. row[i] \in 1..Len(k) /\ row[j] \in 1..Len(k) /\ row[i] < row[j]
          /\ x[i] = k[row[i]] /\ x[j] = k[row[j]]
      BY <1>3, <2>4, <2>6 DEF Picks
    <3>2. row[i] # row[j]
      BY <3>1
    <3> QED BY <2>5, <3>1, <3>2
  <2> QED BY <2>6
<1>7. PICK u \in Seq(GoodTasks) : u = Reverse(t)
  BY ReverseSeq
<1>8. PICK bs \in Seq(KubeBindings) : bs = Reverse(x)
  BY ReverseSeq
<1>9. Len(u) = n /\ Len(bs) = n
  BY <1>3, <1>7, <1>8, ReverseSeq
<1>10. \A i \in 1..n : u[i] = t[(n - i) + 1] /\ (n - i) + 1 \in 1..n
  BY <1>3, <1>7, ReverseSeq
<1>11. \A i \in 1..n : bs[i] = x[(n - i) + 1]
  <2>1. \A i \in 1..Len(x) : Reverse(x)[i] = x[(Len(x) - i) + 1]
    BY ReverseSeq
  <2> QED BY <1>3, <1>8, <2>1
<1>d. ToSet(x) = {x[i] : i \in 1..n}
  <2>1. DOMAIN x = 1..n
    BY <1>3, LenProperties
  <2> QED BY <2>1 DEF ToSet
<1>12. ASSUME NEW i \in 1..n
       PROVE  u[i] = BindingRun(bs[i], 0, "main") /\ bs[i] \in SyncBindings(h)
  <2>1. PICK j \in 1..n : u[i] = t[j] /\ bs[i] = x[j]
    BY <1>10, <1>11
  <2>2. x[j] \in ToSet(x)
    BY <1>d
  <2> QED BY <1>4, <1>5, <2>1, <2>2
<1>13. ASSUME NEW i \in 1..n, NEW j \in 1..n, i # j PROVE bs[i] # bs[j]
  <2>1. (n - i) + 1 \in 1..n /\ (n - j) + 1 \in 1..n /\ (n - i) + 1 # (n - j) + 1
    BY <1>13
  <2> QED BY <1>6, <1>11, <2>1
<1>14. ASSUME NEW b \in SyncBindings(h) PROVE \E i \in 1..n : bs[i] = b
  <2>1. PICK j \in 1..n : x[j] = b
    BY <1>5, <1>d
  <2>2. (n - j) + 1 \in 1..n /\ (n - ((n - j) + 1)) + 1 = j
    OBVIOUS
  <2> QED BY <1>11, <2>1, <2>2
<1>15. SyncBindings(h) \subseteq ToSet(Kube(h))
  BY DEF SyncBindings
<1>16. SyncRuns(u, bs, h)
  BY <1>9, <1>12, <1>13, <1>14, <1>15 DEF SyncRuns
<1> QED BY <1>2, <1>7, <1>16

\* A Synchronization task.
LEMMA SyncRunFields ==
    ASSUME NEW b \in KubeBindings
    PROVE  /\ BindingRun(b, 0, "main").kind = "HookRun" /\ BindingRun(b, 0, "main").queue = "main"
           /\ BindingRun(b, 0, "main").hook = HookOf(b)
           /\ BindingRun(b, 0, "main").ctxs = <<Context(b, 0)>>
           /\ BindingRun(b, 0, "main").allow = BindingConfig[b].allowFailure
           /\ ToSet(BindingRun(b, 0, "main").ctxs) = {Context(b, 0)}
           /\ Context(b, 0).binding = b /\ Context(b, 0).n = 0 /\ Context(b, 0) \in Contexts
<1>1. PICK q \in AllQueues, z \in Count : q = "main" /\ z = 0
  BY QueueNames, Bounds
<1>2. PICK x \in Bindings : x = b
  BY DEF Bindings
<1>3. /\ BindingRun(x, z, q).kind = "HookRun" /\ BindingRun(x, z, q).queue = q
      /\ BindingRun(x, z, q).hook = HookOf(x)
  BY BindingRunGood
<1>4. /\ BindingRun(x, z, q).ctxs = <<Context(x, z)>>
      /\ BindingRun(x, z, q).allow = BindingConfig[x].allowFailure
  BY BindingRunGood
<1>5. PICK c \in Contexts : c = Context(x, z) /\ c.binding = x /\ c.n = z
  BY ContextType
<1>6. ToSet(<<c>>) = {c}
  BY OneContext
<1> QED BY <1>1, <1>2, <1>3, <1>4, <1>5, <1>6

-----------------------------------------------------------------------------
(* All about the queue u that CombineFilter makes of s and the tasks o     *)
(* behind its head: z are their contexts, x those that are left of them.   *)

JoinShape(s, o, u, z, r, pick, row, col) ==
    /\ u \in Seq(GoodTasks) /\ Len(u) >= 1 /\ s \in Seq(GoodTasks)
    /\ Len(o) \in Nat /\ Len(o) + 1 <= Len(s)
    /\ z \in Seq(Contexts) /\ Gathers(s, Len(o) + 1, z, row, col)
    /\ u[1].ctxs \in Seq(Contexts)
    /\ Picks(z, {i \in 1..Len(z) : ~Skipped(z, i)}, u[1].ctxs, pick)
    /\ u[1].kind = "HookRun" /\ s[1].kind = "HookRun" /\ u[1].queue # "" /\ u[1].queue = s[1].queue
    /\ u[1].hook = s[1].hook /\ u[1].allow = s[1].allow
    /\ \A i \in 1..(Len(o) + 1) : s[i].kind = "HookRun" /\ s[i].queue # "" /\ s[i].hook = s[1].hook
    /\ \A i \in 1..(Len(o) + 1) : \A c \in ToSet(s[i].ctxs) : c.binding \in BindingsOf(s[1].hook)
    /\ \A t \in ToSet(o) : \E i \in 2..(Len(o) + 1) : t = s[i]
    /\ Follows(u, 1, s, r, ToSet(o)) /\ \A i \in 2..Len(u) : r[i] > Len(o) + 1

LEMMA JoinIs ==
    ASSUME NEW s, NEW w, QueueOK(s, w), w.at = "filter",
           NEW z, z = s[1].ctxs \o ContextsOf(w.others)
    PROVE  \E r, pick, row, col : JoinShape(s, w.others, Combined(s, w.others), z, r, pick, row, col)
<1>1. s \in Seq(GoodTasks) /\ s # << >> /\ w.others \in Seq(GoodTasks) /\ s[1] \in GoodTasks
      /\ Collected(s, w.others) /\ Fits(s[1], w)
  BY QueueTail DEF QueueOK, Works
<1>2. PICK o \in Seq(GoodTasks) : o = w.others
  BY <1>1
<1>3. PICK m \in Nat : m = Len(o)
  OBVIOUS
<1>4. m + 1 <= Len(s) /\ Len(s) \in Nat
  BY <1>1, <1>2, <1>3 DEF Collected
<1>5. \A i \in 1..m : o[i] = s[i + 1] /\ o[i].hook = s[1].hook /\ o[i].kind = "HookRun"
  BY <1>1, <1>2, <1>3 DEF Collected
<1>6. PICK t \in GoodTasks : t = s[1] /\ t.kind = "HookRun" /\ t.queue # ""
  BY <1>1 DEF Fits
<1>7. \A i \in 1..Len(s) : ~Startup(s[i])
  BY <1>1, <1>6, QueueTail DEF Startup
<1>8. ASSUME NEW i \in 1..(m + 1)
      PROVE  s[i].kind = "HookRun" /\ s[i].hook = t.hook /\ i \in 1..Len(s)
  <2>0. i \in 1..Len(s)
    BY <1>4
  <2>1. CASE i = 1
    BY <1>6, <2>0, <2>1
  <2>2. CASE i # 1
    <3>1. PICK j \in 1..m : j + 1 = i
      <4>1. i - 1 \in 1..m /\ (i - 1) + 1 = i
        BY <2>2
      <4> QED BY <4>1
    <3> QED BY <1>5, <1>6, <2>0, <3>1
  <2> QED BY <2>1, <2>2
<1>9. ASSUME NEW i \in 1..(m + 1)
      PROVE  s[i].queue # "" /\ \A c \in ToSet(s[i].ctxs) : c.binding \in BindingsOf(t.hook)
  <2>1. ~Startup(s[i]) /\ s[i].kind = "HookRun" /\ s[i].hook = t.hook
    BY <1>7, <1>8
  <2>2. s[i] \in GoodTasks
    BY <1>1, <1>8, ElementOfSeq
  <2> QED BY <2>1, <2>2 DEF GoodTasks, RunOf, Startup
<1>10. PICK row, col : Gathers(s, m + 1, z, row, col)
  BY <1>2, <1>3, JoinGathers
<1>11. z \in Seq(Contexts) /\ \A c \in ToSet(z) : c.binding \in BindingsOf(t.hook)
  BY <1>6, CombinedOf
<1>12. PICK x \in Seq(Contexts) : x = Compact(z) /\ \A c \in ToSet(x) : c.binding \in BindingsOf(t.hook)
  BY <1>11, CompactType
<1>13. PICK I : I = {i \in 1..Len(z) : ~Skipped(z, i)}
  OBVIOUS
<1>14. x = Keep(z, I)
  <2>1. DOMAIN z = 1..Len(z)
    BY <1>11, LenProperties
  <2> QED BY <1>12, <1>13, <2>1 DEF Compact
<1>15. PICK pick : Picks(z, I, x, pick)
  BY <1>11, <1>14, KeepPicks
<1>16. PICK u : u = Combined(s, o)
  OBVIOUS
<1>17. u[1] = WithContexts(t, x) /\ \E r : Follows(u, 1, s, r, ToSet(o))
  BY <1>2, <1>6, <1>12, <1>16, CombinedFollows
<1>18. PICK r : Follows(u, 1, s, r, ToSet(o))
  BY <1>17
<1>19. QueueOK(u, At("run"))
  BY <1>2, <1>16, QueueCombine
<1>20. u \in Seq(GoodTasks) /\ Len(u) >= 1
  <2>1. u \in Seq(GoodTasks)
    BY <1>19 DEF QueueOK
  <2>2. 1 \in 0..Len(u)
    BY <1>18 DEF Follows
  <2> QED BY <2>1, <2>2
<1>21. /\ u[1].kind = "HookRun" /\ u[1].queue = t.queue /\ u[1].hook = t.hook
       /\ u[1].ctxs = x /\ u[1].allow = t.allow
  <2>1. /\ WithContexts(t, x).kind = "HookRun" /\ WithContexts(t, x).queue = t.queue
        /\ WithContexts(t, x).hook = t.hook
    BY <1>6, <1>12, TaskWithContexts
  <2>2. WithContexts(t, x).ctxs = x /\ WithContexts(t, x).allow = t.allow
    BY <1>6, <1>12, TaskWithContexts
  <2> QED BY <1>17, <2>1, <2>2
<1>22. ASSUME NEW e \in ToSet(o) PROVE \E i \in 2..(m + 1) : e = s[i]
  <2>1. PICK i \in 1..m : e = o[i]
    BY <1>3 DEF ToSet
  <2>2. i + 1 \in 2..(m + 1)
    OBVIOUS
  <2> QED BY <1>5, <2>1, <2>2
<1>23. ASSUME NEW i \in 2..Len(u) PROVE r[i] > m + 1
  <2>1. r[i] \in 2..Len(s) /\ u[i] = s[r[i]] /\ u[i] \notin ToSet(o)
    BY <1>18, SMTT(40) DEF Follows
  <2>2. SUFFICES ASSUME r[i] \in 2..(m + 1) PROVE FALSE
    BY <1>4, <2>1
  <2>3. PICK j \in 1..m : r[i] = j + 1
    <3>1. r[i] - 1 \in 1..m /\ r[i] = (r[i] - 1) + 1
      BY <2>2
    <3> QED BY <3>1
  <2>4. o[j] = u[i]
    BY <1>5, <2>1, <2>3
  <2>5. o[j] \in ToSet(o)
    BY <1>3 DEF ToSet
  <2> QED BY <2>1, <2>4, <2>5
<1>24. JoinShape(s, o, u, z, r, pick, row, col)
  BY <1>1, <1>3, <1>4, <1>6, <1>8, <1>9, <1>10, <1>11, <1>12, <1>13, <1>15, <1>18, <1>20, <1>21, <1>22, <1>23
     DEF JoinShape
<1> QED BY <1>2, <1>16, <1>24

LEMMA JoinLengths ==
    ASSUME NEW s, NEW o, NEW u, NEW z, NEW r, NEW pick, NEW row, NEW col,
           JoinShape(s, o, u, z, r, pick, row, col)
    PROVE  /\ Len(o) \in Nat /\ Len(o) + 1 <= Len(s) /\ Len(s) \in Nat
           /\ Len(u) \in Nat /\ Len(u) >= 1 /\ Len(z) \in Nat /\ Len(u[1].ctxs) \in Nat
           /\ DOMAIN z = 1..Len(z) /\ DOMAIN u[1].ctxs = 1..Len(u[1].ctxs)
<1>1. s \in Seq(GoodTasks) /\ u \in Seq(GoodTasks) /\ z \in Seq(Contexts) /\ u[1].ctxs \in Seq(Contexts)
  BY DEF JoinShape
<1>2. Len(o) \in Nat /\ Len(o) + 1 <= Len(s) /\ Len(u) >= 1
  BY DEF JoinShape
<1>3. Len(s) \in Nat /\ Len(u) \in Nat
  BY <1>1, LenProperties
<1>4. Len(z) \in Nat /\ DOMAIN z = 1..Len(z)
  BY <1>1, LenProperties
<1>5. Len(u[1].ctxs) \in Nat /\ DOMAIN u[1].ctxs = 1..Len(u[1].ctxs)
  BY <1>1, LenProperties
<1> QED BY <1>2, <1>3, <1>4, <1>5

\* A context left of the combined ones was one of them.
LEMMA JoinedContexts ==
    ASSUME NEW s, NEW o, NEW u, NEW z, NEW r, NEW pick, NEW row, NEW col,
           JoinShape(s, o, u, z, r, pick, row, col)
    PROVE  /\ \A c \in ToSet(z) : \E i \in 1..(Len(o) + 1) : i \in 1..Len(s) /\ c \in ToSet(s[i].ctxs)
           /\ \A c \in ToSet(u[1].ctxs) : c \in ToSet(z)
           /\ \A i \in 1..(Len(o) + 1) : \A c \in ToSet(s[i].ctxs) : c \in ToSet(z)
           /\ \A c \in ToSet(z) : c \in ToSet(u[1].ctxs) \/ c \in Gone(z)
<1>1. PICK m \in Nat : m = Len(o)
  BY DEF JoinShape
<1>a. s \in Seq(GoodTasks) /\ z \in Seq(Contexts)
  BY DEF JoinShape
<1>b. m + 1 <= Len(s) /\ Gathers(s, m + 1, z, row, col)
  BY <1>1 DEF JoinShape
<1>2. m + 1 <= Len(s) /\ Len(s) \in Nat /\ s \in Seq(GoodTasks)
  BY <1>a, <1>b
<1>3. \A i \in 1..(m + 1) : i \in 1..Len(s) /\ s[i].ctxs \in Seq(Contexts)
  <2>1. \A i \in 1..(m + 1) : i \in 1..Len(s)
    BY <1>2
  <2>2. \A i \in 1..Len(s) : s[i] \in GoodTasks
    BY <1>2, ElementOfSeq
  <2> QED BY <2>1, <2>2, TaskFields DEF GoodTasks
<1>4. z \in Seq(Contexts) /\ DOMAIN z = 1..Len(z) /\ Gathers(s, m + 1, z, row, col)
  BY <1>a, <1>b
<1>5. PICK x \in Seq(Contexts) : x = u[1].ctxs /\ Picks(z, {i \in 1..Len(z) : ~Skipped(z, i)}, x, pick)
  BY DEF JoinShape
<1>6. ASSUME NEW c \in ToSet(z) PROVE \E i \in 1..(m + 1) : i \in 1..Len(s) /\ c \in ToSet(s[i].ctxs)
  <2>1. PICK k \in 1..Len(z) : c = z[k]
    BY <1>4 DEF ToSet
  <2>2. row[k] \in 1..(m + 1) /\ col[k] \in 1..Len(s[row[k]].ctxs) /\ z[k] = s[row[k]].ctxs[col[k]]
    BY <1>4 DEF Gathers
  <2>3. PICK i \in 1..(m + 1) : i = row[k]
    BY <2>2
  <2>4. PICK y \in Seq(Contexts) : y = s[i].ctxs
    BY <1>3
  <2>5. c \in ToSet(y)
    BY <2>1, <2>2, <2>3, <2>4 DEF ToSet
  <2> QED BY <1>3, <2>4, <2>5
<1>7. ASSUME NEW i \in 1..(m + 1), NEW c \in ToSet(s[i].ctxs) PROVE c \in ToSet(z)
  <2>1. PICK y \in Seq(Contexts) : y = s[i].ctxs
    BY <1>3
  <2>2. PICK j \in 1..Len(y) : c = y[j]
    BY <2>1 DEF ToSet
  <2>3. PICK k \in 1..Len(z) : row[k] = i /\ col[k] = j
    BY <1>4, <2>1, ZenonT(60) DEF Gathers
  <2>4. z[k] = s[row[k]].ctxs[col[k]]
    BY <1>4 DEF Gathers
  <2> QED BY <1>4, <2>1, <2>2, <2>3, <2>4 DEF ToSet
<1>8. ASSUME NEW c \in ToSet(x) PROVE c \in ToSet(z)
  <2>1. PICK k \in 1..Len(x) : c = x[k]
    BY DEF ToSet
  <2> QED BY <1>4, <1>5, <2>1 DEF Picks, ToSet
<1>9. ASSUME NEW c \in ToSet(z), c \notin Gone(z) PROVE c \in ToSet(x)
  <2>1. PICK i \in 1..Len(z) : c = z[i]
    BY <1>4 DEF ToSet
  <2>2. ~Skipped(z, i)
    BY <1>4, <1>9, <2>1 DEF Gone
  <2>3. PICK k \in 1..Len(x) : pick[k] = i
    BY <1>5, <2>2 DEF Picks
  <2>4. x[k] = z[i]
    BY <1>5, <2>3 DEF Picks
  <2> QED BY <2>1, <2>4 DEF ToSet
<1> QED BY <1>1, <1>5, <1>6, <1>7, <1>8, <1>9

-----------------------------------------------------------------------------
(* PlaceInv.                                                               *)

LEMMA QueueType ==
    ASSUME TypeInv, NEW q \in DOMAIN queues
    PROVE  queues[q] \in Seq(GoodTasks) /\ StartupsFirst(queues[q]) /\ q \in AllQueues
<1> QED BY DEF TypeInv, QueuesOK, QueueOK, StageInv

LEMMA PlaceSet ==
    ASSUME NEW q \in DOMAIN queues, NEW u, queues' = Upd(queues, q, u),
           \A p \in DOMAIN queues : \A i \in 1..Len(queues[p]) : Belongs(queues[p][i], p),
           \A i \in 1..Len(u) : Belongs(u[i], q)
    PROVE  \A p \in DOMAIN queues' : \A i \in 1..Len(queues'[p]) : Belongs(queues'[p][i], p)
<1> SUFFICES ASSUME NEW p \in DOMAIN queues', NEW i \in 1..Len(queues'[p])
             PROVE  Belongs(queues'[p][i], p)
  OBVIOUS
<1>1. p \in DOMAIN queues
  BY UpdValue
<1>2. CASE p = q
  BY <1>2, UpdValue
<1>3. CASE p # q
  BY <1>1, <1>3, UpdValue
<1> QED BY <1>2, <1>3

LEMMA StartTaskFields ==
    \A h : /\ StartTask(h).kind = "HookRun" /\ StartTask(h).queue = "" /\ StartTask(h).hook = h
           /\ StartTask(h).ctxs = <<Context(h, 0)>> /\ StartTask(h).allow = FALSE
<1> QED BY DEF StartTask, HookRun

LEMMA FirstTasksBelong == \A i \in 1..Len(FirstTasks) : Belongs(FirstTasks[i], "main")
<1> SUFFICES ASSUME NEW i \in 1..Len(FirstTasks) PROVE Belongs(FirstTasks[i], "main")
  OBVIOUS
<1>n. PICK n \in Nat : n = Len(StartupOrder)
  BY HookNamesSeq
<1>m. PICK m \in Nat : m = Len(EnablingTasks)
  BY EnablingTasksType
<1>0. i \in 1..(n + m)
  BY <1>n, <1>m, FirstTasksType
<1>1. CASE i <= n
  <2>1. FirstTasks[i] = StartTask(StartupOrder[i])
    BY <1>n, <1>1, FirstTasksType
  <2>2. FirstTasks[i].kind = "HookRun" /\ FirstTasks[i].queue = ""
    BY <2>1, StartTaskFields
  <2> QED BY <2>2 DEF Belongs
<1>2. CASE ~(i <= n)
  <2>1. i - n \in 1..m
    BY <1>0, <1>2
  <2>2. FirstTasks[i] = EnablingTasks[i - n]
    BY <1>n, <1>2, FirstTasksType
  <2>3. FirstTasks[i].kind \in {"EnableKubernetesBindings", "EnableScheduleBindings"}
    BY <1>m, <2>1, <2>2, EnablingTasksType
  <2> QED BY <2>3 DEF Belongs
<1> QED BY <1>1, <1>2

LEMMA EventRunBelongs ==
    ASSUME NEW t, EventRun(t)
    PROVE  Belongs(t, t.queue)
<1>1. PICK b \in Bindings, n \in Count :
         /\ n # 0 /\ t.kind = "HookRun" /\ t.queue = BindingConfig[b].queue
         /\ ToSet(t.ctxs) = {Context(b, n)} /\ Context(b, n).binding = b /\ Context(b, n).n = n
  BY EventRunFields
<1> QED BY <1>1 DEF Belongs, Routed

LEMMA SyncRunBelongs ==
    ASSUME NEW h \in Hook, NEW b \in KubeBindings, b \in SyncBindings(h), b \in ToSet(Kube(h))
    PROVE  Belongs(BindingRun(b, 0, "main"), "main")
<1>1. HookOf(b) = h
  BY HookOfBinding DEF BindingsOf
<1>2. PICK t : t = BindingRun(b, 0, "main")
  OBVIOUS
<1>3. PICK c : /\ c = Context(b, 0) /\ c.binding = b /\ c.n = 0 /\ ToSet(t.ctxs) = {c}
               /\ t.kind = "HookRun" /\ t.queue = "main"
  BY <1>2, SyncRunFields
<1>4. Routed(c, "main")
  BY <1>1, <1>3 DEF Routed
<1> QED BY <1>2, <1>3, <1>4 DEF Belongs

LEMMA PlaceStep == ASSUME TypeInv, PlaceInv, [Next]_vars PROVE PlaceInv'
<1>0. /\ \A q \in DOMAIN queues : \A i \in 1..Len(queues[q]) : Belongs(queues[q][i], q)
      /\ \A i \in 1..Len(tailTasks) : EventRun(tailTasks[i])
  BY DEF PlaceInv
<1> USE DEF startup, events, results, unmoved
<1>1. CASE Prepopulated
  <2>1. DOMAIN queues' = {"main"} /\ queues'["main"] = FirstTasks /\ tailTasks' = tailTasks
    BY <1>1 DEF Prepopulated
  <2> QED BY <1>0, <2>1, FirstTasksBelong DEF PlaceInv
<1>2. CASE Still
  BY <1>0, <1>2 DEF Still, PlaceInv
<1>3. ASSUME NEW q \in NamedQueues, QueueAdded(q) PROVE PlaceInv'
  <2>1. /\ DOMAIN queues' = DOMAIN queues \union {q} /\ queues'[q] = << >>
        /\ tailTasks' = tailTasks /\ \A p \in DOMAIN queues : queues'[p] = queues[p]
    BY <1>3 DEF QueueAdded
  <2>2. Len(<< >>) = 0
    OBVIOUS
  <2> QED BY <1>0, <2>1, <2>2 DEF PlaceInv
<1>4. ASSUME NEW q \in DOMAIN work, Leaves(q) PROVE PlaceInv'
  <2>1. PICK s \in Seq(GoodTasks) : s = queues[q] /\ s # << >> /\ q \in DOMAIN queues
    BY <1>4, WorkerQueue DEF Leaves
  <2>2. PICK u : u = Tail(s) /\ queues' = Upd(queues, q, u) /\ tailTasks' = tailTasks
    BY <1>4, <2>1 DEF Leaves
  <2>3. PICK r : Follows(u, 0, s, r, {})
    BY <2>1, <2>2, TailFollows
  <2>4. \A i \in 1..Len(u) : Belongs(u[i], q)
    <3> TAKE i \in 1..Len(u)
    <3>1. i \in (0 + 1)..Len(u)
      OBVIOUS
    <3>2. PICK j \in 2..Len(s) : u[i] = s[j]
      BY <2>3, <3>1 DEF Follows
    <3>3. j \in 1..Len(s)
      BY <2>1
    <3> QED BY <1>0, <2>1, <3>2, <3>3
  <2>5. \A p \in DOMAIN queues' : \A i \in 1..Len(queues'[p]) : Belongs(queues'[p][i], p)
    BY <1>0, <2>1, <2>2, <2>4, PlaceSet
  <2> QED BY <1>0, <2>2, <2>5 DEF PlaceInv
<1>5. ASSUME NEW q \in DOMAIN work, Enabled(q) PROVE PlaceInv'
  <2>1. PICK s \in Seq(GoodTasks) : s = queues[q] /\ s # << >> /\ q \in DOMAIN queues
    BY <1>5, WorkerQueue DEF Enabled
  <2>2. PICK h \in Hook : h = s[1].hook /\ s[1].kind = "EnableKubernetesBindings"
    BY <1>5, <2>1, WorkerHead DEF Enabled
  <2>3. PICK bs : SyncRuns(Reverse(SyncTasks(h)), bs, h)
    BY SyncTasksAre
  <2>4. PICK v \in Seq(GoodTasks) : v = Reverse(SyncTasks(h))
    BY <2>3 DEF SyncRuns
  <2>5. PICK u : u = v \o Tail(s) /\ queues' = Upd(queues, q, u) /\ tailTasks' = tailTasks
    BY <1>5, <2>1, <2>2, <2>4 DEF Enabled
  <2>6. u \in Seq(GoodTasks) /\ (\A i \in 1..Len(v) : u[i] = v[i]) /\ \E r : Follows(u, Len(v), s, r, {})
    BY <2>1, <2>5, HeadsFollow
  <2>7. PICK r : Follows(u, Len(v), s, r, {})
    BY <2>6
  <2>8. q = "main"
    <3>1. 1 \in 1..Len(s)
      BY <2>1, EmptySeq
    <3>2. Belongs(s[1], q)
      BY <1>0, <2>1, <3>1
    <3> QED BY <2>2, <3>2 DEF Belongs
  <2>9. \A i \in 1..Len(u) : Belongs(u[i], q)
    <3> TAKE i \in 1..Len(u)
    <3>1. CASE i \in 1..Len(v)
      <4>1. PICK b \in KubeBindings : v[i] = BindingRun(b, 0, "main") /\ b \in SyncBindings(h) /\ b \in ToSet(Kube(h))
        <5>1. Len(v) = Len(bs) /\ bs \in Seq(KubeBindings)
          BY <2>3, <2>4 DEF SyncRuns
        <5>2. bs[i] \in KubeBindings
          BY <3>1, <5>1, ElementOfSeq
        <5> QED BY <2>3, <2>4, <3>1, <5>1, <5>2 DEF SyncRuns
      <4> QED BY <2>6, <2>8, <3>1, <4>1, SyncRunBelongs
    <3>2. CASE i \notin 1..Len(v)
      <4>1. i \in (Len(v) + 1)..Len(u)
        BY <2>6, <3>2
      <4>2. PICK j \in 2..Len(s) : u[i] = s[j]
        BY <2>7, <4>1 DEF Follows
      <4>3. j \in 1..Len(s)
        BY <2>1
      <4> QED BY <1>0, <2>1, <4>2, <4>3
    <3> QED BY <3>1, <3>2
  <2>10. \A p \in DOMAIN queues' : \A i \in 1..Len(queues'[p]) : Belongs(queues'[p][i], p)
    BY <1>0, <2>1, <2>5, <2>9, PlaceSet
  <2> QED BY <1>0, <2>5, <2>10 DEF PlaceInv
<1>6. ASSUME NEW q \in DOMAIN work, Joined(q) PROVE PlaceInv'
  <2>1. PICK s, w : s = queues[q] /\ w = work[q] /\ QueueOK(s, w) /\ w.at = "filter" /\ q \in DOMAIN queues
    BY <1>6, WorkerQueue DEF Joined
  <2>2. PICK u, o, z : /\ u = Combined(s, w.others) /\ o = w.others /\ z = s[1].ctxs \o ContextsOf(w.others)
                       /\ queues' = Upd(queues, q, u) /\ tailTasks' = tailTasks
    BY <1>6, <2>1 DEF Joined
  <2>3. PICK r, pick, row, col : JoinShape(s, o, u, z, r, pick, row, col)
    BY <2>1, <2>2, JoinIs
  <2>4. Len(o) \in Nat /\ Len(o) + 1 <= Len(s) /\ Len(s) \in Nat /\ Len(u) \in Nat
    BY <2>3, JoinLengths
  <2>5. ASSUME NEW i \in 1..Len(u) PROVE Belongs(u[i], q)
    <3>1. CASE i = 1
      <4>1. /\ u[1].kind = "HookRun" /\ u[1].queue = s[1].queue /\ u[1].queue # "" /\ s[1].kind = "HookRun"
        BY <2>3 DEF JoinShape
      <4>2. Belongs(s[1], q)
        BY <1>0, <2>1, <2>4
      <4>3. u[1].queue = q
        BY <4>1, <4>2 DEF Belongs
      <4>4. ASSUME NEW c \in ToSet(u[1].ctxs) PROVE Routed(c, q)
        <5>1. PICK j \in 1..(Len(o) + 1) : j \in 1..Len(s) /\ c \in ToSet(s[j].ctxs)
          BY <2>3, JoinedContexts
        <5>2. s[j].kind = "HookRun" /\ s[j].queue # ""
          BY <2>3, <5>1 DEF JoinShape
        <5>3. Belongs(s[j], q)
          BY <1>0, <2>1, <5>1
        <5> QED BY <5>1, <5>2, <5>3 DEF Belongs
      <4> QED BY <3>1, <4>1, <4>3, <4>4 DEF Belongs
    <3>2. CASE i # 1
      <4>1. i \in (1 + 1)..Len(u)
        BY <3>2
      <4>2. PICK j \in 2..Len(s) : u[i] = s[j]
        BY <2>3, <4>1 DEF JoinShape, Follows
      <4>3. j \in 1..Len(s)
        BY <2>4
      <4> QED BY <1>0, <2>1, <4>2, <4>3
    <3> QED BY <3>1, <3>2
  <2>6. \A p \in DOMAIN queues' : \A i \in 1..Len(queues'[p]) : Belongs(queues'[p][i], p)
    BY <1>0, <2>1, <2>2, <2>5, PlaceSet
  <2> QED BY <1>0, <2>2, <2>6 DEF PlaceInv
<1>7. ASSUME NEW t \in EventTasks, Arrives(t) PROVE PlaceInv'
  <2>1. PICK q \in DOMAIN queues : q = t.queue
    BY <1>7 DEF Arrives
  <2>2. PICK v \in Seq(EventTasks) : v = tailTasks /\ v # << >> /\ t = v[1]
    BY <1>7 DEF Arrives, TypeInv, EventInv
  <2>3. PICK s \in Seq(GoodTasks) : s = queues[q]
    BY QueueType
  <2>4. PICK u : u = Append(s, t) /\ queues' = Upd(queues, q, u) /\ tailTasks' = Tail(v)
    BY <1>7, <2>1, <2>2, <2>3 DEF Arrives
  <2>5. 1 \in 1..Len(v) /\ EventRun(t)
    <3>1. 1 \in 1..Len(v)
      BY <2>2, EmptySeq
    <3> QED BY <1>0, <2>2, <3>1
  <2>6. Belongs(t, q)
    BY <2>1, <2>5, EventRunBelongs
  <2>7. t \in GoodTasks
    BY DEF EventTasks
  <2>8. \A i \in 1..Len(u) : Belongs(u[i], q)
    <3>1. Len(u) = Len(s) + 1 /\ \A i \in 1..Len(u) : u[i] = IF i <= Len(s) THEN s[i] ELSE t
      BY <2>4, <2>7, AppendProperties
    <3> TAKE i \in 1..Len(u)
    <3>2. CASE i <= Len(s)
      BY <1>0, <2>3, <3>1, <3>2
    <3>3. CASE ~(i <= Len(s))
      BY <2>6, <3>1, <3>3
    <3> QED BY <3>2, <3>3
  <2>9. \A p \in DOMAIN queues' : \A i \in 1..Len(queues'[p]) : Belongs(queues'[p][i], p)
    BY <1>0, <2>1, <2>4, <2>8, PlaceSet
  <2>10. \A i \in 1..Len(tailTasks') : EventRun(tailTasks'[i])
    <3>1. PICK y : y = Tail(v) /\ Len(y) = Len(v) - 1 /\ \A i \in 1..Len(y) : y[i] = v[i + 1]
      BY <2>2, HeadTailProperties
    <3>2. \A i \in 1..Len(y) : i + 1 \in 1..Len(v)
      BY <3>1
    <3> QED BY <1>0, <2>2, <2>4, <3>1, <3>2
  <2> QED BY <2>9, <2>10 DEF PlaceInv
<1>8. CASE TakeKubeEvent
  <2>1. EventInv /\ kubeCh # << >> /\ queues' = queues
    BY <1>8 DEF TypeInv, TakeKubeEvent
  <2>2. PICK b \in KubeBindings, n \in Count : b = Head(kubeCh).binding /\ n = Head(kubeCh).n /\ n # 0
    BY <2>1, KubeHead
  <2>3. PICK t : t = BindingRun(b, n, BindingConfig[b].queue)
    OBVIOUS
  <2>4. EventRun(t)
    BY <2>2, <2>3 DEF EventRun, Bindings
  <2>5. tailTasks' = IF b \in linked THEN <<t>> ELSE << >>
    BY <1>8, <2>2, <2>3 DEF TakeKubeEvent
  <2>6. Len(<<t>>) = 1 /\ <<t>>[1] = t /\ Len(<< >>) = 0
    OBVIOUS
  <2>7. \A i \in 1..Len(tailTasks') : EventRun(tailTasks'[i])
    BY <2>4, <2>5, <2>6
  <2> QED BY <1>0, <2>1, <2>7 DEF PlaceInv
<1>9. CASE TakeScheduleEvent
  <2>1. queues' = queues
    BY <1>9 DEF TakeScheduleEvent
  <2>2. PICK s, c, n : n \in Count /\ n # 0 /\ FiredTasks(tailTasks', s, c, n)
    BY <1>9, Fired
  <2>3. \A i \in 1..Len(tailTasks') : EventRun(tailTasks'[i])
    <3> TAKE i \in 1..Len(tailTasks')
    <3>1. i \in 1..Len(s) /\ s \in Seq(SchedBindings)
      BY <2>2 DEF FiredTasks
    <3>2. PICK b \in Bindings : b = s[i]
      BY <3>1, ElementOfSeq DEF Bindings
    <3>3. tailTasks'[i] = BindingRun(b, n, BindingConfig[b].queue)
      BY <2>2, <3>1, <3>2 DEF FiredTasks
    <3> QED BY <2>2, <3>3 DEF EventRun
  <2> QED BY <1>0, <2>1, <2>3 DEF PlaceInv
<1>10. CASE (\E b \in KubeBindings : MonitorEvent(b)) \/ (\E c \in Crontabs : CronFires(c))
  <2>1. queues' = queues /\ tailTasks' = tailTasks
    BY <1>10 DEF MonitorEvent, CronFires
  <2> QED BY <1>0, <2>1 DEF PlaceInv
<1> QED BY <1>1, <1>2, <1>3, <1>4, <1>5, <1>6, <1>7, <1>8, <1>9, <1>10, Shapes

-----------------------------------------------------------------------------
(* StartInv: the onStartup hooks come first.                               *)

LEMMA OrderLength == Len(StartupOrder) \in Nat /\ Len(FirstTasks) \in Nat /\ Len(FirstTasks) >= Len(StartupOrder)
<1>1. Len(StartupOrder) \in Nat
  BY HookNamesSeq
<1>2. Len(EnablingTasks) \in Nat
  BY EnablingTasksType
<1> QED BY <1>1, <1>2, FirstTasksType

\* The main queue while the first k onStartup hooks have succeeded.
LEMMA StartingHead ==
    ASSUME TypeInv, NEW k \in 0..(Len(StartupOrder) - 1), StartingFrom(k), stage # "prepopulate"
    PROVE  /\ "main" \in DOMAIN queues /\ queues["main"] # << >> /\ queues["main"] \in Seq(GoodTasks)
           /\ k + 1 \in 1..Len(StartupOrder) /\ StartupOrder[k + 1] \in Hook
           /\ queues["main"][1] = StartTask(StartupOrder[k + 1])
<1>1. "main" \in DOMAIN queues
  BY DEF TypeInv, StageInv
<1>2. PICK s \in Seq(GoodTasks) : s = queues["main"]
  BY <1>1, QueueType
<1>3. k + 1 \in 1..Len(StartupOrder) /\ k \in Nat
  BY OrderLength
<1>4. Len(s) = Len(FirstTasks) - k /\ \A i \in 1..(Len(FirstTasks) - k) : s[i] = FirstTasks[i + k]
  BY <1>2 DEF StartingFrom
<1>5. 1 \in 1..(Len(FirstTasks) - k) /\ 1 + k \in 1..Len(FirstTasks) /\ 1 + k <= Len(StartupOrder)
  BY <1>3, OrderLength
<1>6. s[1] = FirstTasks[1 + k]
  BY <1>4, <1>5
<1>7. FirstTasks[1 + k] = StartTask(StartupOrder[1 + k])
  BY <1>5, FirstTasksType
<1>8. 1 + k = k + 1
  BY <1>3
<1>9. s # << >>
  BY <1>4, <1>5, EmptySeq
<1>10. StartupOrder[k + 1] \in Hook
  BY <1>3, HookNamesSeq, ElementOfSeq
<1> QED BY <1>1, <1>2, <1>3, <1>6, <1>7, <1>8, <1>9, <1>10

\* Only the worker of the main queue has a task, and it is an onStartup run.
LEMMA StartingWorker ==
    ASSUME TypeInv, NEW k \in 0..(Len(StartupOrder) - 1), StartingFrom(k), NEW q \in DOMAIN work
    PROVE  /\ q # "main" => work[q].at = "idle" /\ queues[q] = << >>
           /\ work[q].at \in {"idle", "run"} /\ stage # "prepopulate"
<1>1. stage # "prepopulate" /\ q \in DOMAIN queues
  BY WorkerQueue
<1>2. CASE q # "main"
  <2>1. queues[q] = << >>
    BY <1>1, <1>2 DEF StartingFrom
  <2> QED BY <1>1, <1>2, <2>1, BusyHead
<1>3. CASE q = "main"
  <2>1. PICK t : t = queues["main"][1] /\ t.kind = "HookRun" /\ t.queue = ""
    BY <1>1, StartingHead, StartTaskFields, ZenonT(60)
  <2>2. work[q] \in Works
    BY WorkerQueue
  <2>3. work[q].at # "idle" => Fits(t, work[q])
    BY <1>3, <2>1, BusyHead
  <2> QED BY <1>1, <1>3, <2>1, <2>2, <2>3 DEF Fits, Works
<1> QED BY <1>2, <1>3

LEMMA DoneGrows == ASSUME TypeInv, [Next]_vars PROVE done \subseteq done'
<1> USE DEF unmoved, results
<1>1. ASSUME NEW q, Leaves(q) \/ Enabled(q) \/ Joined(q) PROVE done \subseteq done'
  BY <1>1 DEF Leaves, Enabled, Joined
<1>2. ASSUME NEW q, QueueAdded(q) PROVE done \subseteq done'
  BY <1>2 DEF QueueAdded
<1>3. ASSUME NEW t, Arrives(t) PROVE done \subseteq done'
  BY <1>3 DEF Arrives
<1>4. CASE Prepopulated \/ Still \/ TakeKubeEvent \/ TakeScheduleEvent
  BY <1>4 DEF Prepopulated, Still, TakeKubeEvent, TakeScheduleEvent
<1>5. ASSUME NEW b, MonitorEvent(b) \/ CronFires(b) PROVE done \subseteq done'
  BY <1>5 DEF MonitorEvent, CronFires
<1> QED BY <1>1, <1>2, <1>3, <1>4, <1>5, Shapes

LEMMA StartWorker ==
    ASSUME TypeInv, NEW k \in 0..(Len(StartupOrder) - 1), StartingFrom(k),
           NEW q \in DOMAIN work, TaskHandler(q)
    PROVE  StartInv'
<1> USE DEF startup, events, results
<1>1. /\ q # "main" => work[q].at = "idle" /\ queues[q] = << >>
      /\ work[q].at \in {"idle", "run"} /\ stage # "prepopulate"
  BY StartingWorker
<1>2. Begin(q) \/ HookSucceeds(q) \/ HookFails(q)
  BY <1>1 DEF TaskHandler, CombineIterate, CombineFilter, AddMonitor, AddMonitorFails, StartMonitor,
              KubernetesEnabled, LinkSchedule, AddSchedule
<1>3. q = "main"
  <2>1. CASE Begin(q)
    BY <1>1, <2>1 DEF Begin
  <2>2. CASE HookSucceeds(q) \/ HookFails(q)
    BY <1>1, <2>2 DEF HookSucceeds, HookFails
  <2> QED BY <1>2, <2>1, <2>2
<1>4. PICK h \in Hook, t \in GoodTasks :
         /\ h = StartupOrder[k + 1] /\ t = queues["main"][1] /\ t = StartTask(h)
         /\ t = Head(queues["main"]) /\ queues["main"] # << >>
  <2>1. queues["main"] # << >> /\ queues["main"][1] = StartTask(StartupOrder[k + 1]) /\ StartupOrder[k + 1] \in Hook
    BY <1>1, StartingHead
  <2>2. Head(queues[q]) = queues[q][1] /\ queues[q][1] \in GoodTasks
    BY <1>3, <2>1, WorkerHead
  <2> QED BY <1>3, <2>1, <2>2
<1>5. t.allow = FALSE /\ t.ctxs = <<Context(h, 0)>>
  BY <1>4, StartTaskFields
<1>6. CASE Begin(q)
  <2>1. StartingFrom(k)'
    BY <1>6 DEF Begin, StartingFrom
  <2> QED BY <2>1 DEF StartInv
<1>7. CASE HookFails(q)
  <2>1. queues' = queues /\ dropped' = dropped
    BY <1>3, <1>4, <1>5, <1>7 DEF HookFails
  <2>2. StartingFrom(k)'
    BY <1>7, <2>1 DEF HookFails, StartingFrom
  <2> QED BY <2>2 DEF StartInv
<1>8. CASE HookSucceeds(q)
  <2>1. PICK c \in Contexts : c = Context(h, 0)
    BY ContextType, Bounds
  <2>2. ToSet(<<c>>) = {c}
    BY OneContext
  <2>3. done' = done \union {Context(StartupOrder[k + 1], 0)}
    BY <1>3, <1>4, <1>5, <1>8, <2>1, <2>2 DEF HookSucceeds
  <2>4. PICK n \in Nat, j \in Nat : n = Len(StartupOrder) /\ j = k + 1 /\ j <= n
    BY OrderLength
  <2>5. done = {Context(StartupOrder[i], 0) : i \in 1..k} /\ 1..j = (1..k) \union {j}
    BY <2>4 DEF StartingFrom
  <2>6. done' = {Context(StartupOrder[i], 0) : i \in 1..j}
    BY <2>3, <2>4, <2>5
  <2>7. CASE j = n
    <3>1. Started'
      BY <2>4, <2>6, <2>7 DEF Started
    <3> QED BY <3>1 DEF StartInv
  <2>8. CASE j # n
    <3>0. j \in 0..(n - 1)
      BY <2>4, <2>8
    <3>1. PICK s \in Seq(GoodTasks) : s = queues["main"] /\ s # << >> /\ "main" \in DOMAIN queues
      BY <1>1, StartingHead
    <3>2. queues' = Upd(queues, "main", Tail(s))
      BY <1>3, <1>8, <3>1, FinishEmpty DEF HookSucceeds
    <3>3. DOMAIN queues' = DOMAIN queues /\ queues'["main"] = Tail(s)
          /\ \A p \in DOMAIN queues : p # "main" => queues'[p] = queues[p]
      <4>1. PICK x, m, v : x = queues /\ m = "main" /\ v = Tail(s) /\ m \in DOMAIN x
        BY <3>1
      <4>2. queues' = Upd(x, m, v) /\ m \in DOMAIN x
        BY <3>2, <4>1
      <4>3. /\ DOMAIN Upd(x, m, v) = DOMAIN x /\ Upd(x, m, v)[m] = v
            /\ \A p \in DOMAIN x : p # m => Upd(x, m, v)[p] = x[p]
        BY <4>2, UpdValue
      <4> QED BY <4>1, <4>2, <4>3
    <3>4. Len(s) = Len(FirstTasks) - k /\ \A i \in 1..(Len(FirstTasks) - k) : s[i] = FirstTasks[i + k]
      BY <1>1, <3>1 DEF StartingFrom
    <3>5. PICK f \in Nat : f = Len(FirstTasks)
      BY OrderLength
    <3>6. PICK y : y = Tail(s) /\ Len(y) = Len(s) - 1 /\ \A i \in 1..Len(y) : y[i] = s[i + 1]
      BY <3>1, HeadTailProperties, ZenonT(60)
    <3>7. Len(y) = f - j
      BY <2>4, <3>4, <3>5, <3>6
    <3>8. ASSUME NEW i \in 1..(f - j) PROVE y[i] = FirstTasks[i + j]
      <4>1. i + 1 \in 1..(f - k) /\ (i + 1) + k = i + j
        BY <2>4
      <4> QED BY <3>4, <3>5, <3>6, <3>7, <4>1
    <3>9. stage' = stage /\ stage # "prepopulate" /\ dropped' = dropped /\ monitors' = monitors
          /\ entries' = entries /\ kubeCh' = kubeCh /\ scheduleCh' = scheduleCh /\ tailTasks' = tailTasks
      BY <1>1, <1>8 DEF HookSucceeds
    <3>10. StartingFrom(j)'
      BY <2>6, <3>3, <3>5, <3>6, <3>7, <3>8, <3>9 DEF StartingFrom
    <3> QED BY <2>4, <3>0, <3>10 DEF StartInv
  <2> QED BY <2>7, <2>8
<1> QED BY <1>2, <1>6, <1>7, <1>8

LEMMA StartStep == ASSUME TypeInv, StartInv, [Next]_vars PROVE StartInv'
<1> USE DEF startup, events, results
<1>1. CASE Started
  <2>1. Started'
    BY <1>1, DoneGrows DEF Started
  <2> QED BY <2>1 DEF StartInv
<1>2. ASSUME NEW k \in 0..(Len(StartupOrder) - 1), StartingFrom(k) PROVE StartInv'
  <2>1. ASSUME NEW q \in AllQueues \intersect DOMAIN work, TaskHandler(q) PROVE StartInv'
    BY <1>2, <2>1, StartWorker
  <2>2. CASE UNCHANGED vars
    <3>1. StartingFrom(k)'
      BY <1>2, <2>2 DEF vars, StartingFrom
    <3> QED BY <3>1 DEF StartInv
  <2>3. ~EventsHandler
    BY <1>2 DEF StartingFrom, EventsHandler, TakeKubeEvent, TakeScheduleEvent, QueueTask
  <2>4. \A b : ~MonitorEvent(b) /\ ~CronFires(b)
    BY <1>2 DEF StartingFrom, MonitorEvent, CronFires
  <2>5. CASE StartOperator
    <3>1. CASE PrepopulateMainQueue
      <4>1. queues' = [q \in {"main"} |-> FirstTasks] /\ k = 0
        BY <1>2, <3>1 DEF PrepopulateMainQueue, FirstTasks, StartTasks, StartTask, EnablingTasks, StartingFrom
      <4>2. queues'["main"] = FirstTasks /\ DOMAIN queues' = {"main"}
        BY <4>1
      <4>3. PICK f \in Nat : f = Len(FirstTasks)
        BY OrderLength
      <4>4. Len(queues'["main"]) = f - k /\ \A i \in 1..(f - k) : queues'["main"][i] = FirstTasks[i + k]
        BY <4>1, <4>2, <4>3
      <4>5. StartingFrom(k)'
        BY <1>2, <3>1, <4>2, <4>3, <4>4 DEF PrepopulateMainQueue, StartingFrom
      <4> QED BY <4>5 DEF StartInv
    <3>2. CASE StartMain \/ StartEventsHandler \/ StartScheduleManager
      <4>1. StartingFrom(k)'
        BY <1>2, <3>2 DEF StartMain, StartEventsHandler, StartScheduleManager, StartingFrom
      <4> QED BY <4>1 DEF StartInv
    <3>3. ASSUME NEW q \in NamedQueues, InitAndStartHookQueues(q) PROVE StartInv'
      <4>1. DOMAIN queues' = DOMAIN queues \union {q} /\ queues'[q] = << >>
            /\ \A p \in DOMAIN queues : queues'[p] = queues[p]
        BY <3>3 DEF InitAndStartHookQueues
      <4>2. "main" \in DOMAIN queues /\ q \notin DOMAIN queues /\ stage # "prepopulate"
        BY <3>3 DEF InitAndStartHookQueues, TypeInv, StageInv
      <4>3. queues'["main"] = queues["main"]
        BY <4>1, <4>2
      <4>4. \A p \in DOMAIN queues' : p # "main" => queues'[p] = << >>
        BY <1>2, <4>1 DEF StartingFrom
      <4>5. StartingFrom(k)'
        BY <1>2, <3>3, <4>2, <4>3, <4>4 DEF InitAndStartHookQueues, StartingFrom
      <4> QED BY <4>5 DEF StartInv
    <3> QED BY <2>5, <3>1, <3>2, <3>3 DEF StartOperator
  <2> QED BY <2>1, <2>2, <2>3, <2>4, <2>5 DEF Next
<1> QED BY <1>1, <1>2 DEF StartInv

LEMMA StartInit == Init => StartInv
<1> SUFFICES ASSUME Init PROVE StartInv
  OBVIOUS
<1>1. CASE Len(StartupOrder) = 0
  BY <1>1 DEF StartInv, Started
<1>2. CASE Len(StartupOrder) # 0
  <2>1. 0 \in 0..(Len(StartupOrder) - 1)
    BY <1>2, OrderLength
  <2>2. done = {Context(StartupOrder[i], 0) : i \in 1..0}
    BY DEF Init
  <2>3. DOMAIN queues = {}
    BY EmptyFunction DEF Init
  <2>4. StartingFrom(0)
    BY <2>2, <2>3 DEF Init, StartingFrom
  <2> QED BY <2>1, <2>4 DEF StartInv
<1> QED BY <1>1, <1>2

LEMMA StartupsOrdered == TypeInv /\ StartInv => StartupFirst
<1> SUFFICES ASSUME TypeInv, StartInv PROVE StartupFirst
  OBVIOUS
<1>n. PICK n \in Nat : n = Len(StartupOrder) /\ DOMAIN StartupOrder = 1..n
  BY HookNamesSeq, LenProperties
<1>s. ToSet(StartupOrder) = {StartupOrder[i] : i \in 1..n}
  BY <1>n DEF ToSet
<1>1. CASE Started
  <2>1. \A h \in ToSet(StartupOrder) : Context(h, 0) \in done
    BY <1>1, <1>n, <1>s DEF Started
  <2>2. \A i \in 1..n : \A j \in 1..(i - 1) : Context(StartupOrder[j], 0) \in done
    <3>1. \A i \in 1..n : \A j \in 1..(i - 1) : j \in 1..n
      OBVIOUS
    <3> QED BY <1>1, <1>n, <3>1 DEF Started
  <2> QED BY <1>n, <2>1, <2>2 DEF StartupFirst
<1>2. ASSUME NEW k \in 0..(Len(StartupOrder) - 1), StartingFrom(k) PROVE StartupFirst
  <2>1. done = {Context(StartupOrder[i], 0) : i \in 1..k} /\ dropped = {}
    BY <1>2 DEF StartingFrom
  <2>2. \A i \in 1..n : StartupOrder[i] \in Hook
    BY <1>n, HookNamesSeq, ElementOfSeq
  <2>3. \A i, j \in 1..n : StartupOrder[i] = StartupOrder[j] => i = j
    BY <1>n, ShellOperatorAssumption DEF ShellOperatorAssumption, IsInjective
  <2>4. \A g, h : Context(g, 0) = Context(h, 0) => g = h
    BY DEF Context
  <2>5. ASSUME NEW i \in 1..n, Context(StartupOrder[i], 0) \in done, NEW j \in 1..(i - 1)
        PROVE  Context(StartupOrder[j], 0) \in done
    <3>1. PICK m \in 1..k : Context(StartupOrder[i], 0) = Context(StartupOrder[m], 0)
      BY <2>1, <2>5
    <3>2. m \in 1..n
      BY <1>n
    <3>3. i = m
      BY <2>3, <2>4, <3>1, <3>2
    <3>4. j \in 1..k
      BY <3>3
    <3> QED BY <2>1, <3>4
  <2>6. ASSUME NEW c \in done PROVE c.binding \in Hook
    <3>1. PICK i \in 1..k : c = Context(StartupOrder[i], 0)
      BY <2>1
    <3>2. i \in 1..n
      BY <1>n
    <3> QED BY <2>2, <3>1, <3>2 DEF Context
  <2>7. ASSUME NEW q \in DOMAIN work, NEW c \in ToSet(Given(q)) PROVE c.binding \in Hook
    <3>e. ToSet(<< >>) = {}
      BY EmptyFunction DEF ToSet
    <3>1. work[q].at = "run" /\ Given(q) = Head(queues[q]).ctxs
      BY <2>7, <3>e DEF Given
    <3>2. q = "main" /\ stage # "prepopulate"
      BY <1>2, <3>1, StartingWorker
    <3>3. PICK h \in Hook : queues[q] # << >> /\ queues[q][1] = StartTask(h)
      BY <1>2, <3>2, StartingHead
    <3>4. Given(q) = <<Context(h, 0)>>
      BY <3>1, <3>3, WorkerHead, StartTaskFields, ZenonT(60)
    <3>5. PICK d \in Contexts : d = Context(h, 0) /\ d.binding = h
      BY ContextType, Bounds
    <3> QED BY <2>7, <3>4, <3>5, OneContext
  <2> QED BY <1>n, <2>1, <2>5, <2>6, <2>7 DEF StartupFirst
<1> QED BY <1>1, <1>2 DEF StartInv

\* onStartup hooks run in the order PrepopulateMainQueue gives them, each after
\* the success of the one before, and the first run of any other hook, in
\* whatever queue, begins after the last of them: for any set of hooks.
THEOREM StartupFirstAlways == Spec => []StartupFirst
<1>1. TypeInv /\ StartInv /\ [Next]_vars => (TypeInv /\ StartInv)'
  BY TypeStep, StartStep
<1>2. Init => TypeInv /\ StartInv
  BY InitType, StartInit
<1> QED BY <1>1, <1>2, StartupsOrdered, PTL DEF Spec

LEMMA PlaceInit == Init => PlaceInv
<1>1. Len(<< >>) = 0
  OBVIOUS
<1> QED BY <1>1, EmptyFunction DEF Init, PlaceInv

-----------------------------------------------------------------------------
(* What the producers of events do.                                        *)

LEMMA MonitorEventIs ==
    ASSUME TypeInv, NEW b \in KubeBindings, MonitorEvent(b)
    PROVE  \E n \in Count, c \in Contexts :
              /\ n # 0 /\ n = emitted[b] + 1 /\ c = Context(b, n) /\ c.binding = b /\ c.n = n
              /\ b \in monitors /\ kubeCh = << >> /\ Len(kubeCh') = 1 /\ kubeCh'[1] = c
              /\ ToSet(kubeCh') = {c} /\ owed' = owed \union {c} /\ emitted'[b] = n
              /\ \A x \in KubeBindings \union Crontabs : x # b => emitted'[x] = emitted[x]
<1>0. emitted \in [KubeBindings \union Crontabs -> Count]
  BY DEF TypeInv, EventInv
<1>1. PICK e \in Count : e = emitted[b] /\ e < MaxEvents
  BY <1>0 DEF MonitorEvent
<1>2. PICK n \in Count : n = e + 1 /\ n # 0
  BY <1>1, OneMore
<1>3. PICK c \in Contexts : c = Context(b, n) /\ c.binding = b /\ c.n = n
  BY ContextType DEF Bindings
<1>4. emitted' = [emitted EXCEPT ![b] = n]
  BY <1>1, <1>2 DEF MonitorEvent
<1>5. emitted'[b] = n /\ \A x \in KubeBindings \union Crontabs : x # b => emitted'[x] = emitted[x]
  BY <1>0, <1>4
<1>6. kubeCh' = <<c>> /\ owed' = owed \union {c} /\ b \in monitors /\ kubeCh = << >>
  BY <1>1, <1>2, <1>3 DEF MonitorEvent
<1>7. Len(kubeCh') = 1 /\ kubeCh'[1] = c
  BY <1>6
<1>8. ToSet(kubeCh') = {c}
  BY <1>6, OneContext
<1> QED BY <1>1, <1>2, <1>3, <1>5, <1>6, <1>7, <1>8

LEMMA CronFiresIs ==
    ASSUME TypeInv, NEW c \in Crontabs, CronFires(c)
    PROVE  \E n \in Count :
              /\ n # 0 /\ n = emitted[c] + 1 /\ scheduleCh = << >>
              /\ Len(scheduleCh') = 1 /\ scheduleCh'[1].crontab = c /\ scheduleCh'[1].n = n
              /\ owed' = owed \union {Context(b, n) : b \in {x \in entries : BindingConfig[x].crontab = c}}
              /\ emitted'[c] = n
              /\ \A x \in KubeBindings \union Crontabs : x # c => emitted'[x] = emitted[x]
<1>0. emitted \in [KubeBindings \union Crontabs -> Count]
  BY DEF TypeInv, EventInv
<1>1. PICK e \in Count : e = emitted[c] /\ e < MaxTicks
  BY <1>0 DEF CronFires
<1>2. PICK n \in Count : n = e + 1 /\ n # 0
  BY <1>1, OneMore
<1>4. emitted' = [emitted EXCEPT ![c] = n]
  BY <1>1, <1>2 DEF CronFires
<1>5. emitted'[c] = n /\ \A x \in KubeBindings \union Crontabs : x # c => emitted'[x] = emitted[x]
  BY <1>0, <1>4
<1>6. scheduleCh' = <<[crontab |-> c, n |-> n]>> /\ scheduleCh = << >>
  BY <1>1, <1>2 DEF CronFires
<1>7. Len(scheduleCh') = 1 /\ scheduleCh'[1].crontab = c /\ scheduleCh'[1].n = n
  BY <1>6
<1>8. owed' = owed \union {Context(b, n) : b \in {x \in entries : BindingConfig[x].crontab = c}}
  BY <1>1, <1>2 DEF CronFires
<1> QED BY <1>1, <1>2, <1>5, <1>6, <1>7, <1>8

-----------------------------------------------------------------------------
(* LinkInv: there is a link before there are events.                       *)

LEMMA LinkInit == Init => LinkInv
<1>1. Len(<< >>) = 0
  OBVIOUS
<1> QED BY <1>1, EmptyFunction DEF Init, LinkInv

LEMMA LinksNone ==
    ASSUME NEW s, NEW w, NEW l, w.at \notin {"enable", "monitors", "add"}
    PROVE  Links(s, w, l)
<1> QED BY DEF Links

LEMMA LinksMore ==
    ASSUME NEW s, NEW w, NEW l, NEW k, Links(s, w, l), l \subseteq k
    PROVE  Links(s, w, k)
<1> QED BY DEF Links

LEMMA LinksHead ==
    ASSUME NEW s, NEW u, NEW w, NEW l, Links(s, w, l), u[1] = s[1]
    PROVE  Links(u, w, l)
<1> QED BY DEF Links

\* The worker of q goes on, the others stay where they are.
LEMMA LinksMove ==
    ASSUME LinkInv, TypeInv, NEW q \in DOMAIN work, NEW v, Move(q, v),
           linked \subseteq linked', \A p \in DOMAIN work : p # q => queues'[p] = queues[p],
           Links(queues'[q], v, linked')
    PROVE  \A p \in DOMAIN work' : Links(queues'[p], work'[p], linked')
<1>1. work' = Upd(work, q, v)
  BY DEF Move, Upd
<1>2. DOMAIN work' = DOMAIN work /\ work'[q] = v /\ \A p \in DOMAIN work : p # q => work'[p] = work[p]
  BY <1>1, UpdValue
<1>3. ASSUME NEW p \in DOMAIN work PROVE Links(queues'[p], work'[p], linked')
  <2>1. CASE p = q
    BY <1>2, <2>1
  <2>2. CASE p # q
    <3>1. Links(queues[p], work[p], linked)
      BY DEF LinkInv
    <3>2. Links(queues[p], work[p], linked')
      BY <3>1, LinksMore
    <3> QED BY <1>2, <2>2, <3>2
  <2> QED BY <2>1, <2>2
<1> QED BY <1>2, <1>3

LEMMA MoveFrame ==
    ASSUME TypeInv, NEW q \in DOMAIN work, NEW heads, Finish(q, heads)
    PROVE  \A p \in DOMAIN work : p # q => queues'[p] = queues[p]
<1> QED BY WorkerQueue DEF Finish

LEMMA AddMonitorLinks ==
    ASSUME LinkInv, TypeInv, NEW q \in DOMAIN work, NEW b \in KubeBindings, AddMonitor(q, b)
    PROVE  \A p \in DOMAIN work' : Links(queues'[p], work'[p], linked')
<1>1. work[q].at = "enable" /\ queues' = queues /\ linked' = linked \union {b}
  BY DEF AddMonitor
<1>2. queues[q] # << >> /\ Fits(queues[q][1], work[q])
  BY <1>1, BusyHead
<1>3. PICK t \in GoodTasks : t = Head(queues[q]) /\ t = queues[q][1] /\ t.hook \in Hook
  BY <1>2, WorkerHead
<1>4. PICK w \in Works : w = work[q] /\ w.at = "enable"
  BY <1>1, WorkerQueue
<1>5. PICK k \in Seq(KubeBindings) : k = Kube(t.hook)
  BY <1>3, ConfigSeqs
<1>n. PICK n \in Nat : n = Len(k)
  OBVIOUS
<1>i. PICK i \in 1..n : i = w.i /\ b = k[i]
  BY <1>1, <1>2, <1>3, <1>4, <1>5, <1>n DEF Fits, AddMonitor
<1>6. \A j \in 1..(i - 1) : k[j] \in linked
  BY <1>3, <1>4, <1>5, <1>i DEF LinkInv, Links
<1>7. \A j \in 1..i : k[j] \in linked'
  <2> TAKE j \in 1..i
  <2>1. CASE j = i
    BY <1>1, <1>i, <2>1
  <2>2. CASE j # i
    <3>1. j \in 1..(i - 1)
      BY <2>2
    <3> QED BY <1>1, <1>6, <3>1
  <2> QED BY <2>1, <2>2
<1>8. CASE i < n
  <2>1. PICK v : v = [w EXCEPT !.i = @ + 1]
    OBVIOUS
  <2>2. v.at = "enable" /\ v.i = i + 1
    BY <1>4, <1>i, <2>1 DEF Works
  <2>3. Move(q, v)
    BY <1>3, <1>4, <1>5, <1>8, <1>n, <1>i, <2>1 DEF AddMonitor
  <2>4. (i + 1) - 1 = i
    OBVIOUS
  <2>5. Links(queues'[q], v, linked')
    BY <1>1, <1>3, <1>5, <1>7, <2>2, <2>4 DEF Links
  <2> QED BY <1>1, <2>3, <2>5, LinksMove
<1>9. CASE ~(i < n)
  <2>1. PICK v \in Works : v = At("monitors") /\ v.at = "monitors"
    BY AtWork
  <2>2. Move(q, v)
    BY <1>3, <1>4, <1>5, <1>9, <1>n, <1>i, <2>1 DEF AddMonitor
  <2>3. i = n
    BY <1>9
  <2>4. ToSet(k) \subseteq linked'
    <3>1. DOMAIN k = 1..n
      BY <1>n, LenProperties
    <3> QED BY <1>7, <2>3, <3>1 DEF ToSet
  <2>5. Links(queues'[q], v, linked')
    BY <1>1, <1>3, <1>5, <2>1, <2>4 DEF Links
  <2> QED BY <1>1, <2>2, <2>5, LinksMove
<1> QED BY <1>8, <1>9

LEMMA WorkerLinks ==
    ASSUME LinkInv, TypeInv, NEW q \in DOMAIN work, TaskHandler(q)
    PROVE  LinkInv'
<1>0. /\ monitors \subseteq linked /\ entries \subseteq linked
      /\ \A i \in 1..Len(kubeCh) : kubeCh[i].binding \in linked
      /\ \A c \in owed : c.binding \in linked
      /\ \A p \in DOMAIN work : Links(queues[p], work[p], linked)
  BY SMTT(40) DEF LinkInv
<1> USE DEF startup, events, results
<1>k. kubeCh' = kubeCh /\ owed' = owed
  BY DEF TaskHandler, Begin, CombineIterate, CombineFilter, HookSucceeds, HookFails, AddMonitor,
         AddMonitorFails, StartMonitor, KubernetesEnabled, LinkSchedule, AddSchedule
<1>i. Idle.at = "idle" /\ \A p \in {"combine", "filter", "run", "enable", "monitors", "link", "add"} : At(p).at = p /\ At(p).i = 1
  BY IdleWork, AtWork
<1>1. CASE Begin(q)
  <2>1. queues' = queues /\ UNCHANGED <<linked, monitors, entries>>
    BY <1>1 DEF Begin
  <2>2. PICK v \in {At("combine"), At("run"), At("enable"), At("link")} : Move(q, v)
    <3>1. PICK t \in GoodTasks : t = Head(queues[q]) /\ t.kind \in {"HookRun", "EnableKubernetesBindings", "EnableScheduleBindings"}
      BY <1>1, WorkerHead DEF Begin
    <3>2. CASE t.kind = "HookRun"
      BY <1>1, <3>1, <3>2 DEF Begin
    <3>3. CASE t.kind = "EnableKubernetesBindings"
      BY <1>1, <3>1, <3>3 DEF Begin
    <3>4. CASE t.kind = "EnableScheduleBindings"
      BY <1>1, <3>1, <3>4 DEF Begin
    <3> QED BY <3>1, <3>2, <3>3, <3>4
  <2>3. v.at \in {"combine", "run", "enable", "link"} /\ v.i = 1
    BY <1>i, <2>2
  <2>4. \A j \in 1..(1 - 1) : FALSE
    OBVIOUS
  <2>5. Links(queues'[q], v, linked')
    BY <2>3, <2>4 DEF Links
  <2>6. \A p \in DOMAIN work' : Links(queues'[p], work'[p], linked')
    BY <2>1, <2>2, <2>5, LinksMove
  <2> QED BY <1>0, <1>k, <2>1, <2>6 DEF LinkInv
<1>2. CASE CombineIterate(q)
  <2>1. queues' = queues /\ UNCHANGED <<linked, monitors, entries>>
    BY <1>2 DEF CombineIterate
  <2>2. PICK v : Move(q, v) /\ v.at \in {"run", "filter"}
    BY <1>2, <1>i DEF CombineIterate
  <2>3. Links(queues'[q], v, linked')
    BY <2>2, LinksNone
  <2>4. \A p \in DOMAIN work' : Links(queues'[p], work'[p], linked')
    BY <2>1, <2>2, <2>3, LinksMove
  <2> QED BY <1>0, <1>k, <2>1, <2>4 DEF LinkInv
<1>3. CASE CombineFilter(q)
  <2>1. UNCHANGED <<linked, monitors, entries>> /\ Move(q, At("run"))
    BY <1>3 DEF CombineFilter
  <2>2. \A p \in DOMAIN work : p # q => queues'[p] = queues[p]
    <3>1. q \in DOMAIN queues /\ DOMAIN work \subseteq DOMAIN queues
      BY WorkerQueue
    <3>2. queues' = Upd(queues, q, Combined(queues[q], work[q].others))
      BY <1>3, CombineFilterType
    <3>3. PICK u : queues' = Upd(queues, q, u)
      BY <3>2
    <3> QED BY <3>1, <3>3, UpdValue
  <2>3. PICK v : v = At("run") /\ v.at = "run"
    BY <1>i
  <2>4. Links(queues'[q], v, linked')
    BY <2>3, LinksNone
  <2>5. \A p \in DOMAIN work' : Links(queues'[p], work'[p], linked')
    BY <2>1, <2>2, <2>3, <2>4, LinksMove
  <2> QED BY <1>0, <1>k, <2>1, <2>5 DEF LinkInv
<1>4. CASE HookSucceeds(q) \/ HookFails(q) \/ AddMonitorFails(q) \/ KubernetesEnabled(q)
  <2>1. UNCHANGED <<linked, monitors, entries>> /\ Move(q, Idle)
    BY <1>4 DEF HookSucceeds, HookFails, AddMonitorFails, KubernetesEnabled, Finish
  <2>2. \A p \in DOMAIN work : p # q => queues'[p] = queues[p]
    BY <1>4, MoveFrame DEF HookSucceeds, HookFails, AddMonitorFails, KubernetesEnabled
  <2>3. PICK v : v = Idle /\ v.at = "idle"
    BY <1>i
  <2>4. Links(queues'[q], v, linked')
    BY <2>3, LinksNone
  <2>5. \A p \in DOMAIN work' : Links(queues'[p], work'[p], linked')
    BY <2>1, <2>2, <2>3, <2>4, LinksMove
  <2> QED BY <1>0, <1>k, <2>1, <2>5 DEF LinkInv
<1>5. ASSUME NEW b \in KubeBindings, AddMonitor(q, b) PROVE LinkInv'
  <2>1. UNCHANGED <<monitors, entries>> /\ linked \subseteq linked'
    BY <1>5 DEF AddMonitor
  <2>2. \A p \in DOMAIN work' : Links(queues'[p], work'[p], linked')
    BY <1>5, AddMonitorLinks
  <2> QED BY <1>0, <1>k, <2>1, <2>2 DEF LinkInv
<1>6. CASE StartMonitor(q)
  <2>1. UNCHANGED <<linked, entries, queues, work>> /\ work[q].at = "monitors"
    BY <1>6 DEF StartMonitor
  <2>2. Head(queues[q]) = queues[q][1]
    BY <2>1, BusyHead, WorkerHead
  <2>3. monitors' \subseteq monitors \union ToSet(Kube(queues[q][1].hook))
    BY <1>6, <2>2 DEF StartMonitor
  <2>4. ToSet(Kube(queues[q][1].hook)) \subseteq linked
    BY <1>0, <2>1 DEF Links
  <2>5. monitors' \subseteq linked'
    BY <1>0, <2>1, <2>3, <2>4
  <2> QED BY <1>0, <1>k, <2>1, <2>5 DEF LinkInv
<1>7. CASE LinkSchedule(q)
  <2>1. UNCHANGED <<queues, monitors, entries>> /\ linked' = linked \union {Sched(Head(queues[q]).hook)[work[q].i]}
        /\ work[q].at = "link"
    BY <1>7 DEF LinkSchedule
  <2>2. Head(queues[q]) = queues[q][1]
    BY <2>1, BusyHead, WorkerHead
  <2>3. PICK w \in Works : w = work[q]
    BY WorkerQueue
  <2>4. PICK v : v = [w EXCEPT !.at = "add"]
    OBVIOUS
  <2>5. v.at = "add" /\ v.i = w.i
    BY <2>4 DEF Works
  <2>6. Move(q, v)
    BY <1>7, <2>3, <2>4 DEF LinkSchedule
  <2>7. Links(queues'[q], v, linked')
    BY <2>1, <2>2, <2>3, <2>5 DEF Links
  <2>8. \A p \in DOMAIN work' : Links(queues'[p], work'[p], linked')
    BY <2>1, <2>6, <2>7, LinksMove
  <2> QED BY <1>0, <1>k, <2>1, <2>8 DEF LinkInv
<1>8. CASE AddSchedule(q)
  <2>1. UNCHANGED <<linked, monitors>> /\ work[q].at = "add"
        /\ entries' = entries \union {Sched(Head(queues[q]).hook)[work[q].i]}
    BY <1>8 DEF AddSchedule
  <2>2. Head(queues[q]) = queues[q][1]
    BY <2>1, BusyHead, WorkerHead
  <2>3. entries' \subseteq linked'
    BY <1>0, <2>1, <2>2 DEF Links
  <2>4. PICK v : Move(q, v) /\ v.at \in {"link", "idle"}
    <3>1. PICK a \in Works : a = At("link") /\ a.at = "link"
      BY AtWork
    <3>2. PICK x : x = [a EXCEPT !.i = work[q].i + 1]
      OBVIOUS
    <3>3. x.at = "link"
      BY <3>1, <3>2 DEF Works
    <3>4. Move(q, x) \/ Move(q, Idle)
      BY <1>8, <3>1, <3>2 DEF AddSchedule, Finish
    <3> QED BY <1>i, <3>3, <3>4
  <2>5. Links(queues'[q], v, linked')
    BY <2>4, LinksNone
  <2>6. \A p \in DOMAIN work : p # q => queues'[p] = queues[p]
    BY <1>8, MoveFrame DEF AddSchedule
  <2>7. \A p \in DOMAIN work' : Links(queues'[p], work'[p], linked')
    BY <2>1, <2>4, <2>5, <2>6, LinksMove
  <2> QED BY <1>0, <1>k, <2>1, <2>3, <2>7 DEF LinkInv
<1> QED BY <1>1, <1>2, <1>3, <1>4, <1>5, <1>6, <1>7, <1>8 DEF TaskHandler

LEMMA LinkStep == ASSUME TypeInv, LinkInv, [Next]_vars PROVE LinkInv'
<1>0. /\ monitors \subseteq linked /\ entries \subseteq linked
      /\ \A i \in 1..Len(kubeCh) : kubeCh[i].binding \in linked
      /\ \A c \in owed : c.binding \in linked
      /\ \A p \in DOMAIN work : Links(queues[p], work[p], linked)
  BY DEF LinkInv
<1> USE DEF startup, events, results
<1>1. ASSUME NEW q \in AllQueues \intersect DOMAIN work, TaskHandler(q) PROVE LinkInv'
  BY <1>1, WorkerLinks
<1>2. CASE UNCHANGED vars \/ StartEventsHandler \/ StartScheduleManager
  BY <1>0, <1>2 DEF vars, StartEventsHandler, StartScheduleManager, LinkInv
<1>3. CASE PrepopulateMainQueue \/ StartMain
  <2>1. UNCHANGED <<linked, monitors, entries, kubeCh, owed>>
    BY <1>3 DEF PrepopulateMainQueue, StartMain
  <2>2. \A p \in DOMAIN work' : work'[p].at = "idle"
    <3>1. CASE PrepopulateMainQueue
      <4>1. DOMAIN queues = {} /\ DOMAIN work \subseteq DOMAIN queues
        BY <3>1 DEF PrepopulateMainQueue, TypeInv, StageInv, QueuesOK
      <4>2. work' = work
        BY <3>1 DEF PrepopulateMainQueue
      <4> QED BY <4>1, <4>2
    <3>2. CASE StartMain
      BY <3>2, IdleWork DEF StartMain
    <3> QED BY <1>3, <3>1, <3>2
  <2>3. \A p \in DOMAIN work' : Links(queues'[p], work'[p], linked')
    BY <2>2, LinksNone
  <2> QED BY <1>0, <2>1, <2>3 DEF LinkInv
<1>4. ASSUME NEW q \in NamedQueues, InitAndStartHookQueues(q) PROVE LinkInv'
  <2>1. UNCHANGED <<linked, monitors, entries, kubeCh, owed>> /\ stage = "queues" /\ q \notin DOMAIN queues
    BY <1>4 DEF InitAndStartHookQueues
  <2>2. DOMAIN work = DOMAIN queues
    BY <2>1 DEF TypeInv, StageInv
  <2>3. /\ DOMAIN work' = DOMAIN work \union {q} /\ work'[q] = Idle
        /\ \A p \in DOMAIN work : work'[p] = work[p] /\ queues'[p] = queues[p]
    BY <1>4, <2>1, <2>2 DEF InitAndStartHookQueues
  <2>4. Links(queues'[q], work'[q], linked')
    BY <2>3, IdleWork, LinksNone
  <2> QED BY <1>0, <2>1, <2>3, <2>4 DEF LinkInv
<1>5. CASE TakeKubeEvent
  <2>1. UNCHANGED <<linked, monitors, entries, queues, work, owed>> /\ kubeCh' = << >>
    <3>1. EventInv /\ kubeCh # << >>
      BY <1>5 DEF TakeKubeEvent, TypeInv
    <3> QED BY <1>5, <3>1, KubeHead DEF TakeKubeEvent
  <2>2. Len(<< >>) = 0
    OBVIOUS
  <2> QED BY <1>0, <2>1, <2>2 DEF LinkInv
<1>6. CASE TakeScheduleEvent
  BY <1>0, <1>6 DEF TakeScheduleEvent, LinkInv
<1>7. CASE QueueTask
  <2>1. UNCHANGED <<linked, monitors, entries, work, kubeCh, owed>>
    BY <1>7 DEF QueueTask
  <2>2. PICK t \in EventTasks : /\ t = Head(tailTasks) /\ t.queue \in DOMAIN queues
                                /\ queues' = Upd(queues, t.queue, Append(queues[t.queue], t))
    BY <1>7, QueueTaskType
  <2>3. ASSUME NEW p \in DOMAIN work PROVE Links(queues'[p], work[p], linked)
    <3>1. CASE p # t.queue
      <4>1. p \in DOMAIN queues
        BY WorkerQueue
      <4>2. PICK q, u : q \in DOMAIN queues /\ q = t.queue /\ queues' = Upd(queues, q, u)
        BY <2>2
      <4>3. queues'[p] = queues[p]
        BY <3>1, <4>1, <4>2, UpdValue
      <4> QED BY <1>0, <4>3
    <3>2. CASE p = t.queue
      <4>1. CASE work[p].at = "idle"
        BY <4>1, LinksNone
      <4>2. CASE work[p].at # "idle"
        <5>1. PICK s \in Seq(GoodTasks) : s = queues[p] /\ s # << >> /\ p \in DOMAIN queues
          BY <4>2, BusyHead, WorkerQueue
        <5>2. PICK u : u = Append(s, t) /\ queues' = Upd(queues, p, u)
          BY <2>2, <3>2, <5>1
        <5>3. u[1] = s[1]
          <6>1. t \in GoodTasks
            BY DEF EventTasks
          <6>2. 1 \in 1..Len(s)
            BY <5>1, EmptySeq
          <6> QED BY <5>2, <6>1, <6>2, AppendProperties
        <5>4. queues'[p] = u
          <6>1. p \in DOMAIN queues /\ queues' = Upd(queues, p, u)
            BY <5>1, <5>2
          <6> QED BY <6>1, UpdValue
        <5> QED BY <1>0, <5>1, <5>3, <5>4, LinksHead
      <4> QED BY <4>1, <4>2
    <3> QED BY <3>1, <3>2
  <2> QED BY <1>0, <2>1, <2>3 DEF LinkInv
<1>8. ASSUME NEW b \in KubeBindings, MonitorEvent(b) PROVE LinkInv'
  <2>1. UNCHANGED <<linked, monitors, entries, work, queues>>
    BY <1>8 DEF MonitorEvent
  <2>2. PICK n \in Count, c \in Contexts :
           /\ c.binding = b /\ b \in monitors /\ Len(kubeCh') = 1 /\ kubeCh'[1] = c
           /\ owed' = owed \union {c}
    BY <1>8, MonitorEventIs
  <2>3. \A i \in 1..Len(kubeCh') : kubeCh'[i].binding \in linked'
    BY <1>0, <2>1, <2>2
  <2>4. \A d \in owed' : d.binding \in linked'
    BY <1>0, <2>1, <2>2
  <2> QED BY <1>0, <2>1, <2>3, <2>4 DEF LinkInv
<1>9. ASSUME NEW c \in Crontabs, CronFires(c) PROVE LinkInv'
  <2>1. UNCHANGED <<linked, monitors, entries, work, queues, kubeCh>>
    BY <1>9 DEF CronFires
  <2>2. PICK n \in Count :
           owed' = owed \union {Context(b, n) : b \in {x \in entries : BindingConfig[x].crontab = c}}
    BY <1>9, CronFiresIs
  <2>3. ASSUME NEW b \in entries PROVE Context(b, n).binding \in linked
    BY <1>0 DEF Context
  <2>4. \A d \in owed' : d.binding \in linked'
    BY <1>0, <2>1, <2>2, <2>3
  <2> QED BY <1>0, <2>1, <2>4 DEF LinkInv
<1> QED BY <1>1, <1>2, <1>3, <1>4, <1>5, <1>6, <1>7, <1>8, <1>9 DEF Next, EventsHandler, StartOperator
-----------------------------------------------------------------------------
(* The queue s of q becomes u.                                             *)

Replaced(q, s, u) ==
    /\ q \in DOMAIN queues /\ s = queues[q] /\ queues'[q] = u
    /\ s \in Seq(GoodTasks) /\ u \in Seq(GoodTasks) /\ Len(s) \in Nat /\ Len(u) \in Nat
    /\ DOMAIN queues' = DOMAIN queues
    /\ \A p \in DOMAIN queues : p # q => queues'[p] = queues[p]

LEMMA ReplacedBy ==
    ASSUME NEW q \in DOMAIN queues, NEW s \in Seq(GoodTasks), NEW u \in Seq(GoodTasks),
           s = queues[q], queues' = Upd(queues, q, u)
    PROVE  Replaced(q, s, u)
<1>1. Len(s) \in Nat /\ Len(u) \in Nat
  BY LenProperties
<1>2. /\ DOMAIN queues' = DOMAIN queues /\ queues'[q] = u
      /\ \A p \in DOMAIN queues : p # q => queues'[p] = queues[p]
  BY UpdValue
<1> QED BY <1>1, <1>2 DEF Replaced

LEMMA LeavesView ==
    ASSUME TypeInv, NEW q \in DOMAIN work, Leaves(q)
    PROVE  \E s, u, r : Replaced(q, s, u) /\ Len(s) >= 1 /\ Follows(u, 0, s, r, {})
<1>1. PICK s \in Seq(GoodTasks) : s = queues[q] /\ s # << >> /\ q \in DOMAIN queues
  BY WorkerQueue DEF Leaves
<1>2. PICK u \in Seq(GoodTasks) : u = Tail(s)
  BY <1>1, TailFollows
<1>3. PICK r : Follows(u, 0, s, r, {})
  BY <1>1, <1>2, TailFollows
<1>4. queues' = Upd(queues, q, u)
  BY <1>1, <1>2 DEF Leaves
<1>5. s = queues[q] /\ q \in DOMAIN queues
  BY <1>1
<1>6. Replaced(q, s, u)
  BY <1>4, <1>5, ReplacedBy
<1>7. Len(s) >= 1
  BY <1>1, EmptySeq
<1> QED BY <1>3, <1>6, <1>7

\* The Synchronization tasks of h, for the bindings bs, take the place of the head.
SyncHeads(s, u, r, h, bs) ==
    /\ Len(s) >= 1 /\ h \in Hook /\ s[1] = EnableTask("EnableKubernetesBindings", h)
    /\ bs \in Seq(KubeBindings) /\ Len(bs) \in Nat /\ Follows(u, Len(bs), s, r, {})
    /\ \A i \in 1..Len(bs) : /\ u[i] = BindingRun(bs[i], 0, "main") /\ bs[i] \in SyncBindings(h)
                             /\ bs[i] \in ToSet(Kube(h)) /\ bs[i] \in KubeBindings
    /\ \A i, j \in 1..Len(bs) : i # j => bs[i] # bs[j]
    /\ \A b \in SyncBindings(h) : \E i \in 1..Len(bs) : bs[i] = b

LEMMA EnabledView ==
    ASSUME TypeInv, PlaceInv, NEW q \in DOMAIN work, Enabled(q)
    PROVE  q = "main" /\ \E s, u, r, h, bs : Replaced(q, s, u) /\ SyncHeads(s, u, r, h, bs)
<1>1. PICK s \in Seq(GoodTasks) : s = queues[q] /\ s # << >> /\ q \in DOMAIN queues
  BY WorkerQueue DEF Enabled
<1>2. PICK t \in GoodTasks : t = s[1] /\ t.kind = "EnableKubernetesBindings" /\ t.hook \in Hook
  BY <1>1, WorkerHead DEF Enabled
<1>3. PICK h \in Hook : h = t.hook /\ t = EnableTask("EnableKubernetesBindings", h)
  BY <1>2 DEF GoodTasks
<1>4. PICK bs : SyncRuns(Reverse(SyncTasks(h)), bs, h)
  BY SyncTasksAre
<1>5. PICK v \in Seq(GoodTasks) : v = Reverse(SyncTasks(h))
  BY <1>4 DEF SyncRuns
<1>6. PICK u : u = v \o Tail(s) /\ queues' = Upd(queues, q, u)
  BY <1>1, <1>2, <1>3, <1>5 DEF Enabled
<1>7. u \in Seq(GoodTasks) /\ (\A i \in 1..Len(v) : u[i] = v[i]) /\ \E r : Follows(u, Len(v), s, r, {})
  BY <1>1, <1>6, HeadsFollow
<1>8. PICK r : Follows(u, Len(v), s, r, {})
  BY <1>7
<1>9. 1 \in 1..Len(s) /\ Len(s) >= 1
  BY <1>1, EmptySeq
<1>10. q = "main"
  <2>1. Belongs(s[1], q)
    BY <1>1, <1>9 DEF PlaceInv
  <2> QED BY <1>2, <2>1 DEF Belongs
<1>11. Replaced(q, s, u)
  <2>1. queues' = Upd(queues, q, u) /\ s = queues[q] /\ q \in DOMAIN queues /\ u \in Seq(GoodTasks)
    BY <1>1, <1>6, <1>7
  <2> QED BY <2>1, ReplacedBy
<1>12. bs \in Seq(KubeBindings) /\ Len(v) = Len(bs)
  BY <1>4, <1>5 DEF SyncRuns
<1>13. Len(bs) \in Nat /\ \A i \in 1..Len(bs) : bs[i] \in KubeBindings
  BY <1>12, LenProperties, ElementOfSeq
<1>14. \A i \in 1..Len(bs) : /\ u[i] = BindingRun(bs[i], 0, "main") /\ bs[i] \in SyncBindings(h)
                             /\ bs[i] \in ToSet(Kube(h))
  BY <1>4, <1>5, <1>7, <1>12 DEF SyncRuns
<1>15. /\ \A i, j \in 1..Len(bs) : i # j => bs[i] # bs[j]
       /\ \A b \in SyncBindings(h) : \E i \in 1..Len(bs) : bs[i] = b
  BY <1>4 DEF SyncRuns
<1>16. SyncHeads(s, u, r, h, bs)
  BY <1>2, <1>3, <1>8, <1>9, <1>12, <1>13, <1>14, <1>15 DEF SyncHeads
<1> QED BY <1>10, <1>11, <1>16

LEMMA JoinedView ==
    ASSUME TypeInv, NEW q \in DOMAIN work, Joined(q)
    PROVE  \E s, o, u, z, r, pick, row, col :
              Replaced(q, s, u) /\ JoinShape(s, o, u, z, r, pick, row, col) /\ heir' = NewHeirs(z)
<1>1. PICK s, w : s = queues[q] /\ w = work[q] /\ QueueOK(s, w) /\ w.at = "filter" /\ q \in DOMAIN queues
  BY WorkerQueue DEF Joined
<1>2. PICK u, o, z : /\ u = Combined(s, w.others) /\ o = w.others /\ z = s[1].ctxs \o ContextsOf(w.others)
                     /\ queues' = Upd(queues, q, u) /\ heir' = NewHeirs(z)
  BY <1>1 DEF Joined
<1>3. PICK r, pick, row, col : JoinShape(s, o, u, z, r, pick, row, col)
  BY <1>1, <1>2, JoinIs
<1>4. u \in Seq(GoodTasks) /\ s \in Seq(GoodTasks)
  BY <1>3 DEF JoinShape
<1>5. queues' = Upd(queues, q, u) /\ s = queues[q] /\ q \in DOMAIN queues
  BY <1>1, <1>2
<1>6. Replaced(q, s, u)
  BY <1>4, <1>5, ReplacedBy
<1> QED BY <1>2, <1>3, <1>6

\* t moves from the head of the tasks y to the end of the queue s.
Moved(s, u, t, y, v) ==
    /\ EventRun(t) /\ t \in GoodTasks
    /\ Len(u) = Len(s) + 1 /\ u[Len(s) + 1] = t /\ \A i \in 1..Len(s) : u[i] = s[i]
    /\ Len(y) \in Nat /\ Len(y) >= 1 /\ t = y[1]
    /\ Len(v) = Len(y) - 1 /\ \A i \in 1..Len(v) : v[i] = y[i + 1]

LEMMA ArrivesView ==
    ASSUME TypeInv, PlaceInv, NEW t \in EventTasks, Arrives(t)
    PROVE  \E q, s, u : q = t.queue /\ Replaced(q, s, u) /\ Moved(s, u, t, tailTasks, tailTasks')
<1>1. PICK q \in DOMAIN queues : q = t.queue
  BY DEF Arrives
<1>2. PICK y \in Seq(EventTasks) : y = tailTasks /\ y # << >> /\ t = y[1]
  BY DEF Arrives, TypeInv, EventInv
<1>3. PICK s \in Seq(GoodTasks) : s = queues[q]
  BY QueueType
<1>4. PICK u : u = Append(s, t) /\ queues' = Upd(queues, q, u) /\ tailTasks' = Tail(y)
  BY <1>1, <1>2, <1>3 DEF Arrives
<1>5. Len(y) \in Nat /\ Len(y) >= 1 /\ 1 \in 1..Len(y)
  BY <1>2, EmptySeq
<1>6. EventRun(t) /\ t \in GoodTasks
  BY <1>2, <1>5 DEF PlaceInv, EventTasks
<1>7. /\ u \in Seq(GoodTasks) /\ Len(u) = Len(s) + 1 /\ u[Len(s) + 1] = t
      /\ \A i \in 1..Len(s) : u[i] = s[i]
  BY <1>4, <1>6, AppendProperties
<1>8. PICK v : v = Tail(y) /\ Len(v) = Len(y) - 1 /\ \A i \in 1..Len(v) : v[i] = y[i + 1]
  BY <1>2, HeadTailProperties
<1>9. Moved(s, u, t, y, v)
  BY <1>2, <1>5, <1>6, <1>7, <1>8 DEF Moved
<1>10. queues' = Upd(queues, q, u) /\ s = queues[q] /\ q \in DOMAIN queues /\ u \in Seq(GoodTasks)
  BY <1>3, <1>4, <1>7
<1>11. Replaced(q, s, u)
  BY <1>10, ReplacedBy
<1> QED BY <1>1, <1>2, <1>4, <1>8, <1>9, <1>11
-----------------------------------------------------------------------------
(* The contexts that tasks hold, and the enabling tasks still to come.     *)

LEMMA HeldIs == \A s, c : c \in Held(s) <=> \E i \in 1..Len(s) : c \in ToSet(s[i].ctxs)
<1> QED BY DEF Held

LEMMA ElementsAre ==
    ASSUME NEW A, NEW s \in Seq(A)
    PROVE  \A x : x \in ToSet(s) <=> \E i \in 1..Len(s) : s[i] = x
<1>1. DOMAIN s = 1..Len(s)
  BY LenProperties
<1> QED BY <1>1 DEF ToSet

\* What a queue that follows another one still holds.
LEMMA HeldFollows ==
    ASSUME NEW u, NEW k, NEW s, NEW r, NEW lost, Follows(u, k, s, r, lost),
           Len(u) \in Nat, Len(s) \in Nat, k \in Nat, NEW c, c \in Held(s)
    PROVE  \/ c \in ToSet(s[1].ctxs) \/ c \in Held(u)
           \/ \E j \in 2..Len(s) : s[j] \in lost /\ c \in ToSet(s[j].ctxs)
<1>1. PICK j \in 1..Len(s) : c \in ToSet(s[j].ctxs)
  BY HeldIs
<1>2. CASE j = 1
  BY <1>1, <1>2
<1>3. CASE j # 1 /\ s[j] \in lost
  BY <1>1, <1>3
<1>4. CASE j # 1 /\ s[j] \notin lost
  <2>1. j \in 2..Len(s)
    BY <1>4
  <2>2. PICK i \in (k + 1)..Len(u) : r[i] = j
    BY <1>4, <2>1 DEF Follows
  <2>3. u[i] = s[j] /\ i \in 1..Len(u)
    BY <2>2 DEF Follows
  <2> QED BY <1>1, <2>3, HeldIs
<1> QED BY <1>2, <1>3, <1>4

\* A task behind the head is still there unless it is lost.
LEMMA TaskFollows ==
    ASSUME NEW u, NEW k, NEW s, NEW r, NEW lost, Follows(u, k, s, r, lost),
           Len(u) \in Nat, Len(s) \in Nat, k \in Nat,
           NEW i \in 1..Len(s), s[i] # s[1], s[i] \notin lost
    PROVE  \E j \in 1..Len(u) : u[j] = s[i]
<1>1. i \in 2..Len(s)
  OBVIOUS
<1>2. PICK j \in (k + 1)..Len(u) : r[j] = i
  BY <1>1 DEF Follows
<1>3. u[j] = s[i] /\ j \in 1..Len(u)
  BY <1>2 DEF Follows
<1> QED BY <1>3

LEMMA QueueTypeNext ==
    ASSUME TypeInv, [Next]_vars
    PROVE  \A q \in DOMAIN queues' : queues'[q] \in Seq(GoodTasks)
<1>1. TypeInv'
  BY TypeStep
<1> QED BY <1>1 DEF TypeInv, QueuesOK, QueueOK

\* The task is in the main queue, or there is no main queue yet.
Waits(qs, t) == "main" \in DOMAIN qs => \E i \in 1..Len(qs["main"]) : qs["main"][i] = t

LEMMA PendingIs ==
    ASSUME TypeInv, [Next]_vars, NEW k, NEW h
    PROVE  /\ Pending(k, h) <=> Waits(queues, EnableTask(k, h))
           /\ Pending(k, h)' <=> Waits(queues', EnableTask(k, h))
<1>1. PICK t : t = EnableTask(k, h)
  OBVIOUS
<1>2. "main" \in DOMAIN queues =>
         (t \in ToSet(queues["main"]) <=> \E i \in 1..Len(queues["main"]) : queues["main"][i] = t)
  <2> SUFFICES ASSUME "main" \in DOMAIN queues
               PROVE  t \in ToSet(queues["main"]) <=> \E i \in 1..Len(queues["main"]) : queues["main"][i] = t
    OBVIOUS
  <2>1. PICK s \in Seq(GoodTasks) : s = queues["main"]
    BY QueueType
  <2> QED BY <2>1, ElementsAre
<1>3. "main" \in DOMAIN queues' =>
         (t \in ToSet(queues'["main"]) <=> \E i \in 1..Len(queues'["main"]) : queues'["main"][i] = t)
  <2> SUFFICES ASSUME "main" \in DOMAIN queues'
               PROVE  t \in ToSet(queues'["main"]) <=> \E i \in 1..Len(queues'["main"]) : queues'["main"][i] = t
    OBVIOUS
  <2>1. PICK s \in Seq(GoodTasks) : s = queues'["main"]
    BY QueueTypeNext
  <2> QED BY <2>1, ElementsAre
<1>4. Pending(k, h) <=> ("main" \notin DOMAIN queues \/ t \in ToSet(queues["main"]))
  BY <1>1 DEF Pending
<1>5. Pending(k, h)' <=> ("main" \notin DOMAIN queues' \/ t \in ToSet(queues'["main"]))
  BY <1>1 DEF Pending
<1> QED BY <1>1, <1>2, <1>3, <1>4, <1>5 DEF Waits

\* A hook with kubernetes bindings has its enabling task among the first tasks.
LEMMA FirstTasksEnable ==
    ASSUME NEW h \in Hook, Kube(h) # << >>
    PROVE  \E i \in 1..Len(FirstTasks) : FirstTasks[i] = EnableTask("EnableKubernetesBindings", h)
<1>1. PICK n \in Nat : n = Len(HookNames) /\ DOMAIN HookNames = 1..n
  BY HookNamesSeq
<1>2. PICK s : s = [i \in 1..n |-> EnableTasks(HookNames[i])]
  OBVIOUS
<1>3. \A i \in 1..n : s[i] = EnableTasks(HookNames[i]) /\ HookNames[i] \in Hook
  BY <1>1, <1>2, HookNamesSeq, ElementOfSeq
<1>4. PICK B : B = Seq(GoodTasks)
  OBVIOUS
<1>5. s \in [1..n -> B]
  BY <1>2, <1>3, <1>4, EnableTasksType
<1>6. s \in Seq(B) /\ Len(s) = n
  BY <1>5, IsASeq, LenProperties
<1>7. EnablingTasks = FlattenSeq(s)
  BY <1>1, <1>2 DEF EnablingTasks
<1>8. PICK f \in Seq(GoodTasks) : f = FlattenSeq(s) /\ \E row, col : Places(s, f, row, col)
  BY <1>4, <1>6, FlattenPlaces
<1>9. PICK row, col : Places(s, f, row, col)
  BY <1>8
<1>10. PICK i \in 1..n : HookNames[i] = h
  BY <1>1 DEF Hook, ToSet
<1>11. PICK t \in GoodTasks : t = EnableTask("EnableKubernetesBindings", h)
  BY EnableTaskGood
<1>12. PICK x \in Seq(GoodTasks) : x = s[i] /\ x = EnableTasks(h)
  BY <1>3, <1>10, EnableTasksType
<1>13. Len(x) >= 1 /\ Len(x) \in Nat /\ x[1] = t
  <2>1. CASE Sched(h) = << >>
    <3>1. x = <<t>> \o << >>
      BY <1>11, <1>12, <2>1 DEF EnableTasks
    <3>2. x = <<t>>
      BY <3>1
    <3> QED BY <3>2
  <2>2. CASE Sched(h) # << >>
    <3>1. PICK y \in GoodTasks : y = EnableTask("EnableScheduleBindings", h)
      BY <2>2, EnableTaskGood
    <3>2. x = <<t>> \o <<y>>
      BY <1>11, <1>12, <2>2, <3>1 DEF EnableTasks
    <3> QED BY <3>2, TwoElements
  <2> QED BY <2>1, <2>2
<1>14. i \in 1..Len(s) /\ 1 \in 1..Len(s[i]) /\ s[i][1] = t
  BY <1>6, <1>12, <1>13
<1>15. PICK k \in 1..Len(f) : row[k] = i /\ col[k] = 1
  BY <1>9, <1>14 DEF Places
<1>16. f[k] = t
  BY <1>9, <1>14, <1>15 DEF Places
<1>17. PICK m \in Nat : m = Len(StartupOrder)
  BY HookNamesSeq
<1>18. m + k \in 1..Len(FirstTasks) /\ ~(m + k <= m) /\ (m + k) - m = k
  BY <1>7, <1>8, <1>17, FirstTasksType
<1>19. FirstTasks[m + k] = f[k]
  BY <1>7, <1>8, <1>17, <1>18, FirstTasksType
<1> QED BY <1>11, <1>16, <1>18, <1>19

\* The contexts of the onStartup hooks are among those of the first tasks.
LEMMA FirstTasksHold ==
    ASSUME NEW h \in ToSet(StartupOrder)
    PROVE  Context(h, 0) \in Held(FirstTasks)
<1>1. PICK i \in 1..Len(StartupOrder) : StartupOrder[i] = h
  BY HookNamesSeq, ElementsAre
<1>2. i \in 1..Len(FirstTasks) /\ i <= Len(StartupOrder)
  BY <1>1, OrderLength
<1>3. FirstTasks[i] = StartTask(h)
  BY <1>1, <1>2, FirstTasksType
<1>4. h \in Hook
  BY <1>1, HookNamesSeq, ElementOfSeq
<1>5. PICK c \in Contexts : c = Context(h, 0)
  BY <1>4, Bounds, ContextType
<1>6. StartTask(h).ctxs = <<c>>
  BY <1>5 DEF StartTask, HookRun
<1>7. ToSet(<<c>>) = {c}
  BY OneContext
<1> QED BY <1>2, <1>3, <1>5, <1>6, <1>7, HeldIs
-----------------------------------------------------------------------------
(* LostInv: a context stays near, or is compacted into one that is.        *)

\* The ways in which a context can be near, one by one.
LEMMA NearBy ==
    ASSUME NEW c
    PROVE  /\ Near(c)' <=> \/ c \in ToSet(kubeCh')
                           \/ Ticking(c)' /\ c.binding \in linked'
                           \/ c \in Held(tailTasks')
                           \/ \E q \in DOMAIN queues' : c \in Held(queues'[q])
                           \/ c \in done' \union dropped'
           /\ Ticking(c)' <=> \E i \in DOMAIN scheduleCh' :
                                 /\ c.binding \in SchedBindings
                                 /\ BindingConfig[c.binding].crontab = scheduleCh'[i].crontab
                                 /\ c.n = scheduleCh'[i].n
<1> QED BY DEF Near, Ticking

\* Nothing but the queues changes, and they keep c or it was handled.
LEMMA NearFrame ==
    ASSUME NEW c, Near(c), kubeCh' = kubeCh, scheduleCh' = scheduleCh, linked \subseteq linked',
           done \subseteq done', dropped \subseteq dropped',
           c \in Held(tailTasks) =>
              c \in Held(tailTasks') \/ \E q \in DOMAIN queues' : c \in Held(queues'[q]),
           (\E q \in DOMAIN queues : c \in Held(queues[q])) =>
              c \in done' \union dropped' \/ \E q \in DOMAIN queues' : c \in Held(queues'[q])
    PROVE  Near(c)'
<1>1. CASE c \in ToSet(kubeCh)
  BY <1>1, NearBy
<1>2. CASE Ticking(c) /\ c.binding \in linked
  BY <1>2, NearBy DEF Ticking
<1>3. CASE c \in Held(tailTasks)
  BY <1>3, NearBy
<1>4. CASE \E q \in DOMAIN queues : c \in Held(queues[q])
  BY <1>4, NearBy
<1>5. CASE c \in done \union dropped
  BY <1>5, NearBy
<1> QED BY <1>1, <1>2, <1>3, <1>4, <1>5 DEF Near

\* The queue s of q becomes u, which keeps c or not.
LEMMA NearReplaced ==
    ASSUME NEW c, NEW q, NEW s, NEW u, Replaced(q, s, u), NEW B \in BOOLEAN,
           c \in Held(s) => c \in Held(u) \/ B
    PROVE  (\E p \in DOMAIN queues : c \in Held(queues[p])) =>
              B \/ \E p \in DOMAIN queues' : c \in Held(queues'[p])
<1> SUFFICES ASSUME NEW p \in DOMAIN queues, c \in Held(queues[p]), ~B
             PROVE  \E x \in DOMAIN queues' : c \in Held(queues'[x])
  OBVIOUS
<1>1. CASE p = q
  BY <1>1 DEF Replaced
<1>2. CASE p # q
  BY <1>2 DEF Replaced
<1> QED BY <1>1, <1>2

LEMMA NearLeaves ==
    ASSUME TypeInv, NEW q \in DOMAIN work, Leaves(q), NEW c, Near(c)
    PROVE  Near(c)'
<1>1. PICK s, u, r : Replaced(q, s, u) /\ Len(s) >= 1 /\ Follows(u, 0, s, r, {})
  BY LeavesView
<1>2. Len(s) \in Nat /\ Len(u) \in Nat /\ s = queues[q]
  BY <1>1 DEF Replaced
<1>3. PICK B \in BOOLEAN : B <=> c \in done' \union dropped'
  OBVIOUS
<1>4. ToSet(s[1].ctxs) \subseteq done' \union dropped'
  BY <1>2 DEF Leaves
<1>5. c \in Held(s) => c \in Held(u) \/ B
  BY <1>1, <1>2, <1>3, <1>4, HeldFollows
<1>6. (\E p \in DOMAIN queues : c \in Held(queues[p])) =>
         B \/ \E p \in DOMAIN queues' : c \in Held(queues'[p])
  BY <1>1, <1>5, NearReplaced
<1>7. /\ kubeCh' = kubeCh /\ scheduleCh' = scheduleCh /\ linked' = linked /\ tailTasks' = tailTasks
      /\ done \subseteq done' /\ dropped \subseteq dropped'
  BY DEF Leaves, unmoved
<1> QED BY <1>3, <1>6, <1>7, NearFrame

LEMMA NearEnabled ==
    ASSUME TypeInv, PlaceInv, NEW q \in DOMAIN work, Enabled(q), NEW c, Near(c)
    PROVE  Near(c)'
<1>1. PICK s, u, r, h, bs : Replaced(q, s, u) /\ SyncHeads(s, u, r, h, bs)
  BY EnabledView
<1>2. Len(s) \in Nat /\ Len(u) \in Nat /\ s = queues[q]
  BY <1>1 DEF Replaced
<1>3. Follows(u, Len(bs), s, r, {}) /\ Len(bs) \in Nat /\ s[1] = EnableTask("EnableKubernetesBindings", h)
  BY <1>1 DEF SyncHeads
<1>4. ToSet(s[1].ctxs) = {}
  <2>0. EnableTask("EnableKubernetesBindings", h).ctxs = << >>
    BY DEF EnableTask
  <2>1. s[1].ctxs = << >>
    BY <1>3, <2>0
  <2>2. ToSet(<< >>) = {}
    BY EmptyFunction DEF ToSet
  <2> QED BY <2>1, <2>2
<1>5. c \in Held(s) => c \in Held(u) \/ FALSE
  BY <1>2, <1>3, <1>4, HeldFollows
<1>6. (\E p \in DOMAIN queues : c \in Held(queues[p])) =>
         FALSE \/ \E p \in DOMAIN queues' : c \in Held(queues'[p])
  BY <1>1, <1>5, NearReplaced
<1>7. /\ kubeCh' = kubeCh /\ scheduleCh' = scheduleCh /\ linked' = linked /\ tailTasks' = tailTasks
      /\ done \subseteq done' /\ dropped \subseteq dropped'
  BY DEF Enabled, unmoved
<1> QED BY <1>6, <1>7, NearFrame

LEMMA NearArrives ==
    ASSUME TypeInv, PlaceInv, NEW t \in EventTasks, Arrives(t), NEW c, Near(c)
    PROVE  Near(c)'
<1>1. PICK q, s, u : q = t.queue /\ Replaced(q, s, u) /\ Moved(s, u, t, tailTasks, tailTasks')
  BY ArrivesView
<1>2. Len(s) \in Nat /\ Len(u) \in Nat /\ queues'[q] = u /\ q \in DOMAIN queues'
  BY <1>1 DEF Replaced
<1>3. PICK y, v : y = tailTasks /\ v = tailTasks' /\ Moved(s, u, t, y, v)
  BY <1>1
<1>4. c \in Held(s) => c \in Held(u)
  <2> SUFFICES ASSUME NEW i \in 1..Len(s), c \in ToSet(s[i].ctxs) PROVE c \in Held(u)
    BY HeldIs
  <2>1. u[i] = s[i] /\ i \in 1..Len(u)
    BY <1>2, <1>3 DEF Moved
  <2> QED BY <2>1, HeldIs
<1>5. c \in Held(y) => c \in Held(v) \/ c \in Held(u)
  <2> SUFFICES ASSUME NEW i \in 1..Len(y), c \in ToSet(y[i].ctxs) PROVE c \in Held(v) \/ c \in Held(u)
    BY HeldIs
  <2>1. CASE i = 1
    <3>1. u[Len(s) + 1] = y[i] /\ Len(s) + 1 \in 1..Len(u)
      BY <1>2, <1>3, <2>1 DEF Moved
    <3> QED BY <3>1, HeldIs
  <2>2. CASE i # 1
    <3>1. Len(y) \in Nat /\ Len(v) = Len(y) - 1
      BY <1>3 DEF Moved
    <3>2. PICK j \in 1..Len(v) : j + 1 = i
      BY <2>2, <3>1
    <3>3. v[j] = y[i]
      BY <1>3, <3>2 DEF Moved
    <3> QED BY <3>2, <3>3, HeldIs
  <2> QED BY <2>1, <2>2
<1>6. (\E p \in DOMAIN queues : c \in Held(queues[p])) =>
         FALSE \/ \E p \in DOMAIN queues' : c \in Held(queues'[p])
  BY <1>1, <1>4, NearReplaced
<1>7. /\ kubeCh' = kubeCh /\ scheduleCh' = scheduleCh /\ linked' = linked
      /\ done \subseteq done' /\ dropped \subseteq dropped'
  BY DEF Arrives
<1> QED BY <1>2, <1>3, <1>5, <1>6, <1>7, NearFrame

LEMMA NearTakeKube ==
    ASSUME TypeInv, LinkInv, TakeKubeEvent, NEW c, Near(c)
    PROVE  Near(c)'
<1>1. EventInv /\ kubeCh # << >>
  BY DEF TypeInv, TakeKubeEvent
<1>2. PICK b \in KubeBindings, n \in Count :
         /\ n # 0 /\ Head(kubeCh) = kubeCh[1] /\ kubeCh[1] = Context(b, n) /\ ToSet(kubeCh) = {Context(b, n)}
  <2>1. PICK k \in Seq(Contexts) : k = kubeCh
    BY <1>1 DEF EventInv
  <2>2. /\ Head(k) = k[1] /\ k[1] \in Contexts /\ Len(k) = 1
        /\ k[1].binding \in KubeBindings /\ k[1].n \in Count /\ k[1].n # 0
    BY <1>1, <2>1, KubeHead
  <2>3. DOMAIN k = {1}
    <3>1. DOMAIN k = 1..1
      BY <2>2, LenProperties
    <3> QED BY <3>1
  <2>4. k[1] = Context(k[1].binding, k[1].n)
    BY <2>2 DEF Contexts, Context
  <2>5. ToSet(k) = {k[1]}
    BY <2>3 DEF ToSet
  <2> QED BY <2>1, <2>2, <2>4, <2>5
<1>3. PICK d \in Contexts : d = Context(b, n) /\ d.binding = b /\ d.n = n
  BY ContextType DEF Bindings
<1>4. b \in linked
  <2>1. 1 \in 1..Len(kubeCh)
    BY <1>1, EmptySeq DEF EventInv
  <2> QED BY <1>2, <1>3, <2>1 DEF LinkInv
<1>5. PICK t : t = BindingRun(b, n, BindingConfig[b].queue)
  OBVIOUS
<1>6. tailTasks' = <<t>> /\ tailTasks = << >>
  BY <1>2, <1>3, <1>4, <1>5 DEF TakeKubeEvent, HandlerReady
<1>7. ToSet(t.ctxs) = {d}
  <2>1. PICK q \in AllQueues : q = BindingConfig[b].queue
    BY DEF AllQueues, NamedQueues, Bindings
  <2>2. PICK x \in Bindings : x = b
    BY DEF Bindings
  <2>3. BindingRun(x, n, q).ctxs = <<Context(x, n)>>
    BY BindingRunGood
  <2>4. ToSet(<<d>>) = {d}
    BY OneContext
  <2> QED BY <1>3, <1>5, <2>1, <2>2, <2>3, <2>4
<1>8. d \in Held(tailTasks')
  <2>1. PICK v : v = <<t>> /\ v = tailTasks'
    BY <1>6
  <2>2. 1 \in 1..Len(v) /\ v[1] = t
    BY <2>1
  <2> QED BY <1>7, <2>1, <2>2, HeldIs
<1>9. UNCHANGED <<queues, linked, scheduleCh, done, dropped>>
  BY DEF TakeKubeEvent, startup, results
<1>10. CASE c \in ToSet(kubeCh)
  BY <1>2, <1>3, <1>8, <1>10, NearBy
<1>11. CASE Ticking(c) /\ c.binding \in linked
  BY <1>9, <1>11, NearBy DEF Ticking
<1>12. c \notin Held(tailTasks)
  <2>1. Len(<< >>) = 0
    OBVIOUS
  <2> QED BY <1>6, <2>1, HeldIs
<1>13. CASE \E q \in DOMAIN queues : c \in Held(queues[q])
  BY <1>9, <1>13, NearBy
<1>14. CASE c \in done \union dropped
  BY <1>9, <1>14, NearBy
<1> QED BY <1>10, <1>11, <1>12, <1>13, <1>14 DEF Near

LEMMA NearTakeSchedule ==
    ASSUME TypeInv, TakeScheduleEvent, NEW c \in Contexts, Near(c)
    PROVE  Near(c)'
<1>1. PICK s : \E t \in Crontabs, n \in Count :
         /\ n # 0 /\ Len(scheduleCh) = 1 /\ scheduleCh[1].crontab = t /\ scheduleCh[1].n = n
         /\ scheduleCh' = << >> /\ FiredTasks(tailTasks', s, t, n)
  BY Fired
<1>2. PICK t \in Crontabs, n \in Count :
         /\ n # 0 /\ Len(scheduleCh) = 1 /\ scheduleCh[1].crontab = t /\ scheduleCh[1].n = n
         /\ FiredTasks(tailTasks', s, t, n)
  BY <1>1
<1>3. PICK v : v = tailTasks' /\ FiredTasks(v, s, t, n)
  BY <1>2
<1>9. UNCHANGED <<queues, linked, kubeCh, done, dropped>> /\ tailTasks = << >>
  BY DEF TakeScheduleEvent, startup, results, HandlerReady
<1>10. CASE c \in ToSet(kubeCh)
  BY <1>9, <1>10, NearBy
<1>11. CASE Ticking(c) /\ c.binding \in linked
  <2>1. DOMAIN scheduleCh = {1}
    <3>1. scheduleCh \in Seq(Fires)
      BY DEF TypeInv, EventInv
    <3>2. DOMAIN scheduleCh = 1..1
      BY <1>2, <3>1, LenProperties
    <3> QED BY <3>2
  <2>2. c.binding \in SchedBindings /\ BindingConfig[c.binding].crontab = t /\ c.n = n
    BY <1>2, <1>11, <2>1 DEF Ticking
  <2>3. PICK i \in 1..Len(s) : s[i] = c.binding
    BY <1>3, <1>11, <2>2 DEF FiredTasks
  <2>4. PICK b \in Bindings : b = c.binding
    BY <2>2 DEF Bindings
  <2>5. PICK q \in AllQueues : q = BindingConfig[b].queue
    BY DEF AllQueues, NamedQueues
  <2>6. v[i] = BindingRun(b, n, q) /\ i \in 1..Len(v)
    BY <1>3, <2>3, <2>4, <2>5 DEF FiredTasks
  <2>7. BindingRun(b, n, q).ctxs = <<Context(b, n)>>
    BY BindingRunGood
  <2>8. c = Context(b, n)
    BY <2>2, <2>4 DEF Contexts, Context
  <2>9. ToSet(<<c>>) = {c}
    BY OneContext
  <2>10. c \in Held(v)
    BY <2>6, <2>7, <2>8, <2>9, HeldIs
  <2> QED BY <1>3, <2>10, NearBy
<1>12. c \notin Held(tailTasks)
  <2>1. Len(<< >>) = 0
    OBVIOUS
  <2> QED BY <1>9, <2>1, HeldIs
<1>13. CASE \E q \in DOMAIN queues : c \in Held(queues[q])
  BY <1>9, <1>13, NearBy
<1>14. CASE c \in done \union dropped
  BY <1>9, <1>14, NearBy
<1> QED BY <1>10, <1>11, <1>12, <1>13, <1>14 DEF Near

LEMMA NearEmit ==
    ASSUME TypeInv, NEW c, Near(c),
           (\E b \in KubeBindings : MonitorEvent(b)) \/ (\E x \in Crontabs : CronFires(x))
    PROVE  Near(c)'
<1>1. ToSet(<< >>) = {} /\ DOMAIN << >> = {}
  BY EmptyFunction DEF ToSet
<1>2. ASSUME NEW b \in KubeBindings, MonitorEvent(b) PROVE Near(c)'
  <2>1. kubeCh = << >> /\ UNCHANGED <<queues, linked, tailTasks, scheduleCh, done, dropped>>
    BY <1>2 DEF MonitorEvent, startup, results
  <2>2. c \notin ToSet(kubeCh)
    BY <1>1, <2>1
  <2> QED BY <2>1, <2>2, NearBy DEF Near, Ticking
<1>3. ASSUME NEW x \in Crontabs, CronFires(x) PROVE Near(c)'
  <2>1. scheduleCh = << >> /\ UNCHANGED <<queues, linked, tailTasks, kubeCh, done, dropped>>
    BY <1>3 DEF CronFires, startup, results
  <2>2. ~Ticking(c)
    BY <1>1, <2>1 DEF Ticking
  <2> QED BY <2>1, <2>2, NearBy DEF Near
<1> QED BY <1>2, <1>3

\* Without a combination of tasks a context stays near.
LEMMA NearKept ==
    ASSUME TypeInv, PlaceInv, LinkInv, [Next]_vars, \A q \in DOMAIN work : ~Joined(q),
           NEW c \in Contexts, Near(c)
    PROVE  Near(c)'
<1>1. CASE Prepopulated
  <2>1. /\ kubeCh' = kubeCh /\ scheduleCh' = scheduleCh /\ linked' = linked /\ tailTasks' = tailTasks
        /\ done' = done /\ dropped' = dropped /\ DOMAIN queues = {}
    BY <1>1 DEF Prepopulated
  <2> QED BY <2>1, NearFrame
<1>2. CASE Still
  <2>1. /\ kubeCh' = kubeCh /\ scheduleCh' = scheduleCh /\ linked \subseteq linked'
        /\ tailTasks' = tailTasks /\ done' = done /\ dropped' = dropped /\ queues' = queues
    BY <1>2 DEF Still
  <2> QED BY <2>1, NearFrame
<1>3. ASSUME NEW q \in NamedQueues, QueueAdded(q) PROVE Near(c)'
  <2>1. /\ kubeCh' = kubeCh /\ scheduleCh' = scheduleCh /\ linked' = linked
        /\ tailTasks' = tailTasks /\ done' = done /\ dropped' = dropped
    BY <1>3 DEF QueueAdded, unmoved
  <2>2. \A p \in DOMAIN queues : p \in DOMAIN queues' /\ queues'[p] = queues[p]
    BY <1>3 DEF QueueAdded
  <2> QED BY <2>1, <2>2, NearFrame
<1>4. ASSUME NEW q \in DOMAIN work, Leaves(q) \/ Enabled(q) PROVE Near(c)'
  BY <1>4, NearLeaves, NearEnabled
<1>5. ASSUME NEW t \in EventTasks, Arrives(t) PROVE Near(c)'
  BY <1>5, NearArrives
<1>6. CASE TakeKubeEvent \/ TakeScheduleEvent
  BY <1>6, NearTakeKube, NearTakeSchedule
<1>7. CASE (\E b \in KubeBindings : MonitorEvent(b)) \/ (\E x \in Crontabs : CronFires(x))
  BY <1>7, NearEmit
<1> QED BY <1>1, <1>2, <1>3, <1>4, <1>5, <1>6, <1>7, Shapes

LEMMA JoinParts ==
    ASSUME NEW s, NEW o, NEW u, NEW z, NEW r, NEW pick, NEW row, NEW col,
           JoinShape(s, o, u, z, r, pick, row, col)
    PROVE  /\ z \in Seq(Contexts) /\ s \in Seq(GoodTasks) /\ u \in Seq(GoodTasks)
           /\ Gathers(s, Len(o) + 1, z, row, col)
           /\ Picks(z, {i \in 1..Len(z) : ~Skipped(z, i)}, u[1].ctxs, pick)
           /\ \A i \in 1..(Len(o) + 1) : s[i].kind = "HookRun" /\ s[i].hook = s[1].hook
           /\ \A i \in 1..(Len(o) + 1) : \A c \in ToSet(s[i].ctxs) : c.binding \in BindingsOf(s[1].hook)
           /\ \A t \in ToSet(o) : \E i \in 2..(Len(o) + 1) : t = s[i]
           /\ Follows(u, 1, s, r, ToSet(o)) /\ \A i \in 2..Len(u) : r[i] > Len(o) + 1
<1> QED BY Zenon DEF JoinShape

LEMMA JoinLost ==
    ASSUME NEW s, NEW o, NEW u, NEW z, NEW r, NEW pick, NEW row, NEW col,
           JoinShape(s, o, u, z, r, pick, row, col), NEW t \in ToSet(o)
    PROVE  t.kind = "HookRun"
<1>1. PICK i \in 2..(Len(o) + 1) : t = s[i]
  BY Zenon DEF JoinShape
<1>2. i \in 1..(Len(o) + 1)
  BY JoinLengths
<1> QED BY <1>1, <1>2, JoinParts

\* The context that stands for a compacted one: it is left in the combined task.
LEMMA HeirLeft ==
    ASSUME NEW s, NEW o, NEW u, NEW z, NEW r, NEW pick, NEW row, NEW col,
           JoinShape(s, o, u, z, r, pick, row, col), s[1].hook \in Hook,
           NEW c \in Gone(z), NEW d, d = Stands(z, c)
    PROVE  d \in ToSet(u[1].ctxs) /\ SameKind(d, c) /\ c \in ToSet(z)
<1>1. z \in Seq(Contexts) /\ DOMAIN z = 1..Len(z) /\ DOMAIN u[1].ctxs = 1..Len(u[1].ctxs)
  BY JoinLengths, JoinParts
<1>2. PICK j \in 1..Len(z) : d = z[j] /\ ~Skipped(z, j) /\ Group(z[j]) = Group(c)
  BY <1>1, StandsIs
<1>3. PICK x : x = u[1].ctxs /\ Picks(z, {i \in 1..Len(z) : ~Skipped(z, i)}, x, pick)
  BY JoinParts, ZenonT(60)
<1>4. PICK k \in 1..Len(x) : pick[k] = j
  BY <1>2, <1>3 DEF Picks
<1>5. x[k] = d
  BY <1>2, <1>3, <1>4 DEF Picks
<1>6. d \in ToSet(u[1].ctxs)
  BY <1>1, <1>3, <1>4, <1>5 DEF ToSet
<1>7. c \in ToSet(z)
  BY <1>1 DEF Gone, ToSet
<1>8. d \in ToSet(z)
  BY <1>1, <1>2 DEF ToSet
<1>9. \A y \in ToSet(z) : HookOf(y.binding) = s[1].hook
  <2> SUFFICES ASSUME NEW y \in ToSet(z) PROVE HookOf(y.binding) = s[1].hook
    OBVIOUS
  <2>1. PICK i \in 1..(Len(o) + 1) : y \in ToSet(s[i].ctxs)
    BY JoinedContexts
  <2>2. y.binding \in BindingsOf(s[1].hook)
    BY <2>1, JoinParts
  <2> QED BY <2>2, HookOfBinding
<1> QED BY <1>2, <1>6, <1>7, <1>8, <1>9 DEF SameKind

LEMMA HeldJoined ==
    ASSUME NEW s, NEW o, NEW u, NEW z, NEW r, NEW pick, NEW row, NEW col,
           JoinShape(s, o, u, z, r, pick, row, col), NEW c \in Held(s)
    PROVE  c \in Held(u) \/ c \in Gone(z)
<1>1. Len(u) \in Nat /\ Len(s) \in Nat /\ Len(o) \in Nat /\ Len(u) >= 1
  BY JoinLengths
<1>2. Follows(u, 1, s, r, ToSet(o))
  BY JoinParts
<1>3. c \in ToSet(z) => c \in Held(u) \/ c \in Gone(z)
  <2>1. 1 \in 1..Len(u)
    BY <1>1
  <2> QED BY <2>1, HeldIs, JoinedContexts
<1>4. CASE c \in ToSet(s[1].ctxs)
  <2>1. 1 \in 1..(Len(o) + 1)
    BY <1>1
  <2>2. c \in ToSet(z)
    BY <1>4, <2>1, JoinedContexts
  <2> QED BY <1>3, <2>2
<1>5. ASSUME NEW j \in 2..Len(s), s[j] \in ToSet(o), c \in ToSet(s[j].ctxs)
      PROVE  c \in Held(u) \/ c \in Gone(z)
  <2>1. PICK i \in 2..(Len(o) + 1) : s[j] = s[i]
    BY <1>5, JoinParts
  <2>2. i \in 1..(Len(o) + 1)
    BY <1>1
  <2>3. c \in ToSet(z)
    BY <1>5, <2>1, <2>2, JoinedContexts
  <2> QED BY <1>3, <2>3
<1> QED BY <1>1, <1>2, <1>4, <1>5, HeldFollows

LEMMA NearJoined ==
    ASSUME TypeInv, NEW q \in DOMAIN work, Joined(q)
    PROVE  \E z : /\ heir' = NewHeirs(z)
                  /\ \A c \in Gone(z) : Near(c)
                  /\ \A c, d : Near(c) /\ d = Stands(z, c) => Near(d)' /\ SameKind(d, c)
<1>1. PICK s, o, u, z, r, pick, row, col :
         Replaced(q, s, u) /\ JoinShape(s, o, u, z, r, pick, row, col) /\ heir' = NewHeirs(z)
  BY JoinedView
<1>2. /\ s = queues[q] /\ q \in DOMAIN queues /\ queues'[q] = u /\ q \in DOMAIN queues'
      /\ Len(s) \in Nat /\ Len(u) \in Nat
  BY <1>1 DEF Replaced
<1>3. /\ kubeCh' = kubeCh /\ scheduleCh' = scheduleCh /\ linked' = linked /\ tailTasks' = tailTasks
      /\ done' = done /\ dropped' = dropped
  BY DEF Joined, unmoved
<1>4. s[1].hook \in Hook
  <2>1. work[q].at # "idle"
    BY DEF Joined
  <2> QED BY <1>2, <2>1, BusyHead, WorkerHead
<1>5. ASSUME NEW c \in Gone(z) PROVE Near(c)
  <2>1. PICK d : d = Stands(z, c)
    OBVIOUS
  <2>2. c \in ToSet(z)
    BY <1>1, <1>4, <2>1, HeirLeft
  <2>3. c \in Held(s)
    BY <1>1, <2>2, HeldIs, JoinedContexts
  <2> QED BY <1>2, <2>3 DEF Near
<1>6. ASSUME NEW c, NEW d, Near(c), d = Stands(z, c) PROVE Near(d)' /\ SameKind(d, c)
  <2>1. CASE c \in Gone(z)
    <3>1. d \in ToSet(u[1].ctxs) /\ SameKind(d, c)
      BY <1>1, <1>4, <1>6, <2>1, HeirLeft
    <3>2. 1 \in 1..Len(u)
      BY <1>1, JoinLengths
    <3>3. d \in Held(u)
      BY <3>1, <3>2, HeldIs
    <3> QED BY <1>2, <3>1, <3>3, NearBy
  <2>2. CASE c \notin Gone(z)
    <3>1. d = c
      BY <1>6, <2>2 DEF Stands
    <3>2. c \in Held(s) => c \in Held(u) \/ FALSE
      BY <1>1, <2>2, HeldJoined
    <3>3. (\E p \in DOMAIN queues : c \in Held(queues[p])) =>
             FALSE \/ \E p \in DOMAIN queues' : c \in Held(queues'[p])
      BY <1>1, <3>2, NearReplaced
    <3>4. Near(c)'
      BY <1>3, <1>6, <3>3, NearFrame
    <3> QED BY <3>1, <3>4 DEF SameKind
  <2> QED BY <2>1, <2>2
<1> QED BY <1>1, <1>5, <1>6

LEMMA WaitsReplaced ==
    ASSUME NEW q, NEW s, NEW u, Replaced(q, s, u), NEW t, Waits(queues, t),
           q = "main" => \A i \in 1..Len(s) : s[i] = t => \E j \in 1..Len(u) : u[j] = t
    PROVE  Waits(queues', t)
<1> SUFFICES ASSUME "main" \in DOMAIN queues'
             PROVE  \E i \in 1..Len(queues'["main"]) : queues'["main"][i] = t
  BY DEF Waits
<1>1. "main" \in DOMAIN queues
  BY DEF Replaced
<1>2. PICK i \in 1..Len(queues["main"]) : queues["main"][i] = t
  BY <1>1 DEF Waits
<1>3. CASE q = "main"
  BY <1>2, <1>3 DEF Replaced
<1>4. CASE q # "main"
  BY <1>1, <1>2, <1>4 DEF Replaced
<1> QED BY <1>3, <1>4

LEMMA EnableTaskKind ==
    ASSUME NEW k, NEW h
    PROVE  EnableTask(k, h).kind = k /\ EnableTask(k, h).hook = h
<1> QED BY DEF EnableTask

\* Which steps leave an enabling task of a hook in the main queue.
LEMMA WaitsOn ==
    ASSUME TypeInv, PlaceInv, [Next]_vars, NEW h \in Hook, Kube(h) # << >>,
           NEW t, t = EnableTask("EnableKubernetesBindings", h), Waits(queues, t),
           \A q \in DOMAIN work : ~(Enabled(q) /\ queues[q][1] = t)
    PROVE  Waits(queues', t)
<1>0. t.kind = "EnableKubernetesBindings"
  BY EnableTaskKind
<1>1. CASE Prepopulated
  <2>1. PICK i \in 1..Len(FirstTasks) : FirstTasks[i] = t
    BY FirstTasksEnable
  <2> QED BY <1>1, <2>1 DEF Prepopulated, Waits
<1>2. CASE Still \/ TakeKubeEvent \/ TakeScheduleEvent
  <2>1. queues' = queues
    BY <1>2 DEF Still, TakeKubeEvent, TakeScheduleEvent
  <2> QED BY <2>1
<1>3. CASE (\E b \in KubeBindings : MonitorEvent(b)) \/ (\E x \in Crontabs : CronFires(x))
  <2>1. queues' = queues
    BY <1>3 DEF MonitorEvent, CronFires
  <2> QED BY <2>1
<1>4. ASSUME NEW q \in NamedQueues, QueueAdded(q) PROVE Waits(queues', t)
  BY <1>4 DEF QueueAdded, Waits
<1>5. ASSUME NEW q \in DOMAIN work, Leaves(q) PROVE Waits(queues', t)
  <2>1. PICK s, u, r : Replaced(q, s, u) /\ Follows(u, 0, s, r, {})
    BY <1>5, LeavesView
  <2>2. Len(s) \in Nat /\ Len(u) \in Nat /\ s = queues[q]
    BY <2>1 DEF Replaced
  <2>3. s[1] # t
    BY <1>0, <1>5, <2>2 DEF Leaves
  <2>4. \A i \in 1..Len(s) : s[i] = t => \E j \in 1..Len(u) : u[j] = t
    BY <2>1, <2>2, <2>3, TaskFollows
  <2> QED BY <2>1, <2>4, WaitsReplaced
<1>6. ASSUME NEW q \in DOMAIN work, Enabled(q) PROVE Waits(queues', t)
  <2>1. PICK s, u, r, g, bs : Replaced(q, s, u) /\ SyncHeads(s, u, r, g, bs)
    BY <1>6, EnabledView
  <2>2. Len(s) \in Nat /\ Len(u) \in Nat /\ s = queues[q]
    BY <2>1 DEF Replaced
  <2>3. s[1] # t
    BY <1>6, <2>2
  <2>4. Follows(u, Len(bs), s, r, {}) /\ Len(bs) \in Nat
    BY <2>1 DEF SyncHeads
  <2>5. \A i \in 1..Len(s) : s[i] = t => \E j \in 1..Len(u) : u[j] = t
    BY <2>2, <2>3, <2>4, TaskFollows
  <2> QED BY <2>1, <2>5, WaitsReplaced
<1>7. ASSUME NEW q \in DOMAIN work, Joined(q) PROVE Waits(queues', t)
  <2>1. PICK s, o, u, z, r, pick, row, col : Replaced(q, s, u) /\ JoinShape(s, o, u, z, r, pick, row, col)
    BY <1>7, JoinedView
  <2>2. Len(s) \in Nat /\ Len(u) \in Nat /\ Len(o) \in Nat
    BY <2>1, JoinLengths
  <2>3. Follows(u, 1, s, r, ToSet(o))
    BY <2>1, JoinParts
  <2>4. \A i \in 1..(Len(o) + 1) : s[i] # t
    <3>1. \A i \in 1..(Len(o) + 1) : s[i].kind = "HookRun"
      BY <2>1, JoinParts
    <3> QED BY <1>0, <3>1
  <2>5. s[1] # t
    BY <2>2, <2>4
  <2>6. t \notin ToSet(o)
    BY <1>0, <2>1, JoinLost
  <2>7. \A i \in 1..Len(s) : s[i] = t => \E j \in 1..Len(u) : u[j] = t
    BY <2>2, <2>3, <2>5, <2>6, TaskFollows
  <2> QED BY <2>1, <2>7, WaitsReplaced
<1>8. ASSUME NEW x \in EventTasks, Arrives(x) PROVE Waits(queues', t)
  <2>1. PICK q, s, u : Replaced(q, s, u) /\ Moved(s, u, x, tailTasks, tailTasks')
    BY <1>8, ArrivesView
  <2>2. Len(s) \in Nat /\ Len(u) \in Nat
    BY <2>1 DEF Replaced
  <2>3. \A i \in 1..Len(s) : s[i] = t => \E j \in 1..Len(u) : u[j] = t
    BY <2>1, <2>2 DEF Moved
  <2> QED BY <2>1, <2>3, WaitsReplaced
<1> QED BY <1>1, <1>2, <1>3, <1>4, <1>5, <1>6, <1>7, <1>8, Shapes

\* When a hook has no enabling task any more, its Synchronizations are queued.
LEMMA PendingEnds ==
    ASSUME TypeInv, PlaceInv, [Next]_vars, NEW h \in Hook,
           Pending("EnableKubernetesBindings", h), ~Pending("EnableKubernetesBindings", h)',
           NEW b \in SyncBindings(h), NEW c, c = Context(b, 0)
    PROVE  Near(c)'
<1>1. PICK t : t = EnableTask("EnableKubernetesBindings", h)
  OBVIOUS
<1>2. Waits(queues, t) /\ ~Waits(queues', t)
  BY <1>1, PendingIs
<1>3. b \in ToSet(Kube(h))
  BY DEF SyncBindings
<1>4. Kube(h) # << >>
  BY <1>3, EmptyFunction DEF ToSet
<1>5. PICK q \in DOMAIN work : Enabled(q) /\ queues[q][1] = t
  BY <1>1, <1>2, <1>4, WaitsOn
<1>6. PICK s, u, r, g, bs : Replaced(q, s, u) /\ SyncHeads(s, u, r, g, bs)
  BY <1>5, EnabledView
<1>7. s = queues[q] /\ queues'[q] = u /\ q \in DOMAIN queues' /\ Len(u) \in Nat
  BY <1>6 DEF Replaced
<1>8. g = h
  <2>1. EnableTask("EnableKubernetesBindings", g) = t
    BY <1>5, <1>6, <1>7 DEF SyncHeads
  <2> QED BY <1>1, <2>1, EnableTaskKind
<1>9. PICK i \in 1..Len(bs) : bs[i] = b
  BY <1>6, <1>8 DEF SyncHeads
<1>10. u[i] = BindingRun(b, 0, "main") /\ i \in 1..Len(u)
  <2>1. u[i] = BindingRun(b, 0, "main")
    BY <1>6, <1>9 DEF SyncHeads
  <2>2. Len(bs) \in 0..Len(u)
    BY <1>6 DEF SyncHeads, Follows
  <2> QED BY <1>7, <2>1, <2>2
<1>11. b \in KubeBindings
  BY <1>3, ConfigSeqs
<1>12. ToSet(BindingRun(b, 0, "main").ctxs) = {c}
  BY <1>11, SyncRunFields
<1>13. c \in Held(u)
  BY <1>10, <1>12, HeldIs
<1> QED BY <1>7, <1>13, NearBy

\* What is owed anew is near.
LEMMA OwedStep ==
    ASSUME TypeInv, PlaceInv, LinkInv, [Next]_vars, NEW c \in Owed', c \notin Owed
    PROVE  Near(c)'
<1>0. \/ c \in owed'
      \/ \E h \in Hook : ~Pending("EnableKubernetesBindings", h)' /\ \E b \in SyncBindings(h) : c = Context(b, 0)
      \/ stage' # "prepopulate" /\ \E h \in ToSet(StartupOrder) : c = Context(h, 0)
  BY DEF Owed
<1>1. CASE c \in owed'
  <2>0. c \notin owed
    BY DEF Owed
  <2>1. ASSUME NEW b \in KubeBindings, MonitorEvent(b) PROVE Near(c)'
    <3>1. PICK n \in Count, d \in Contexts : ToSet(kubeCh') = {d} /\ owed' = owed \union {d}
      BY <2>1, MonitorEventIs
    <3>2. c = d
      BY <1>1, <2>0, <3>1
    <3> QED BY <3>1, <3>2, NearBy
  <2>2. ASSUME NEW x \in Crontabs, CronFires(x) PROVE Near(c)'
    <3>1. PICK n \in Count :
             /\ Len(scheduleCh') = 1 /\ scheduleCh'[1].crontab = x /\ scheduleCh'[1].n = n
             /\ owed' = owed \union {Context(b, n) : b \in {y \in entries : BindingConfig[y].crontab = x}}
      BY <2>2, CronFiresIs
    <3>2. PICK b \in entries : BindingConfig[b].crontab = x /\ c = Context(b, n)
      BY <1>1, <2>0, <3>1
    <3>3. c.binding = b /\ c.n = n
      BY <3>2 DEF Context
    <3>4. b \in SchedBindings /\ b \in linked'
      BY <2>2 DEF TypeInv, EventInv, LinkInv, CronFires, startup
    <3>5. 1 \in DOMAIN scheduleCh'
      BY <2>2 DEF CronFires
    <3>6. Ticking(c)'
      BY <3>1, <3>2, <3>3, <3>4, <3>5, NearBy
    <3> QED BY <3>3, <3>4, <3>6, NearBy
  <2>3. CASE Still \/ Prepopulated \/ (\E q \in NamedQueues : QueueAdded(q)) \/ TakeKubeEvent
             \/ TakeScheduleEvent \/ (\E t \in EventTasks : Arrives(t))
             \/ \E q \in DOMAIN work : Leaves(q) \/ Enabled(q) \/ Joined(q)
    <3>1. owed' = owed
      BY <2>3 DEF Still, Prepopulated, QueueAdded, TakeKubeEvent, TakeScheduleEvent, Arrives,
                  Leaves, Enabled, Joined, unmoved
    <3> QED BY <1>1, <2>0, <3>1
  <2> QED BY <2>1, <2>2, <2>3, Shapes
<1>2. ASSUME NEW h \in Hook, ~Pending("EnableKubernetesBindings", h)', NEW b \in SyncBindings(h), c = Context(b, 0)
      PROVE  Near(c)'
  <2>1. Pending("EnableKubernetesBindings", h)
    BY <1>2 DEF Owed
  <2> QED BY <1>2, <2>1, PendingEnds
<1>3. ASSUME stage' # "prepopulate", NEW h \in ToSet(StartupOrder), c = Context(h, 0) PROVE Near(c)'
  <2>1. stage = "prepopulate"
    BY <1>3 DEF Owed
  <2>2. Prepopulated
    <3>1. ASSUME Still PROVE FALSE
      BY <1>3, <2>1, <3>1 DEF Still
    <3>2. ASSUME NEW q \in NamedQueues, QueueAdded(q) PROVE FALSE
      BY <2>1, <3>2 DEF QueueAdded
    <3>3. DOMAIN work = {} /\ tailTasks = << >>
      BY <2>1 DEF TypeInv, StageInv, QueuesOK
    <3>4. ASSUME NEW t \in EventTasks, Arrives(t) PROVE FALSE
      BY <3>3, <3>4 DEF Arrives
    <3>5. ASSUME TakeKubeEvent \/ TakeScheduleEvent PROVE FALSE
      BY <2>1, <3>5 DEF TakeKubeEvent, TakeScheduleEvent, HandlerReady
    <3>6. ASSUME (\E b \in KubeBindings : MonitorEvent(b)) \/ (\E x \in Crontabs : CronFires(x)) PROVE FALSE
      BY <1>3, <2>1, <3>6 DEF MonitorEvent, CronFires, startup
    <3> QED BY <3>1, <3>2, <3>3, <3>4, <3>5, <3>6, Shapes
  <2>3. "main" \in DOMAIN queues' /\ queues'["main"] = FirstTasks
    BY <2>2 DEF Prepopulated
  <2>4. c \in Held(FirstTasks)
    BY <1>3, FirstTasksHold
  <2> QED BY <2>3, <2>4, NearBy
<1> QED BY <1>0, <1>1, <1>2, <1>3

LEMMA OwedType == ASSUME TypeInv PROVE Owed \subseteq Contexts
<1>1. owed \subseteq Contexts
  BY DEF TypeInv, HistoryInv
<1>2. ASSUME NEW h \in Hook, NEW b \in SyncBindings(h) PROVE Context(b, 0) \in Contexts
  <2>1. b \in Bindings
    BY ConfigSeqs DEF SyncBindings, Bindings
  <2> QED BY <2>1, Bounds, ContextType
<1>3. ASSUME NEW h \in ToSet(StartupOrder) PROVE Context(h, 0) \in Contexts
  <2>1. h \in Hook
    BY HookNamesSeq, ElementsAre, ElementOfSeq
  <2> QED BY <2>1, Bounds, ContextType
<1> QED BY <1>1, <1>2, <1>3 DEF Owed

LEMMA LostInit == Init => LostInv
<1> SUFFICES ASSUME Init PROVE LostInv
  OBVIOUS
<1>1. DOMAIN queues = {} /\ DOMAIN heir = {}
  BY EmptyFunction DEF Init
<1>2. Owed = {}
  BY <1>1 DEF Init, Owed, Pending
<1> QED BY <1>1, <1>2 DEF LostInv

LEMMA LostStep == ASSUME TypeInv, PlaceInv, LinkInv, LostInv, [Next]_vars PROVE LostInv'
<1>0. /\ \A c \in Owed : Near(c) \/ c \in DOMAIN heir
      /\ \A c \in DOMAIN heir : SameKind(heir[c], c) /\ Near(heir[c])
  BY DEF LostInv
<1>t. DOMAIN heir \subseteq Contexts /\ \A c \in DOMAIN heir : heir[c] \in Contexts
  BY DEF TypeInv, HistoryInv
<1>1. ASSUME NEW q \in DOMAIN work, Joined(q) PROVE LostInv'
  <2>1. PICK z : /\ heir' = NewHeirs(z)
                 /\ \A c \in Gone(z) : Near(c)
                 /\ \A c, d : Near(c) /\ d = Stands(z, c) => Near(d)' /\ SameKind(d, c)
    BY <1>1, NearJoined
  <2>2. /\ DOMAIN heir' = DOMAIN heir \union Gone(z)
        /\ \A c \in DOMAIN heir : heir'[c] = Stands(z, heir[c])
        /\ \A c \in Gone(z) : c \notin DOMAIN heir => heir'[c] = Stands(z, c)
    BY <2>1, NewHeirOf
  <2>3. ASSUME NEW c \in Owed' PROVE Near(c)' \/ c \in DOMAIN heir'
    <3>1. CASE c \notin Owed
      BY <3>1, OwedStep
    <3>2. CASE c \in Owed /\ c \notin DOMAIN heir'
      <4>1. Near(c) /\ c \notin Gone(z)
        BY <1>0, <2>2, <3>2
      <4>2. c = Stands(z, c)
        BY <4>1 DEF Stands
      <4> QED BY <2>1, <4>1, <4>2
    <3> QED BY <3>1, <3>2
  <2>4. ASSUME NEW c \in DOMAIN heir', NEW d, d = heir'[c] PROVE SameKind(d, c) /\ Near(d)'
    <3>1. CASE c \in DOMAIN heir
      <4>1. PICK e : e = heir[c] /\ Near(e) /\ SameKind(e, c)
        BY <1>0, <3>1
      <4>2. d = Stands(z, e)
        BY <2>2, <2>4, <3>1, <4>1
      <4>3. Near(d)' /\ SameKind(d, e)
        BY <2>1, <4>1, <4>2
      <4> QED BY <4>1, <4>3 DEF SameKind
    <3>2. CASE c \notin DOMAIN heir
      <4>1. c \in Gone(z) /\ d = Stands(z, c)
        BY <2>2, <2>4, <3>2
      <4> QED BY <2>1, <4>1
    <3> QED BY <3>1, <3>2
  <2>5. (\A c \in DOMAIN heir : SameKind(heir[c], c) /\ Near(heir[c]))'
    BY <2>4 DEF Near, Ticking
  <2> QED BY <2>3, <2>5 DEF LostInv
<1>2. ASSUME \A q \in DOMAIN work : ~Joined(q) PROVE LostInv'
  <2>1. heir' = heir
    BY <1>2, Shapes DEF Prepopulated, Still, QueueAdded, Leaves, Enabled, Arrives, TakeKubeEvent,
                        TakeScheduleEvent, MonitorEvent, CronFires, results
  <2>2. ASSUME NEW c \in Owed' PROVE Near(c)' \/ c \in DOMAIN heir'
    <3>1. CASE c \notin Owed
      BY <3>1, OwedStep
    <3>2. CASE c \in Owed
      <4>1. c \in Contexts
        BY <3>2, OwedType
      <4> QED BY <1>0, <1>2, <2>1, <3>2, <4>1, NearKept
    <3> QED BY <3>1, <3>2
  <2>3. ASSUME NEW c \in DOMAIN heir', NEW d, d = heir'[c] PROVE SameKind(d, c) /\ Near(d)'
    <3>1. SameKind(d, c) /\ Near(d) /\ d \in Contexts
      BY <1>0, <1>t, <2>1, <2>3
    <3> QED BY <1>2, <3>1, NearKept
  <2>4. (\A c \in DOMAIN heir : SameKind(heir[c], c) /\ Near(heir[c]))'
    BY <2>3 DEF Near, Ticking
  <2> QED BY <2>2, <2>4 DEF LostInv
<1> QED BY <1>1, <1>2

LEMMA LostFound == TypeInv /\ LostInv => NoContextLost
<1> SUFFICES ASSUME TypeInv, LostInv PROVE NoContextLost
  OBVIOUS
<1>1. \A c : c \in Held(tailTasks) => c \in ToSet(ContextsOf(tailTasks))
  <2>1. EventTasks \subseteq GoodTasks
    BY DEF EventTasks
  <2>2. tailTasks \in Seq(GoodTasks)
    BY <2>1, SeqMonotonic DEF TypeInv, EventInv
  <2> QED BY <2>2, HeldIs, ContextsOfType
<1>2. \A q \in DOMAIN queues : \A c : c \in Held(queues[q]) => c \in ToSet(Queued(q))
  <2> SUFFICES ASSUME NEW q \in DOMAIN queues, NEW c, c \in Held(queues[q]) PROVE c \in ToSet(Queued(q))
    OBVIOUS
  <2>1. PICK s \in Seq(GoodTasks) : s = queues[q]
    BY QueueType
  <2>2. c \in ToSet(ContextsOf(s))
    BY <2>1, HeldIs, ContextsOfType
  <2> QED BY <2>1, <2>2 DEF Queued
<1>3. ASSUME NEW c, Near(c) PROVE InFlight(c) \/ Handled(c)
  <2>1. CASE c \in ToSet(kubeCh) \/ Ticking(c) \/ c \in Held(tailTasks)
    BY <1>1, <2>1 DEF InFlight
  <2>2. CASE \E q \in DOMAIN queues : c \in Held(queues[q])
    BY <1>2, <2>2 DEF InFlight, InQueue
  <2>3. CASE c \in done \union dropped
    BY <2>3 DEF Handled
  <2> QED BY <1>3, <2>1, <2>2, <2>3 DEF Near
<1>4. ASSUME NEW c \in Owed
      PROVE  \/ InFlight(c) \/ Handled(c)
             \/ /\ c \in DOMAIN heir
                /\ Group(heir[c]) = Group(c) /\ HookOf(heir[c].binding) = HookOf(c.binding)
                /\ InFlight(heir[c]) \/ Handled(heir[c])
  <2>1. CASE Near(c)
    BY <1>3, <2>1
  <2>2. CASE c \in DOMAIN heir
    <3>1. PICK d : d = heir[c] /\ SameKind(d, c) /\ Near(d)
      BY <2>2 DEF LostInv
    <3>2. InFlight(d) \/ Handled(d)
      BY <1>3, <3>1
    <3> QED BY <2>2, <3>1, <3>2 DEF SameKind
  <2> QED BY <2>1, <2>2 DEF LostInv
<1> QED BY <1>4 DEF NoContextLost

\* Whatever the hooks and bindings are: what a monitor, a crontab or the start
\* owes a hook is on its way to it, was handled, or is represented by a context
\* of the same group and hook; nothing between the channels, the queues that
\* are made late, the combination of tasks and the retries loses it.
THEOREM NoContextLostAlways == Spec => []NoContextLost
<1> DEFINE Inv == TypeInv /\ PlaceInv /\ LinkInv /\ LostInv
<1>1. Init => Inv
  BY InitType, PlaceInit, LinkInit, LostInit
<1>2. Inv /\ [Next]_vars => Inv'
  BY TypeStep, PlaceStep, LinkStep, LostStep
<1>3. Inv => NoContextLost
  BY LostFound
<1> QED BY <1>1, <1>2, <1>3, PTL DEF Spec

-----------------------------------------------------------------------------
(* LineInv: no context comes by two ways, and none is overtaken.           *)

\* A task behind the new ones of a queue was there before.
LEMMA FollowsOld ==
    ASSUME NEW u, NEW k, NEW s, NEW r, NEW lost, Follows(u, k, s, r, lost),
           Len(u) \in Nat, Len(s) \in Nat, k \in Nat, NEW j \in (k + 1)..Len(u)
    PROVE  r[j] \in 1..Len(s) /\ r[j] \in 2..Len(s) /\ u[j] = s[r[j]]
<1>1. r[j] \in 2..Len(s) /\ u[j] = s[r[j]]
  BY DEF Follows
<1> QED BY <1>1

LEMMA WaitsNever ==
    ASSUME NEW q, NEW s, NEW u, Replaced(q, s, u), NEW t, ~Waits(queues, t),
           q = "main" => \A j \in 1..Len(u) : u[j] = t => \E i \in 1..Len(s) : s[i] = t
    PROVE  ~Waits(queues', t)
<1>1. "main" \in DOMAIN queues /\ \A i \in 1..Len(queues["main"]) : queues["main"][i] # t
  BY DEF Waits
<1>2. CASE q = "main"
  BY <1>1, <1>2 DEF Waits, Replaced
<1>3. CASE q # "main"
  BY <1>1, <1>3 DEF Waits, Replaced
<1> QED BY <1>2, <1>3

\* No enabling task comes back.
LEMMA PendingNever ==
    ASSUME TypeInv, PlaceInv, [Next]_vars, NEW k \in {"EnableKubernetesBindings", "EnableScheduleBindings"},
           NEW h, ~Pending(k, h)
    PROVE  ~Pending(k, h)'
<1>0. PICK t : t = EnableTask(k, h) /\ t.kind # "HookRun"
  BY EnableTaskKind
<1>1. ~Waits(queues, t)
  BY <1>0, PendingIs
<1>2. "main" \in DOMAIN queues
  BY <1>1 DEF Waits
<1> SUFFICES ~Waits(queues', t)
  BY <1>0, PendingIs
<1>3. ASSUME Prepopulated PROVE FALSE
  BY <1>2, <1>3 DEF Prepopulated
<1>4. CASE Still \/ TakeKubeEvent \/ TakeScheduleEvent
  <2>1. queues' = queues
    BY <1>4 DEF Still, TakeKubeEvent, TakeScheduleEvent
  <2> QED BY <1>1, <2>1
<1>5. CASE (\E b \in KubeBindings : MonitorEvent(b)) \/ (\E x \in Crontabs : CronFires(x))
  <2>1. queues' = queues
    BY <1>5 DEF MonitorEvent, CronFires
  <2> QED BY <1>1, <2>1
<1>6. ASSUME NEW q \in NamedQueues, QueueAdded(q) PROVE ~Waits(queues', t)
  BY <1>1, <1>6 DEF QueueAdded, Waits
<1>7. ASSUME NEW q \in DOMAIN work, Leaves(q) PROVE ~Waits(queues', t)
  <2>1. PICK s, u, r : Replaced(q, s, u) /\ Follows(u, 0, s, r, {})
    BY <1>7, LeavesView
  <2>2. Len(s) \in Nat /\ Len(u) \in Nat
    BY <2>1 DEF Replaced
  <2>3. \A j \in 1..Len(u) : u[j] = t => \E i \in 1..Len(s) : s[i] = t
    BY <2>1, <2>2, FollowsOld
  <2> QED BY <1>1, <2>1, <2>3, WaitsNever
<1>8. ASSUME NEW q \in DOMAIN work, Enabled(q) PROVE ~Waits(queues', t)
  <2>1. PICK s, u, r, g, bs : Replaced(q, s, u) /\ SyncHeads(s, u, r, g, bs)
    BY <1>8, EnabledView
  <2>2. Len(s) \in Nat /\ Len(u) \in Nat
    BY <2>1 DEF Replaced
  <2>3. PICK m \in Nat : m = Len(bs) /\ Follows(u, m, s, r, {})
    BY <2>1 DEF SyncHeads
  <2>4. ASSUME NEW j \in 1..Len(u), u[j] = t PROVE \E i \in 1..Len(s) : s[i] = t
    <3>1. CASE j \in 1..m
      <4>1. PICK b \in KubeBindings : u[j] = BindingRun(b, 0, "main")
        BY <2>1, <2>3, <3>1 DEF SyncHeads
      <4>2. BindingRun(b, 0, "main").kind = "HookRun"
        BY SyncRunFields
      <4> QED BY <1>0, <2>4, <4>1, <4>2
    <3>2. CASE j \in (m + 1)..Len(u)
      BY <2>2, <2>3, <2>4, <3>2, FollowsOld
    <3> QED BY <2>2, <3>1, <3>2
  <2> QED BY <1>1, <2>1, <2>4, WaitsNever
<1>9. ASSUME NEW q \in DOMAIN work, Joined(q) PROVE ~Waits(queues', t)
  <2>1. PICK s, o, u, z, r, pick, row, col : Replaced(q, s, u) /\ JoinShape(s, o, u, z, r, pick, row, col)
    BY <1>9, JoinedView
  <2>2. Len(s) \in Nat /\ Len(u) \in Nat
    BY <2>1, JoinLengths
  <2>3. Follows(u, 1, s, r, ToSet(o)) /\ u[1].kind = "HookRun"
    BY <2>1, Zenon DEF JoinShape
  <2>4. ASSUME NEW j \in 1..Len(u), u[j] = t PROVE \E i \in 1..Len(s) : s[i] = t
    <3>1. j \in (1 + 1)..Len(u)
      BY <1>0, <2>2, <2>3, <2>4
    <3> QED BY <2>2, <2>3, <2>4, <3>1, FollowsOld
  <2> QED BY <1>1, <2>1, <2>4, WaitsNever
<1>10. ASSUME NEW x \in EventTasks, Arrives(x) PROVE ~Waits(queues', t)
  <2>1. PICK q, s, u : Replaced(q, s, u) /\ Moved(s, u, x, tailTasks, tailTasks')
    BY <1>10, ArrivesView
  <2>2. Len(s) \in Nat /\ Len(u) \in Nat /\ x.kind = "HookRun"
    BY <2>1 DEF Replaced, EventTasks
  <2>3. ASSUME NEW j \in 1..Len(u), u[j] = t PROVE \E i \in 1..Len(s) : s[i] = t
    <3>1. CASE j = Len(s) + 1
      BY <1>0, <2>1, <2>2, <2>3, <3>1 DEF Moved
    <3>2. CASE j # Len(s) + 1
      <4>1. j \in 1..Len(s)
        BY <2>1, <2>2, <3>2 DEF Moved
      <4> QED BY <2>1, <2>3, <4>1 DEF Moved
    <3> QED BY <3>1, <3>2
  <2> QED BY <1>1, <2>1, <2>3, WaitsNever
<1> QED BY <1>3, <1>4, <1>5, <1>6, <1>7, <1>8, <1>9, <1>10, Shapes

LEMMA NamesApart ==
    /\ KubeBindings \intersect SchedBindings = {} /\ KubeBindings \intersect Crontabs = {}
    /\ Hook \intersect Bindings = {}
<1>1. KubeBindings \intersect (SchedBindings \union Crontabs) = {}
  BY ShellOperatorAssumption
<1>2. Hook \intersect Bindings = {}
  BY ShellOperatorAssumption
<1> QED BY <1>1, <1>2

\* The shapes of steps at which no event comes into a channel.
LEMMA NoEmission ==
    ASSUME TypeInv, [Next]_vars, \A b \in KubeBindings : ~MonitorEvent(b), \A x \in Crontabs : ~CronFires(x)
    PROVE  /\ emitted' = emitted
           /\ kubeCh' = kubeCh \/ kubeCh' = << >>
           /\ scheduleCh' = scheduleCh \/ scheduleCh' = << >>
<1>1. CASE TakeKubeEvent
  <2>1. EventInv /\ kubeCh # << >>
    BY <1>1 DEF TypeInv, TakeKubeEvent
  <2>2. kubeCh' = << >>
    BY <1>1, <2>1, KubeHead DEF TakeKubeEvent
  <2> QED BY <1>1, <2>2 DEF TakeKubeEvent
<1>2. CASE TakeScheduleEvent
  <2>1. EventInv /\ scheduleCh # << >>
    BY <1>2 DEF TypeInv, TakeScheduleEvent
  <2>2. scheduleCh' = << >>
    BY <1>2, <2>1, ScheduleHead DEF TakeScheduleEvent
  <2> QED BY <1>2, <2>2 DEF TakeScheduleEvent
<1>3. CASE Still \/ Prepopulated \/ (\E q \in NamedQueues : QueueAdded(q)) \/ (\E t \in EventTasks : Arrives(t))
           \/ \E q \in DOMAIN work : Leaves(q) \/ Enabled(q) \/ Joined(q)
  BY <1>3 DEF Still, Prepopulated, QueueAdded, Arrives, Leaves, Enabled, Joined, unmoved
<1> QED BY <1>1, <1>2, <1>3, Shapes

LEMMA EmittedType ==
    ASSUME TypeInv
    PROVE  \A x \in KubeBindings \union Crontabs : emitted[x] \in Nat
<1> QED BY Bounds DEF TypeInv, EventInv

LEMMA ChannelStep == ASSUME TypeInv, ChannelInv, [Next]_vars PROVE ChannelInv'
<1>0. /\ \A i \in 1..Len(kubeCh) : kubeCh[i].n = emitted[kubeCh[i].binding]
      /\ \A i \in 1..Len(scheduleCh) : scheduleCh[i].n = emitted[scheduleCh[i].crontab]
  BY DEF ChannelInv
<1>t. /\ \A i \in 1..Len(kubeCh) : kubeCh[i].binding \in KubeBindings
      /\ \A i \in 1..Len(scheduleCh) : scheduleCh[i].crontab \in Crontabs
  <2>1. \A i \in 1..Len(scheduleCh) : scheduleCh[i] \in Fires
    BY ElementOfSeq DEF TypeInv, EventInv
  <2> QED BY <2>1 DEF TypeInv, EventInv, Fires
<1>1. ASSUME NEW b \in KubeBindings, MonitorEvent(b) PROVE ChannelInv'
  <2>1. PICK n \in Count, c \in Contexts :
           /\ c.binding = b /\ c.n = n /\ Len(kubeCh') = 1 /\ kubeCh'[1] = c /\ emitted'[b] = n
           /\ \A x \in KubeBindings \union Crontabs : x # b => emitted'[x] = emitted[x]
    BY <1>1, MonitorEventIs
  <2>2. scheduleCh' = scheduleCh
    BY <1>1 DEF MonitorEvent
  <2>3. \A i \in 1..Len(kubeCh') : kubeCh'[i].n = emitted'[kubeCh'[i].binding]
    BY <2>1
  <2>4. \A i \in 1..Len(scheduleCh') : scheduleCh'[i].n = emitted'[scheduleCh'[i].crontab]
    BY <1>0, <1>t, <2>1, <2>2, NamesApart
  <2> QED BY <2>3, <2>4 DEF ChannelInv
<1>2. ASSUME NEW x \in Crontabs, CronFires(x) PROVE ChannelInv'
  <2>1. PICK n \in Count :
           /\ Len(scheduleCh') = 1 /\ scheduleCh'[1].crontab = x /\ scheduleCh'[1].n = n /\ emitted'[x] = n
           /\ \A y \in KubeBindings \union Crontabs : y # x => emitted'[y] = emitted[y]
    BY <1>2, CronFiresIs
  <2>2. kubeCh' = kubeCh
    BY <1>2 DEF CronFires
  <2>3. \A i \in 1..Len(kubeCh') : kubeCh'[i].n = emitted'[kubeCh'[i].binding]
    BY <1>0, <1>t, <2>1, <2>2, NamesApart
  <2>4. \A i \in 1..Len(scheduleCh') : scheduleCh'[i].n = emitted'[scheduleCh'[i].crontab]
    BY <2>1
  <2> QED BY <2>3, <2>4 DEF ChannelInv
<1>3. CASE (\A b \in KubeBindings : ~MonitorEvent(b)) /\ (\A x \in Crontabs : ~CronFires(x))
  <2>1. /\ emitted' = emitted /\ (kubeCh' = kubeCh \/ kubeCh' = << >>)
        /\ (scheduleCh' = scheduleCh \/ scheduleCh' = << >>)
    BY <1>3, NoEmission
  <2>2. Len(<< >>) = 0
    OBVIOUS
  <2> QED BY <1>0, <2>1, <2>2 DEF ChannelInv
<1> QED BY <1>1, <1>2, <1>3

\* What is new in a channel has a new number, and the numbers grow.
LEMMA NewNumbers ==
    ASSUME TypeInv, [Next]_vars
    PROVE  /\ \A x \in KubeBindings \union Crontabs : emitted'[x] \in Nat /\ emitted[x] <= emitted'[x]
           /\ \A c \in ToSet(kubeCh') : c \notin ToSet(kubeCh) =>
                 c.binding \in KubeBindings /\ c.n = emitted[c.binding] + 1
           /\ \A c : Ticking(c)' /\ ~Ticking(c) =>
                 c.binding \in SchedBindings /\ c.n = emitted[BindingConfig[c.binding].crontab] + 1
<1>0. \A x \in KubeBindings \union Crontabs : emitted[x] \in Nat
  BY EmittedType
<1>e. ToSet(<< >>) = {} /\ DOMAIN << >> = {}
  BY EmptyFunction DEF ToSet
<1>1. CASE \E b \in KubeBindings : MonitorEvent(b)
  <2>1. PICK b \in KubeBindings : MonitorEvent(b)
    BY <1>1
  <2>2. PICK n \in Count, c \in Contexts :
           /\ n = emitted[b] + 1 /\ c.binding = b /\ c.n = n /\ ToSet(kubeCh') = {c} /\ emitted'[b] = n
           /\ \A x \in KubeBindings \union Crontabs : x # b => emitted'[x] = emitted[x]
    BY <2>1, MonitorEventIs
  <2>3. scheduleCh' = scheduleCh
    BY <2>1 DEF MonitorEvent
  <2>4. \A d : Ticking(d)' <=> Ticking(d)
    BY <2>3 DEF Ticking
  <2>5. \A x \in KubeBindings \union Crontabs : emitted'[x] \in Nat /\ emitted[x] <= emitted'[x]
    BY <1>0, <2>2
  <2> QED BY <2>2, <2>4, <2>5
<1>2. CASE \E x \in Crontabs : CronFires(x)
  <2>1. PICK x \in Crontabs : CronFires(x)
    BY <1>2
  <2>2. PICK n \in Count :
           /\ n = emitted[x] + 1 /\ Len(scheduleCh') = 1 /\ scheduleCh'[1].crontab = x /\ scheduleCh'[1].n = n
           /\ emitted'[x] = n /\ \A y \in KubeBindings \union Crontabs : y # x => emitted'[y] = emitted[y]
    BY <2>1, CronFiresIs
  <2>3. kubeCh' = kubeCh
    BY <2>1 DEF CronFires
  <2>4. DOMAIN scheduleCh' = {1}
    BY <2>1 DEF CronFires
  <2>5. \A d : Ticking(d)' => d.binding \in SchedBindings /\ d.n = emitted[BindingConfig[d.binding].crontab] + 1
    BY <2>2, <2>4, NearBy
  <2>6. \A y \in KubeBindings \union Crontabs : emitted'[y] \in Nat /\ emitted[y] <= emitted'[y]
    BY <1>0, <2>2
  <2> QED BY <2>3, <2>5, <2>6
<1>3. CASE (\A b \in KubeBindings : ~MonitorEvent(b)) /\ (\A x \in Crontabs : ~CronFires(x))
  <2>1. /\ emitted' = emitted /\ (kubeCh' = kubeCh \/ kubeCh' = << >>)
        /\ (scheduleCh' = scheduleCh \/ scheduleCh' = << >>)
    BY <1>3, NoEmission
  <2>2. \A d : Ticking(d)' => Ticking(d)
    BY <1>e, <2>1 DEF Ticking
  <2>3. \A d \in ToSet(kubeCh') : d \in ToSet(kubeCh)
    BY <1>e, <2>1
  <2>4. \A x \in KubeBindings \union Crontabs : emitted'[x] \in Nat /\ emitted[x] <= emitted'[x]
    BY <1>0, <2>1
  <2> QED BY <2>2, <2>3, <2>4
<1> QED BY <1>1, <1>2, <1>3

LEMMA ContextFields ==
    ASSUME NEW c \in Contexts
    PROVE  /\ c.binding \in Bindings \union Hook /\ c.n \in Nat /\ c.n \in Count
           /\ c = Context(c.binding, c.n)
<1>1. c.binding \in Bindings \union Hook /\ c.n \in Count
  BY DEF Contexts, Count
<1>2. c = Context(c.binding, c.n)
  BY DEF Contexts, Context
<1> QED BY <1>1, <1>2, Bounds

LEMMA KnownBy ==
    ASSUME NEW c
    PROVE  Known(c)' <=>
              /\ c.binding \in Hook => c.n = 0 /\ stage' # "prepopulate"
              /\ c.binding \notin Hook /\ c.n = 0 =>
                    /\ c.binding \in KubeBindings
                    /\ ~Pending("EnableKubernetesBindings", HookOf(c.binding))'
              /\ c.n # 0 /\ c.binding \in KubeBindings => c.n <= emitted'[c.binding] /\ c \notin ToSet(kubeCh')
              /\ c.n # 0 /\ c.binding \in SchedBindings =>
                    c.n <= emitted'[BindingConfig[c.binding].crontab] /\ ~Ticking(c)'
<1> QED BY DEF Known, Pending, Ticking

\* What is known stays so.
LEMMA KnownKept ==
    ASSUME TypeInv, PlaceInv, [Next]_vars, NEW c \in Contexts, Known(c)
    PROVE  Known(c)'
<1>0. c.n \in Nat /\ c.binding \in Bindings \union Hook
  BY ContextFields
<1>k. /\ c.binding \in Hook => c.n = 0 /\ stage # "prepopulate"
      /\ c.binding \notin Hook /\ c.n = 0 =>
            c.binding \in KubeBindings /\ ~Pending("EnableKubernetesBindings", HookOf(c.binding))
      /\ c.n # 0 /\ c.binding \in KubeBindings => c.n <= emitted[c.binding] /\ c \notin ToSet(kubeCh)
      /\ c.n # 0 /\ c.binding \in SchedBindings =>
            c.n <= emitted[BindingConfig[c.binding].crontab] /\ ~Ticking(c)
  BY DEF Known
<1>1. stage # "prepopulate" => stage' # "prepopulate"
  BY Shapes DEF Prepopulated, Still, QueueAdded, Leaves, Enabled, Joined, Arrives, TakeKubeEvent,
                TakeScheduleEvent, MonitorEvent, CronFires, startup, unmoved
<1>2. c.binding \notin Hook /\ c.n = 0 =>
         c.binding \in KubeBindings /\ ~Pending("EnableKubernetesBindings", HookOf(c.binding))'
  <2> SUFFICES ASSUME c.binding \notin Hook, c.n = 0
               PROVE  c.binding \in KubeBindings /\ ~Pending("EnableKubernetesBindings", HookOf(c.binding))'
    OBVIOUS
  <2>1. PICK h : h = HookOf(c.binding)
    OBVIOUS
  <2>2. c.binding \in KubeBindings /\ ~Pending("EnableKubernetesBindings", h)
    BY <1>k, <2>1
  <2>3. ~Pending("EnableKubernetesBindings", h)'
    BY <2>2, PendingNever
  <2> QED BY <2>1, <2>2, <2>3 DEF Pending
<1>3. ASSUME c.n # 0, c.binding \in KubeBindings
      PROVE  c.n <= emitted'[c.binding] /\ c \notin ToSet(kubeCh')
  <2>1. PICK e \in Nat, f \in Nat : e = emitted[c.binding] /\ f = emitted'[c.binding] /\ e <= f
    BY <1>3, EmittedType, NewNumbers
  <2>2. c.n <= e /\ c \notin ToSet(kubeCh)
    BY <1>3, <1>k, <2>1
  <2>3. c.n # e + 1
    BY <1>0, <2>2
  <2>4. c \notin ToSet(kubeCh')
    BY <2>1, <2>2, <2>3, NewNumbers
  <2> QED BY <1>0, <2>1, <2>2, <2>4
<1>4. ASSUME c.n # 0, c.binding \in SchedBindings
      PROVE  c.n <= emitted'[BindingConfig[c.binding].crontab] /\ ~Ticking(c)'
  <2>0. PICK x \in Crontabs : x = BindingConfig[c.binding].crontab
    BY <1>4 DEF Crontabs
  <2>1. PICK e \in Nat, f \in Nat : e = emitted[x] /\ f = emitted'[x] /\ e <= f
    BY EmittedType, NewNumbers
  <2>2. c.n <= e /\ ~Ticking(c)
    BY <1>4, <1>k, <2>0, <2>1
  <2>3. c.n # e + 1
    BY <1>0, <2>2
  <2>4. ~Ticking(c)'
    BY <2>0, <2>1, <2>2, <2>3, NewNumbers
  <2> QED BY <1>0, <2>0, <2>1, <2>2, <2>4
<1> QED BY <1>1, <1>2, <1>3, <1>4, <1>k, KnownBy

LEMMA HeldType == ASSUME NEW s \in Seq(GoodTasks) PROVE Held(s) \subseteq Contexts
<1> SUFFICES ASSUME NEW c \in Held(s) PROVE c \in Contexts
  OBVIOUS
<1>1. PICK i \in 1..Len(s) : c \in ToSet(s[i].ctxs)
  BY HeldIs
<1>2. s[i] \in GoodTasks
  BY ElementOfSeq
<1>3. PICK y \in Seq(Contexts) : y = s[i].ctxs
  BY <1>2, TaskFields DEF GoodTasks
<1>4. PICK j \in 1..Len(y) : y[j] = c
  BY <1>1, <1>3, ElementsAre
<1> QED BY <1>4, ElementOfSeq

LEMMA TailType ==
    ASSUME TypeInv
    PROVE  tailTasks \in Seq(GoodTasks) /\ Held(tailTasks) \subseteq Contexts
<1>1. EventTasks \subseteq GoodTasks
  BY DEF EventTasks
<1>2. PICK s \in Seq(GoodTasks) : s = tailTasks
  BY <1>1, SeqMonotonic DEF TypeInv, EventInv
<1> QED BY <1>2, HeldType

LEMMA QueueHeldType == ASSUME TypeInv, NEW q \in DOMAIN queues PROVE Held(queues[q]) \subseteq Contexts
<1>1. PICK s \in Seq(GoodTasks) : s = queues[q]
  BY QueueType
<1> QED BY <1>1, HeldType

\* A context in a queue was put there because of its binding.
LEMMA HeldRouted ==
    ASSUME TypeInv, PlaceInv, NEW q \in DOMAIN queues, NEW c \in Held(queues[q])
    PROVE  Routed(c, q) \/ (c.binding \in Hook /\ c.n = 0)
<1>1. PICK s \in Seq(GoodTasks) : s = queues[q]
  BY QueueType
<1>2. PICK i \in 1..Len(s) : c \in ToSet(s[i].ctxs) /\ Belongs(s[i], q)
  BY <1>1, HeldIs DEF PlaceInv
<1>3. PICK t \in GoodTasks : t = s[i]
  BY ElementOfSeq
<1>4. CASE t.kind = "HookRun" /\ \A d \in ToSet(t.ctxs) : Routed(d, q)
  BY <1>2, <1>3, <1>4
<1>5. CASE t.kind = "HookRun" /\ t.queue = ""
  <2>1. t.ctxs = <<Context(t.hook, 0)>> /\ t.hook \in Hook
    <3>1. RunOf(t) /\ t \in Tasks
      BY <1>5 DEF GoodTasks
    <3> QED BY <1>5, <3>1, TaskFields DEF RunOf
  <2>2. PICK d \in Contexts : d = Context(t.hook, 0) /\ d.binding = t.hook /\ d.n = 0
    BY <2>1, Bounds, ContextType
  <2>3. ToSet(<<d>>) = {d}
    BY OneContext
  <2>4. t.ctxs = <<d>>
    BY <2>1, <2>2
  <2> QED BY <1>2, <1>3, <2>1, <2>2, <2>3, <2>4
<1>6. CASE t.kind # "HookRun"
  <2>1. t.ctxs = << >>
    BY <1>6, GoodEnable
  <2>2. ToSet(<< >>) = {}
    BY EmptyFunction DEF ToSet
  <2> QED BY <1>2, <1>3, <2>1, <2>2
<1> QED BY <1>2, <1>3, <1>4, <1>5, <1>6 DEF Belongs

\* Contexts of different queues are not in each other's way.
LEMMA OtherQueue ==
    ASSUME TypeInv, PlaceInv, NEW p \in DOMAIN queues, NEW q \in DOMAIN queues, p # q,
           NEW c \in Held(queues[p]), NEW d \in Held(queues[q]), c # d
    PROVE  Prec(d, c)
<1>1. c \in Contexts /\ d \in Contexts
  BY QueueHeldType
<1>2. c.n \in Nat /\ d.n \in Nat
  BY <1>1, ContextFields
<1>3. Routed(c, p) \/ (c.binding \in Hook /\ c.n = 0)
  BY HeldRouted
<1>4. Routed(d, q) \/ (d.binding \in Hook /\ d.n = 0)
  BY HeldRouted
<1>5. ASSUME c.binding = d.binding, c.n # 0 PROVE d.n < c.n
  <2>1. p = BindingConfig[c.binding].queue
    BY <1>3, <1>5 DEF Routed
  <2>2. d.n # 0 => q = BindingConfig[c.binding].queue
    BY <1>4, <1>5 DEF Routed
  <2>3. d.n = 0
    BY <2>1, <2>2
  <2> QED BY <1>2, <1>5, <2>3
<1> QED BY <1>5 DEF Prec

LEMMA OpenBy ==
    ASSUME NEW c
    PROVE  Open(c)' <=> Known(c)' /\ c \notin DOMAIN heir' /\ \A d \in done' \union dropped' : Prec(d, c)
<1> QED BY DEF Open, Known, Pending, Ticking

LEMMA OpenKept ==
    ASSUME TypeInv, PlaceInv, [Next]_vars, NEW c \in Contexts, Open(c), c \notin DOMAIN heir',
           \A d \in done' \union dropped' : d \in done \union dropped \/ Prec(d, c)
    PROVE  Open(c)'
<1>1. Known(c) /\ \A d \in done \union dropped : Prec(d, c)
  BY DEF Open
<1>2. Known(c)'
  BY <1>1, KnownKept
<1> QED BY <1>1, <1>2, OpenBy

LEMMA LineParts ==
    ASSUME LineInv
    PROVE  /\ ChannelInv /\ InLine(tailTasks)
           /\ \A q \in DOMAIN queues : InLine(queues[q]) /\ EnableOnce(queues[q])
           /\ \A q \in DOMAIN queues : \A c \in Held(queues[q]) :
                 /\ Open(c) /\ Known(c)
                 /\ \A d \in Held(tailTasks) : Prec(c, d)
                 /\ \A p \in DOMAIN queues : p # q => c \notin Held(queues[p])
           /\ \A c \in Held(tailTasks) : Open(c) /\ Known(c)
           /\ \A c \in done \union dropped \union DOMAIN heir : Known(c)
<1>1. \A c : Open(c) => Known(c)
  BY DEF Open
<1> QED BY <1>1 DEF LineInv

LEMMA HistoryType ==
    ASSUME TypeInv PROVE done \union dropped \union DOMAIN heir \subseteq Contexts
<1> QED BY DEF TypeInv, HistoryInv

\* The queue of q becomes u: what is to be shown.
LEMMA LineReplaced ==
    ASSUME LineInv, NEW q, NEW s, NEW u, Replaced(q, s, u),
           ChannelInv', InLine(u), EnableOnce(u), InLine(tailTasks'),
           \A c \in Held(u) : Open(c)' /\ \A d \in Held(tailTasks') : Prec(c, d),
           \A p \in DOMAIN queues : p # q =>
              \A c \in Held(queues[p]) : c \notin Held(u) /\ Open(c)' /\ \A d \in Held(tailTasks') : Prec(c, d),
           \A c \in Held(tailTasks') : Open(c)',
           \A c \in done' \union dropped' \union DOMAIN heir' : Known(c)'
    PROVE  LineInv'
<1>1. /\ q \in DOMAIN queues' /\ queues'[q] = u /\ DOMAIN queues' = DOMAIN queues
      /\ \A p \in DOMAIN queues : p # q => queues'[p] = queues[p]
  BY DEF Replaced
<1>2. \A p \in DOMAIN queues' : InLine(queues'[p]) /\ EnableOnce(queues'[p])
  BY <1>1, LineParts
<1>3. ASSUME NEW p \in DOMAIN queues', NEW c \in Held(queues'[p])
      PROVE  /\ Open(c)' /\ \A d \in Held(tailTasks') : Prec(c, d)
             /\ \A x \in DOMAIN queues' : x # p => c \notin Held(queues'[x])
  <2>1. CASE p = q
    BY <1>1, <1>3, <2>1
  <2>2. CASE p # q
    <3>1. c \in Held(queues[p]) /\ p \in DOMAIN queues
      BY <1>1, <1>3, <2>2
    <3>2. \A x \in DOMAIN queues : x # p => c \notin Held(queues[x])
      BY <3>1, LineParts
    <3> QED BY <1>1, <2>2, <3>1, <3>2
  <2> QED BY <2>1, <2>2
<1> QED BY <1>2, <1>3 DEF LineInv

\* The queues stay as they are: what is to be shown.
LEMMA LineUnmoved ==
    ASSUME TypeInv, PlaceInv, [Next]_vars, LineInv, queues' = queues, UNCHANGED <<done, dropped, heir>>,
           InLine(tailTasks'), \A c \in Held(tailTasks') : Open(c)',
           \A q \in DOMAIN queues : \A c \in Held(queues[q]), d \in Held(tailTasks') : Prec(c, d)
    PROVE  LineInv'
<1>1. ChannelInv'
  BY ChannelStep, LineParts
<1>2. \A q \in DOMAIN queues : \A c \in Held(queues[q]) : Open(c)'
  <2> SUFFICES ASSUME NEW q \in DOMAIN queues, NEW c \in Held(queues[q]) PROVE Open(c)'
    OBVIOUS
  <2>1. c \in Contexts /\ Open(c)
    BY QueueHeldType, LineParts
  <2>2. c \notin DOMAIN heir'
    BY <2>1 DEF Open
  <2> QED BY <2>1, <2>2, OpenKept
<1>3. \A c \in done' \union dropped' \union DOMAIN heir' : Known(c)'
  BY HistoryType, KnownKept, LineParts
<1>4. \A q \in DOMAIN queues' : InLine(queues'[q]) /\ EnableOnce(queues'[q])
  BY LineParts
<1>5. ASSUME NEW q \in DOMAIN queues', NEW c \in Held(queues'[q])
      PROVE  /\ Open(c)' /\ \A d \in Held(tailTasks') : Prec(c, d)
             /\ \A p \in DOMAIN queues' : p # q => c \notin Held(queues'[p])
  BY <1>2, LineParts
<1> QED BY <1>1, <1>3, <1>4, <1>5 DEF LineInv

\* The tail tasks stay as they are.
LEMMA LineTailKept ==
    ASSUME TypeInv, PlaceInv, [Next]_vars, LineInv, tailTasks' = tailTasks, DOMAIN heir' = DOMAIN heir,
           done' = done, dropped' = dropped
    PROVE  InLine(tailTasks') /\ \A c \in Held(tailTasks') : Open(c)'
<1> SUFFICES ASSUME NEW c \in Held(tailTasks) PROVE Open(c)'
  BY LineParts
<1>1. c \in Contexts /\ Open(c)
  BY TailType, LineParts
<1>2. c \notin DOMAIN heir'
  BY <1>1 DEF Open
<1> QED BY <1>1, <1>2, OpenKept

\* What follows the new tasks of a queue is in line.
LEMMA LineFollows ==
    ASSUME NEW u, NEW k, NEW s, NEW r, NEW lost, Follows(u, k, s, r, lost), InLine(s), EnableOnce(s),
           Len(u) \in Nat, Len(s) \in Nat, k \in Nat
    PROVE  /\ \A i \in (k + 1)..Len(u) :
                 \A a, b \in 1..Len(u[i].ctxs) : a < b => Prec(u[i].ctxs[a], u[i].ctxs[b])
           /\ \A i, j \in (k + 1)..Len(u) : i < j =>
                 \A c \in ToSet(u[i].ctxs), d \in ToSet(u[j].ctxs) : Prec(c, d)
           /\ \A i \in (k + 1)..Len(u) : ToSet(u[i].ctxs) \subseteq Held(s)
           /\ \A i \in (k + 1)..Len(u) : \A c \in ToSet(s[1].ctxs), d \in ToSet(u[i].ctxs) : Prec(c, d)
           /\ \A i, j \in (k + 1)..Len(u) : u[i].kind # "HookRun" /\ u[i] = u[j] => i = j
<1>1. \A i \in (k + 1)..Len(u) : r[i] \in 1..Len(s) /\ r[i] \in 2..Len(s) /\ u[i] = s[r[i]]
  BY FollowsOld
<1>2. \A i, j \in (k + 1)..Len(u) : i < j => r[i] < r[j]
  BY DEF Follows
<1>3. ASSUME NEW i \in (k + 1)..Len(u), NEW a \in 1..Len(u[i].ctxs), NEW b \in 1..Len(u[i].ctxs), a < b
      PROVE  Prec(u[i].ctxs[a], u[i].ctxs[b])
  <2>1. PICK m \in 1..Len(s) : m = r[i] /\ u[i] = s[m]
    BY <1>1
  <2>2. a \in 1..Len(s[m].ctxs) /\ b \in 1..Len(s[m].ctxs)
    BY <2>1
  <2>3. Prec(s[m].ctxs[a], s[m].ctxs[b])
    BY <1>3, <2>2 DEF InLine
  <2> QED BY <2>1, <2>3
<1>4. ASSUME NEW i \in (k + 1)..Len(u), NEW j \in (k + 1)..Len(u), i < j,
             NEW c \in ToSet(u[i].ctxs), NEW d \in ToSet(u[j].ctxs)
      PROVE  Prec(c, d)
  <2>1. PICK m \in 1..Len(s), n \in 1..Len(s) : m = r[i] /\ u[i] = s[m] /\ n = r[j] /\ u[j] = s[n]
    BY <1>1
  <2>2. m < n
    BY <1>2, <1>4, <2>1
  <2> QED BY <1>4, <2>1, <2>2 DEF InLine
<1>5. ASSUME NEW i \in (k + 1)..Len(u) PROVE ToSet(u[i].ctxs) \subseteq Held(s)
  BY <1>1, HeldIs
<1>6. ASSUME NEW i \in (k + 1)..Len(u), NEW c \in ToSet(s[1].ctxs), NEW d \in ToSet(u[i].ctxs)
      PROVE  Prec(c, d)
  <2>1. PICK n \in 2..Len(s) : n = r[i] /\ u[i] = s[n]
    BY <1>1
  <2>2. n \in 1..Len(s) /\ 1 \in 1..Len(s) /\ 1 < n
    BY <2>1
  <2>3. d \in ToSet(s[n].ctxs)
    BY <2>1
  <2> QED BY <2>2, <2>3 DEF InLine
<1>7. ASSUME NEW i \in (k + 1)..Len(u), NEW j \in (k + 1)..Len(u), u[i].kind # "HookRun", u[i] = u[j]
      PROVE  i = j
  <2>1. PICK m \in 1..Len(s), n \in 1..Len(s) : m = r[i] /\ u[i] = s[m] /\ n = r[j] /\ u[j] = s[n]
    BY <1>1
  <2>2. m = n
    <3>1. s[m].kind # "HookRun" /\ s[m] = s[n]
      BY <1>7, <2>1
    <3> QED BY <3>1 DEF EnableOnce
  <2>3. ~(i < j) /\ ~(j < i)
    <3>1. ~(m < n) /\ ~(n < m)
      BY <2>2
    <3> QED BY <1>2, <2>1, <3>1
  <2> QED BY <2>3
<1> QED BY <1>3, <1>4, <1>5, <1>6, <1>7

LEMMA LineLeaves ==
    ASSUME TypeInv, PlaceInv, LineInv, [Next]_vars, NEW q \in DOMAIN work, Leaves(q)
    PROVE  LineInv'
<1>1. PICK s, u, r : Replaced(q, s, u) /\ Len(s) >= 1 /\ Follows(u, 0, s, r, {})
  BY LeavesView
<1>2. Len(s) \in Nat /\ Len(u) \in Nat /\ s = queues[q] /\ q \in DOMAIN queues
  BY <1>1 DEF Replaced
<1>3. InLine(s) /\ EnableOnce(s)
  BY <1>2, LineParts
<1>4. /\ \A i \in 1..Len(u) : \A a, b \in 1..Len(u[i].ctxs) : a < b => Prec(u[i].ctxs[a], u[i].ctxs[b])
      /\ \A i, j \in 1..Len(u) : i < j => \A c \in ToSet(u[i].ctxs), d \in ToSet(u[j].ctxs) : Prec(c, d)
      /\ \A i \in 1..Len(u) : ToSet(u[i].ctxs) \subseteq Held(s)
      /\ \A i \in 1..Len(u) : \A c \in ToSet(s[1].ctxs), d \in ToSet(u[i].ctxs) : Prec(c, d)
      /\ \A i, j \in 1..Len(u) : u[i].kind # "HookRun" /\ u[i] = u[j] => i = j
  <2>1. 0 \in Nat /\ 0 + 1 = 1
    OBVIOUS
  <2> QED BY <1>1, <1>2, <1>3, <2>1, LineFollows
<1>5. InLine(u) /\ EnableOnce(u)
  BY <1>4 DEF InLine, EnableOnce
<1>6. /\ heir' = heir /\ tailTasks' = tailTasks
      /\ done' \union dropped' = done \union dropped \union ToSet(s[1].ctxs)
  BY <1>2 DEF Leaves, unmoved
<1>7. ToSet(s[1].ctxs) \subseteq Held(s)
  <2>1. 1 \in 1..Len(s)
    BY <1>1, <1>2
  <2> QED BY <2>1, HeldIs
<1>8. Held(s) \subseteq Contexts /\ \A c \in Held(s) : Open(c) /\ Known(c)
  BY <1>2, QueueHeldType, LineParts
<1>9. ASSUME NEW c \in Held(u) PROVE Open(c)' /\ \A d \in Held(tailTasks') : Prec(c, d)
  <2>1. PICK i \in 1..Len(u) : c \in ToSet(u[i].ctxs)
    BY HeldIs
  <2>2. c \in Held(s) /\ \A d \in ToSet(s[1].ctxs) : Prec(d, c)
    BY <1>4, <2>1
  <2>3. c \in Contexts /\ Open(c) /\ c \notin DOMAIN heir'
    BY <1>6, <1>8, <2>2 DEF Open
  <2>4. \A d \in done' \union dropped' : d \in done \union dropped \/ Prec(d, c)
    BY <1>6, <2>2
  <2>5. Open(c)'
    BY <2>3, <2>4, OpenKept
  <2> QED BY <1>2, <1>6, <2>2, <2>5, LineParts
<1>10. ASSUME NEW p \in DOMAIN queues, p # q, NEW c \in Held(queues[p])
       PROVE  c \notin Held(u) /\ Open(c)' /\ \A d \in Held(tailTasks') : Prec(c, d)
  <2>1. c \notin Held(s)
    BY <1>2, <1>10, LineParts
  <2>2. c \notin Held(u)
    BY <1>4, <2>1, HeldIs
  <2>3. c \in Contexts /\ Open(c)
    BY QueueHeldType, LineParts
  <2>4. \A d \in ToSet(s[1].ctxs) : Prec(d, c)
    BY <1>2, <1>7, <1>10, <2>1, OtherQueue
  <2>5. c \notin DOMAIN heir' /\ \A d \in done' \union dropped' : d \in done \union dropped \/ Prec(d, c)
    BY <1>6, <2>3, <2>4 DEF Open
  <2>6. Open(c)'
    BY <2>3, <2>5, OpenKept
  <2> QED BY <1>6, <2>2, <2>6, LineParts
<1>11. ASSUME NEW c \in Held(tailTasks') PROVE Open(c)'
  <2>1. c \in Contexts /\ Open(c)
    BY <1>6, TailType, LineParts
  <2>2. \A d \in ToSet(s[1].ctxs) : Prec(d, c)
    BY <1>2, <1>6, <1>7, LineParts
  <2>3. c \notin DOMAIN heir' /\ \A d \in done' \union dropped' : d \in done \union dropped \/ Prec(d, c)
    BY <1>6, <2>1, <2>2 DEF Open
  <2> QED BY <2>1, <2>3, OpenKept
<1>12. ASSUME NEW c \in done' \union dropped' \union DOMAIN heir' PROVE Known(c)'
  <2>1. c \in Contexts /\ Known(c)
    BY <1>6, <1>7, <1>8, HistoryType, LineParts
  <2> QED BY <2>1, KnownKept
<1>13. ChannelInv' /\ InLine(tailTasks')
  BY <1>6, ChannelStep, LineParts
<1> QED BY <1>1, <1>5, <1>9, <1>10, <1>11, <1>12, <1>13, LineReplaced

LEMMA LineStill ==
    ASSUME TypeInv, PlaceInv, LineInv, [Next]_vars,
           Still \/ (\E b \in KubeBindings : MonitorEvent(b)) \/ (\E x \in Crontabs : CronFires(x))
    PROVE  LineInv'
<1>1. queues' = queues /\ UNCHANGED <<done, dropped, heir>> /\ tailTasks' = tailTasks
  BY DEF Still, MonitorEvent, CronFires, results
<1>2. InLine(tailTasks') /\ \A c \in Held(tailTasks') : Open(c)'
  BY <1>1, LineTailKept
<1>3. \A q \in DOMAIN queues : \A c \in Held(queues[q]), d \in Held(tailTasks') : Prec(c, d)
  BY <1>1, LineParts
<1> QED BY <1>1, <1>2, <1>3, LineUnmoved

LEMMA LineAdded ==
    ASSUME TypeInv, PlaceInv, LineInv, [Next]_vars, NEW q \in NamedQueues, QueueAdded(q)
    PROVE  LineInv'
<1>1. UNCHANGED <<done, dropped, heir>> /\ tailTasks' = tailTasks
  BY DEF QueueAdded, unmoved
<1>2. InLine(tailTasks') /\ \A c \in Held(tailTasks') : Open(c)'
  BY <1>1, LineTailKept
<1>3. /\ DOMAIN queues' = DOMAIN queues \union {q} /\ queues'[q] = << >> /\ q \notin DOMAIN queues
      /\ \A p \in DOMAIN queues : queues'[p] = queues[p]
  BY DEF QueueAdded
<1>4. InLine(<< >>) /\ EnableOnce(<< >>) /\ \A c : c \notin Held(<< >>)
  <2>1. Len(<< >>) = 0 /\ 1..0 = {}
    OBVIOUS
  <2> QED BY <2>1, HeldIs DEF InLine, EnableOnce
<1>5. \A p \in DOMAIN queues' : InLine(queues'[p]) /\ EnableOnce(queues'[p])
  BY <1>3, <1>4, LineParts
<1>6. ASSUME NEW p \in DOMAIN queues', NEW c \in Held(queues'[p])
      PROVE  /\ Open(c)' /\ \A d \in Held(tailTasks') : Prec(c, d)
             /\ \A x \in DOMAIN queues' : x # p => c \notin Held(queues'[x])
  <2>1. p \in DOMAIN queues /\ c \in Held(queues[p])
    BY <1>3, <1>4
  <2>2. c \in Contexts /\ Open(c)
    BY <2>1, QueueHeldType, LineParts
  <2>3. c \notin DOMAIN heir'
    BY <1>1, <2>2 DEF Open
  <2>4. Open(c)'
    BY <1>1, <2>2, <2>3, OpenKept
  <2> QED BY <1>1, <1>3, <1>4, <2>1, <2>4, LineParts
<1>7. \A c \in done' \union dropped' \union DOMAIN heir' : Known(c)'
  BY <1>1, HistoryType, KnownKept, LineParts
<1>8. ChannelInv'
  BY ChannelStep, LineParts
<1> QED BY <1>2, <1>5, <1>6, <1>7, <1>8 DEF LineInv

\* Tasks with one context each.
LEMMA SinglesInLine ==
    ASSUME NEW s, \A i \in 1..Len(s) : Len(s[i].ctxs) = 0 \/ Len(s[i].ctxs) = 1,
           \A i, j \in 1..Len(s) : i < j => \A c \in ToSet(s[i].ctxs), d \in ToSet(s[j].ctxs) : Prec(c, d)
    PROVE  InLine(s)
<1>1. ASSUME NEW i \in 1..Len(s), NEW a \in 1..Len(s[i].ctxs), NEW b \in 1..Len(s[i].ctxs), a < b
      PROVE  Prec(s[i].ctxs[a], s[i].ctxs[b])
  <2>1. PICK n \in {0, 1} : n = Len(s[i].ctxs)
    OBVIOUS
  <2>2. a \in 1..n /\ b \in 1..n
    BY <2>1
  <2> QED BY <1>1, <2>1, <2>2
<1> QED BY <1>1 DEF InLine

LEMMA FirstTasksLine ==
    /\ InLine(FirstTasks) /\ EnableOnce(FirstTasks)
    /\ \A c \in Held(FirstTasks) : c \in Contexts /\ c.binding \in Hook /\ c.n = 0
<1>1. PICK m, n \in Nat : m = Len(StartupOrder) /\ n = Len(FirstTasks) /\ m <= n /\ n = m + Len(EnablingTasks)
  BY OrderLength, FirstTasksType
<1>2. \A i \in 1..m : StartupOrder[i] \in Hook
  BY <1>1, HookNamesSeq, ElementOfSeq
<1>3. \A i \in 1..m : FirstTasks[i] = StartTask(StartupOrder[i])
  BY <1>1, FirstTasksType
<1>4. \A i \in 1..n : ~(i <= m) => i - m \in 1..Len(EnablingTasks) /\ FirstTasks[i] = EnablingTasks[i - m]
  BY <1>1, FirstTasksType
<1>5. \A i, j \in 1..m : i # j => StartupOrder[i] # StartupOrder[j]
  <2>1. DOMAIN StartupOrder = 1..m
    BY <1>1, HookNamesSeq, LenProperties
  <2>2. IsInjective(StartupOrder)
    BY Zenon, ShellOperatorAssumption
  <2> QED BY <2>1, <2>2 DEF IsInjective
<1>6. \A i \in 1..n : ~(i <= m) =>
         FirstTasks[i].kind # "HookRun" /\ FirstTasks[i].ctxs = << >>
  <2> SUFFICES ASSUME NEW i \in 1..n, ~(i <= m)
               PROVE  FirstTasks[i].kind # "HookRun" /\ FirstTasks[i].ctxs = << >>
    OBVIOUS
  <2>1. FirstTasks[i].kind # "HookRun"
    BY <1>4, EnablingTasksType
  <2>2. FirstTasks[i] \in GoodTasks
    BY <1>1, FirstTasksType, ElementOfSeq
  <2> QED BY <2>1, <2>2, GoodEnable
<1>7. \A i \in 1..m : LET c == Context(StartupOrder[i], 0) IN
         /\ FirstTasks[i].kind = "HookRun" /\ FirstTasks[i].ctxs = <<c>>
         /\ c \in Contexts /\ c.binding = StartupOrder[i] /\ c.n = 0 /\ ToSet(<<c>>) = {c}
  <2> SUFFICES ASSUME NEW i \in 1..m, NEW h \in Hook, h = StartupOrder[i]
               PROVE  LET c == Context(h, 0) IN
                      /\ FirstTasks[i].kind = "HookRun" /\ FirstTasks[i].ctxs = <<c>>
                      /\ c \in Contexts /\ c.binding = h /\ c.n = 0 /\ ToSet(<<c>>) = {c}
    BY <1>2
  <2>1. FirstTasks[i].kind = "HookRun" /\ FirstTasks[i].ctxs = <<Context(h, 0)>>
    BY <1>3, StartTaskFields
  <2>2. Context(h, 0) \in Contexts /\ Context(h, 0).binding = h /\ Context(h, 0).n = 0
    BY ContextType, Bounds
  <2> QED BY <2>1, <2>2, OneContext
<1>8. ToSet(<< >>) = {} /\ Len(<< >>) = 0
  BY EmptyFunction DEF ToSet
<1>a. \A i \in 1..n : i <= m => i \in 1..m
  BY <1>1
<1>b. \A i \in 1..m : FirstTasks[i].kind = "HookRun" /\ Len(FirstTasks[i].ctxs) = 1
  <2> SUFFICES ASSUME NEW i \in 1..m PROVE FirstTasks[i].kind = "HookRun" /\ Len(FirstTasks[i].ctxs) = 1
    OBVIOUS
  <2>1. FirstTasks[i].kind = "HookRun" /\ FirstTasks[i].ctxs = <<Context(StartupOrder[i], 0)>>
    BY <1>7
  <2> QED BY <2>1
<1>9. \A i \in 1..n : Len(FirstTasks[i].ctxs) = 0 \/ Len(FirstTasks[i].ctxs) = 1
  <2> SUFFICES ASSUME NEW i \in 1..n PROVE Len(FirstTasks[i].ctxs) = 0 \/ Len(FirstTasks[i].ctxs) = 1
    OBVIOUS
  <2>1. CASE i <= m
    BY <1>a, <1>b, <2>1
  <2>2. CASE ~(i <= m)
    <3>1. FirstTasks[i].ctxs = << >>
      BY <1>6, <2>2
    <3> QED BY <1>8, <3>1
  <2> QED BY <2>1, <2>2
<1>10. \A i \in 1..n : \A c \in ToSet(FirstTasks[i].ctxs) :
          i \in 1..m /\ c \in Contexts /\ c.binding = StartupOrder[i] /\ c.n = 0
  <2> SUFFICES ASSUME NEW i \in 1..n, NEW c \in ToSet(FirstTasks[i].ctxs)
               PROVE  i \in 1..m /\ c \in Contexts /\ c.binding = StartupOrder[i] /\ c.n = 0
    OBVIOUS
  <2>1. i \in 1..m
    BY <1>1, <1>6, <1>8
  <2> QED BY <1>7, <2>1
<1>11. \A i, j \in 1..n : i < j =>
          \A c \in ToSet(FirstTasks[i].ctxs), d \in ToSet(FirstTasks[j].ctxs) : Prec(c, d)
  <2> SUFFICES ASSUME NEW i \in 1..n, NEW j \in 1..n, i < j,
                      NEW c \in ToSet(FirstTasks[i].ctxs), NEW d \in ToSet(FirstTasks[j].ctxs)
               PROVE  Prec(c, d)
    OBVIOUS
  <2>1. i \in 1..m /\ j \in 1..m /\ c.binding = StartupOrder[i] /\ d.binding = StartupOrder[j] /\ d.n = 0
    BY <1>10
  <2>2. c.binding # d.binding
    BY <1>5, <2>1
  <2> QED BY <2>1, <2>2 DEF Prec
<1>12. InLine(FirstTasks)
  BY <1>1, <1>9, <1>11, SinglesInLine
<1>13. ASSUME NEW i \in 1..n, NEW j \in 1..n, FirstTasks[i].kind # "HookRun", FirstTasks[i] = FirstTasks[j]
       PROVE  i = j
  <2>1. ~(i <= m) /\ ~(j <= m)
    BY <1>13, <1>a, <1>b
  <2>2. i - m = j - m
    BY <1>4, <1>13, <2>1, EnablingTasksType
  <2> QED BY <1>1, <2>2
<1>14. EnableOnce(FirstTasks)
  BY <1>1, <1>13 DEF EnableOnce
<1>15. ASSUME NEW c \in Held(FirstTasks) PROVE c \in Contexts /\ c.binding \in Hook /\ c.n = 0
  BY <1>1, <1>2, <1>10, HeldIs, ZenonT(60)
<1> QED BY <1>12, <1>14, <1>15

LEMMA LinePrepopulated ==
    ASSUME TypeInv, PlaceInv, LineInv, [Next]_vars, Prepopulated
    PROVE  LineInv'
<1>1. /\ stage = "prepopulate" /\ stage' = "main" /\ tailTasks' = << >>
      /\ DOMAIN queues = {} /\ DOMAIN queues' = {"main"} /\ queues'["main"] = FirstTasks
      /\ UNCHANGED <<done, dropped, heir>>
  BY DEF Prepopulated, TypeInv, StageInv
<1>2. ASSUME NEW c \in done \union dropped \union DOMAIN heir
      PROVE  c \in Contexts /\ Known(c) /\ c.n # 0
  <2>1. c \in Contexts /\ Known(c)
    BY HistoryType, LineParts
  <2>2. Pending("EnableKubernetesBindings", HookOf(c.binding))
    BY <1>1 DEF Pending
  <2>3. c.n # 0
    BY <1>1, <2>1, <2>2 DEF Known
  <2> QED BY <2>1, <2>3
<1>3. Len(tailTasks') = 0 /\ 1..Len(tailTasks') = {} /\ Held(tailTasks') = {}
  BY <1>1, HeldIs
<1>4. ASSUME NEW c \in Held(FirstTasks) PROVE Open(c)'
  <2>1. c \in Contexts /\ c.binding \in Hook /\ c.n = 0
    BY FirstTasksLine
  <2>2. Known(c)'
    BY <1>1, <2>1, KnownBy
  <2>3. c \notin DOMAIN heir'
    BY <1>1, <1>2, <2>1
  <2>4. \A d \in done' \union dropped' : Prec(d, c)
    BY <1>1, <1>2, <2>1 DEF Prec
  <2> QED BY <2>2, <2>3, <2>4, OpenBy
<1>5. \A c \in done' \union dropped' \union DOMAIN heir' : Known(c)'
  BY <1>1, <1>2, KnownKept
<1>6. ChannelInv'
  BY ChannelStep, LineParts
<1>7. InLine(tailTasks')
  BY <1>3 DEF InLine
<1>8. \A q \in DOMAIN queues' : InLine(queues'[q]) /\ EnableOnce(queues'[q])
  BY <1>1, FirstTasksLine
<1>9. ASSUME NEW q \in DOMAIN queues', NEW c \in Held(queues'[q])
      PROVE  /\ Open(c)' /\ \A d \in Held(tailTasks') : Prec(c, d)
             /\ \A p \in DOMAIN queues' : p # q => c \notin Held(queues'[p])
  BY <1>1, <1>3, <1>4
<1> QED BY <1>3, <1>5, <1>6, <1>7, <1>8, <1>9 DEF LineInv

\* A new task behind all others.
Behind(s, u, t, c) ==
    /\ Len(s) \in Nat /\ Len(u) = Len(s) + 1 /\ u[Len(s) + 1] = t /\ \A i \in 1..Len(s) : u[i] = s[i]
    /\ t.kind = "HookRun" /\ Len(t.ctxs) = 1 /\ ToSet(t.ctxs) = {c}

LEMMA InLineBehind ==
    ASSUME NEW s, NEW u, NEW t, NEW c, Behind(s, u, t, c), InLine(s), EnableOnce(s),
           \A d \in Held(s) : Prec(d, c)
    PROVE  InLine(u) /\ EnableOnce(u) /\ \A d \in Held(u) : d \in Held(s) \/ d = c
<1>1. PICK m \in Nat : /\ m = Len(s) /\ Len(u) = m + 1 /\ u[m + 1] = t /\ \A i \in 1..m : u[i] = s[i]
                      /\ t.kind = "HookRun" /\ Len(t.ctxs) = 1 /\ ToSet(t.ctxs) = {c}
  BY DEF Behind
<1>2. \A i \in 1..(m + 1) : i \in 1..m \/ i = m + 1
  BY <1>1
<1>3. ASSUME NEW i \in 1..(m + 1), NEW a \in 1..Len(u[i].ctxs), NEW b \in 1..Len(u[i].ctxs), a < b
      PROVE  Prec(u[i].ctxs[a], u[i].ctxs[b])
  <2>1. CASE i \in 1..m
    <3>1. u[i] = s[i]
      BY <1>1, <2>1
    <3>2. a \in 1..Len(s[i].ctxs) /\ b \in 1..Len(s[i].ctxs)
      BY <3>1
    <3>3. Prec(s[i].ctxs[a], s[i].ctxs[b])
      BY <1>1, <1>3, <2>1, <3>2 DEF InLine
    <3> QED BY <3>1, <3>3
  <2>2. CASE i = m + 1
    <3>1. Len(u[i].ctxs) = 1
      BY <1>1, <2>2
    <3>2. a \in 1..1 /\ b \in 1..1
      BY <3>1
    <3> QED BY <1>3, <3>2
  <2> QED BY <1>2, <2>1, <2>2
<1>4. ASSUME NEW i \in 1..(m + 1), NEW j \in 1..(m + 1), i < j,
             NEW d \in ToSet(u[i].ctxs), NEW e \in ToSet(u[j].ctxs)
      PROVE  Prec(d, e)
  <2>1. i \in 1..m /\ u[i] = s[i]
    BY <1>1, <1>4
  <2>2. d \in Held(s)
    BY <1>1, <2>1, HeldIs
  <2>3. CASE j \in 1..m
    <3>1. e \in ToSet(s[j].ctxs) /\ d \in ToSet(s[i].ctxs)
      BY <1>1, <2>1, <2>3
    <3> QED BY <1>1, <1>4, <2>1, <2>3, <3>1 DEF InLine
  <2>4. CASE j = m + 1
    <3>1. e = c
      BY <1>1, <2>4
    <3> QED BY <2>2, <3>1
  <2> QED BY <1>2, <2>3, <2>4
<1>5. InLine(u)
  BY <1>1, <1>3, <1>4 DEF InLine
<1>6. ASSUME NEW i \in 1..(m + 1), NEW j \in 1..(m + 1), u[i].kind # "HookRun", u[i] = u[j]
      PROVE  i = j
  <2>1. i \in 1..m /\ j \in 1..m
    BY <1>1, <1>2, <1>6
  <2>2. s[i].kind # "HookRun" /\ s[i] = s[j]
    BY <1>1, <1>6, <2>1
  <2> QED BY <1>1, <2>1, <2>2 DEF EnableOnce
<1>7. EnableOnce(u)
  BY <1>1, <1>6 DEF EnableOnce
<1>8. ASSUME NEW d \in Held(u) PROVE d \in Held(s) \/ d = c
  <2>1. PICK i \in 1..(m + 1) : d \in ToSet(u[i].ctxs)
    BY <1>1, HeldIs
  <2>2. CASE i \in 1..m
    BY <1>1, <2>1, <2>2, HeldIs
  <2>3. CASE i = m + 1
    BY <1>1, <2>1, <2>3
  <2> QED BY <1>2, <2>2, <2>3
<1> QED BY <1>5, <1>7, <1>8

\* The first task is taken away.
LEMMA InLineTail ==
    ASSUME NEW y, NEW v, NEW c, InLine(y), Len(y) \in Nat, Len(y) >= 1, ToSet(y[1].ctxs) = {c},
           Len(v) = Len(y) - 1, \A i \in 1..Len(v) : v[i] = y[i + 1]
    PROVE  InLine(v) /\ c \in Held(y) /\ \A d \in Held(v) : d \in Held(y) /\ Prec(c, d)
<1>1. PICK m \in Nat : Len(v) = m /\ Len(y) = m + 1
  <2>1. Len(y) - 1 \in Nat /\ Len(y) = (Len(y) - 1) + 1
    OBVIOUS
  <2> QED BY <2>1
<1>2. \A i \in 1..m : v[i] = y[i + 1] /\ i + 1 \in 1..(m + 1)
  BY <1>1
<1>3. 1 \in 1..(m + 1)
  BY <1>1
<1>4. ASSUME NEW i \in 1..m, NEW a \in 1..Len(v[i].ctxs), NEW b \in 1..Len(v[i].ctxs), a < b
      PROVE  Prec(v[i].ctxs[a], v[i].ctxs[b])
  <2>1. PICK k \in 1..(m + 1) : k = i + 1 /\ v[i] = y[k]
    BY <1>2
  <2>2. a \in 1..Len(y[k].ctxs) /\ b \in 1..Len(y[k].ctxs)
    BY <2>1
  <2>3. Prec(y[k].ctxs[a], y[k].ctxs[b])
    BY <1>1, <1>4, <2>2 DEF InLine
  <2> QED BY <2>1, <2>3
<1>5. ASSUME NEW i \in 1..m, NEW j \in 1..m, i < j, NEW d \in ToSet(v[i].ctxs), NEW e \in ToSet(v[j].ctxs)
      PROVE  Prec(d, e)
  <2>1. PICK k \in 1..(m + 1), l \in 1..(m + 1) : k = i + 1 /\ v[i] = y[k] /\ l = j + 1 /\ v[j] = y[l]
    BY <1>2
  <2>2. k < l /\ d \in ToSet(y[k].ctxs) /\ e \in ToSet(y[l].ctxs)
    BY <1>1, <1>5, <2>1
  <2> QED BY <1>1, <2>2 DEF InLine
<1>6. InLine(v)
  BY <1>1, <1>4, <1>5 DEF InLine
<1>7. c \in Held(y)
  BY <1>1, <1>3, HeldIs
<1>8. ASSUME NEW d \in Held(v) PROVE d \in Held(y) /\ Prec(c, d)
  <2>1. PICK i \in 1..m : d \in ToSet(v[i].ctxs)
    BY <1>1, HeldIs
  <2>2. PICK k \in 1..(m + 1) : k = i + 1 /\ v[i] = y[k]
    BY <1>2
  <2>3. d \in ToSet(y[k].ctxs) /\ 1 < k /\ c \in ToSet(y[1].ctxs)
    BY <2>1, <2>2
  <2> QED BY <1>1, <1>3, <2>3, HeldIs DEF InLine
<1> QED BY <1>6, <1>7, <1>8

LEMMA LineArrives ==
    ASSUME TypeInv, PlaceInv, LineInv, [Next]_vars, NEW t \in EventTasks, Arrives(t)
    PROVE  LineInv'
<1>1. PICK q, s, u : q = t.queue /\ Replaced(q, s, u) /\ Moved(s, u, t, tailTasks, tailTasks')
  BY ArrivesView
<1>2. Len(s) \in Nat /\ Len(u) \in Nat /\ s = queues[q] /\ q \in DOMAIN queues
  BY <1>1 DEF Replaced
<1>3. EventRun(t)
  BY <1>1 DEF Moved
<1>4. PICK c : t.kind = "HookRun" /\ t.ctxs = <<c>> /\ ToSet(t.ctxs) = {c}
  BY <1>3, EventRunFields
<1>5. UNCHANGED <<done, dropped, heir>>
  BY DEF Arrives
<1>6. InLine(tailTasks') /\ c \in Held(tailTasks)
      /\ \A d \in Held(tailTasks') : d \in Held(tailTasks) /\ Prec(c, d)
  <2>1. InLine(tailTasks)
    BY LineParts
  <2>2. PICK y, v : y = tailTasks /\ v = tailTasks' /\ Moved(s, u, t, y, v)
    BY <1>1
  <2>3. /\ Len(y) \in Nat /\ Len(y) >= 1 /\ t = y[1]
        /\ Len(v) = Len(y) - 1 /\ \A i \in 1..Len(v) : v[i] = y[i + 1]
    BY <2>2 DEF Moved
  <2>4. ToSet(y[1].ctxs) = {c} /\ InLine(y)
    BY <1>4, <2>1, <2>2, <2>3
  <2>5. InLine(v) /\ c \in Held(y) /\ \A d \in Held(v) : d \in Held(y) /\ Prec(c, d)
    BY <2>3, <2>4, InLineTail
  <2> QED BY <2>2, <2>5
<1>7. \A d \in Held(s) : Prec(d, c)
  BY <1>2, <1>6, LineParts
<1>8. InLine(u) /\ EnableOnce(u) /\ \A d \in Held(u) : d \in Held(s) \/ d = c
  <2>1. Len(u) = Len(s) + 1 /\ u[Len(s) + 1] = t /\ \A i \in 1..Len(s) : u[i] = s[i]
    BY <1>1 DEF Moved
  <2>2. Len(t.ctxs) = 1
    BY <1>4
  <2>3. Behind(s, u, t, c)
    BY <1>2, <1>4, <2>1, <2>2 DEF Behind
  <2>4. InLine(s) /\ EnableOnce(s)
    BY <1>2, LineParts
  <2> QED BY <1>7, <2>3, <2>4, InLineBehind
<1>9. ASSUME NEW d, d \in Contexts, Open(d) PROVE Open(d)'
  <2>1. d \notin DOMAIN heir'
    BY <1>5, <1>9 DEF Open
  <2> QED BY <1>5, <1>9, <2>1, OpenKept
<1>10. ASSUME NEW d \in Held(u) PROVE Open(d)' /\ \A e \in Held(tailTasks') : Prec(d, e)
  <2>1. CASE d \in Held(s)
    <3>1. d \in Contexts /\ Open(d) /\ \A e \in Held(tailTasks) : Prec(d, e)
      BY <1>2, <2>1, QueueHeldType, LineParts
    <3> QED BY <1>6, <1>9, <3>1
  <2>2. CASE d = c
    <3>1. d \in Contexts /\ Open(d)
      BY <1>6, <2>2, TailType, LineParts
    <3> QED BY <1>6, <1>9, <2>2, <3>1
  <2> QED BY <1>8, <2>1, <2>2
<1>11. ASSUME NEW p \in DOMAIN queues, p # q, NEW d \in Held(queues[p])
       PROVE  d \notin Held(u) /\ Open(d)' /\ \A e \in Held(tailTasks') : Prec(d, e)
  <2>1. d \in Contexts /\ Open(d) /\ \A e \in Held(tailTasks) : Prec(d, e)
    BY QueueHeldType, LineParts
  <2>2. d \notin Held(s)
    BY <1>2, <1>11, LineParts
  <2>3. d # c
    BY <1>6, <2>1 DEF Prec
  <2> QED BY <1>6, <1>8, <1>9, <2>1, <2>2, <2>3
<1>12. \A d \in Held(tailTasks') : Open(d)'
  BY <1>6, <1>9, TailType, LineParts
<1>13. \A d \in done' \union dropped' \union DOMAIN heir' : Known(d)'
  BY <1>5, HistoryType, KnownKept, LineParts
<1>14. ChannelInv'
  BY ChannelStep, LineParts
<1> QED BY <1>1, <1>6, <1>8, <1>10, <1>11, <1>12, <1>13, <1>14, LineReplaced

\* The tasks of u from a to b are in line.
PartInLine(u, a, b) ==
    /\ \A i \in a..b : \A x, y \in 1..Len(u[i].ctxs) : x < y => Prec(u[i].ctxs[x], u[i].ctxs[y])
    /\ \A i, j \in a..b : i < j => \A c \in ToSet(u[i].ctxs), d \in ToSet(u[j].ctxs) : Prec(c, d)

LEMMA TwoParts ==
    ASSUME NEW u, NEW k \in Nat, Len(u) \in Nat, PartInLine(u, 1, k), PartInLine(u, k + 1, Len(u)),
           \A i \in 1..k, j \in (k + 1)..Len(u) :
              \A c \in ToSet(u[i].ctxs), d \in ToSet(u[j].ctxs) : Prec(c, d)
    PROVE  InLine(u)
<1>1. \A i \in 1..Len(u) : i \in 1..k \/ i \in (k + 1)..Len(u)
  OBVIOUS
<1>2. ASSUME NEW i \in 1..Len(u), NEW x \in 1..Len(u[i].ctxs), NEW y \in 1..Len(u[i].ctxs), x < y
      PROVE  Prec(u[i].ctxs[x], u[i].ctxs[y])
  BY <1>1, <1>2 DEF PartInLine
<1>3. ASSUME NEW i \in 1..Len(u), NEW j \in 1..Len(u), i < j,
             NEW c \in ToSet(u[i].ctxs), NEW d \in ToSet(u[j].ctxs)
      PROVE  Prec(c, d)
  <2>1. \/ i \in 1..k /\ j \in 1..k
        \/ i \in (k + 1)..Len(u) /\ j \in (k + 1)..Len(u)
        \/ i \in 1..k /\ j \in (k + 1)..Len(u)
    BY <1>1, <1>3
  <2> QED BY <1>3, <2>1 DEF PartInLine
<1> QED BY <1>2, <1>3 DEF InLine

\* The Synchronization context of a binding, made when the bindings of its hook
\* are enabled.
LEMMA SyncFresh ==
    ASSUME TypeInv, PlaceInv, LineInv, [Next]_vars, NEW s, NEW u, NEW r, NEW h, NEW bs,
           Replaced("main", s, u), SyncHeads(s, u, r, h, bs), NEW i \in 1..Len(bs)
    PROVE  \E c : /\ u[i].kind = "HookRun" /\ Len(u[i].ctxs) = 1 /\ ToSet(u[i].ctxs) = {c}
                  /\ c.binding = bs[i] /\ c.n = 0 /\ c \in Contexts /\ ~Known(c) /\ Known(c)'
<1>1. PICK b \in KubeBindings : /\ b = bs[i] /\ u[i] = BindingRun(b, 0, "main")
                                /\ b \in SyncBindings(h) /\ b \in ToSet(Kube(h))
  BY DEF SyncHeads
<1>2. PICK c : c = Context(b, 0)
  OBVIOUS
<1>3. /\ u[i].kind = "HookRun" /\ u[i].ctxs = <<c>> /\ ToSet(u[i].ctxs) = {c}
      /\ c.binding = b /\ c.n = 0 /\ c \in Contexts
  <2>1. /\ BindingRun(b, 0, "main").kind = "HookRun" /\ BindingRun(b, 0, "main").ctxs = <<Context(b, 0)>>
        /\ ToSet(BindingRun(b, 0, "main").ctxs) = {Context(b, 0)}
        /\ Context(b, 0).binding = b /\ Context(b, 0).n = 0 /\ Context(b, 0) \in Contexts
    BY SyncRunFields
  <2>2. u[i].kind = "HookRun" /\ u[i].ctxs = <<c>> /\ ToSet(u[i].ctxs) = {c}
    BY <1>1, <1>2, <2>1
  <2> QED BY <1>2, <2>1, <2>2
<1>4. h \in Hook /\ Len(s) >= 1 /\ Len(bs) \in Nat /\ Follows(u, Len(bs), s, r, {})
  BY DEF SyncHeads
<1>5. PICK t : t = EnableTask("EnableKubernetesBindings", h) /\ t = s[1]
  BY DEF SyncHeads
<1>6. /\ "main" \in DOMAIN queues /\ s = queues["main"] /\ u = queues'["main"] /\ Len(s) \in Nat /\ Len(u) \in Nat
      /\ "main" \in DOMAIN queues'
  BY DEF Replaced
<1>7. HookOf(b) = h /\ b \notin Hook /\ b \notin SchedBindings
  <2>1. b \in BindingsOf(h)
    BY <1>1 DEF BindingsOf
  <2>2. HookOf(b) = h
    BY <1>4, <2>1, HookOfBinding
  <2> QED BY <2>2, NamesApart DEF Bindings
<1>8. Pending("EnableKubernetesBindings", h)
  <2>1. 1 \in 1..Len(s) /\ s[1] = t
    BY <1>4, <1>5, <1>6
  <2>2. Waits(queues, t)
    BY <1>6, <2>1 DEF Waits
  <2> QED BY <1>5, <2>2, PendingIs
<1>9. ~Known(c)
  BY <1>3, <1>7, <1>8 DEF Known
<1>10. ~Pending("EnableKubernetesBindings", h)'
  <2>1. t.kind = "EnableKubernetesBindings"
    BY <1>5, EnableTaskKind
  <2>2. ASSUME NEW j \in 1..Len(u), u[j] = t PROVE FALSE
    <3>1. CASE j \in 1..Len(bs)
      <4>1. u[j] = BindingRun(bs[j], 0, "main") /\ bs[j] \in KubeBindings
        BY <3>1 DEF SyncHeads
      <4>2. u[j].kind = "HookRun"
        BY <4>1, SyncRunFields
      <4> QED BY <2>1, <2>2, <4>2
    <3>2. CASE j \in (Len(bs) + 1)..Len(u)
      <4>1. PICK k \in 2..Len(s) : u[j] = s[k]
        BY <1>4, <1>6, <3>2, FollowsOld
      <4>2. k \in 1..Len(s) /\ 1 \in 1..Len(s) /\ k # 1
        BY <1>6, <4>1
      <4>3. s[1].kind # "HookRun" /\ s[1] = s[k]
        BY <1>5, <2>1, <2>2, <4>1
      <4>4. EnableOnce(s)
        BY <1>6, LineParts
      <4> QED BY <4>2, <4>3, <4>4 DEF EnableOnce
    <3> QED BY <1>4, <1>6, <3>1, <3>2
  <2>3. ~Waits(queues', t)
    BY <1>6, <2>2 DEF Waits
  <2> QED BY <1>5, <2>3, PendingIs
<1>11. Known(c)'
  BY <1>3, <1>7, <1>10, KnownBy
<1>12. Len(u[i].ctxs) = 1
  BY <1>3
<1> QED BY <1>1, <1>3, <1>9, <1>11, <1>12

\* It comes before whatever is known already.
LEMMA FreshFirst ==
    ASSUME NEW c, NEW d \in Contexts, c.n = 0, ~Known(c), Known(d)
    PROVE  Prec(c, d) /\ Prec(d, c)
<1>1. c # d
  OBVIOUS
<1>2. d.n \in Nat
  BY ContextFields
<1> QED BY <1>1, <1>2 DEF Prec

LEMMA PartFollows ==
    ASSUME NEW u, NEW k, NEW s, NEW r, NEW lost, Follows(u, k, s, r, lost), InLine(s), EnableOnce(s),
           Len(u) \in Nat, Len(s) \in Nat, k \in Nat
    PROVE  /\ PartInLine(u, k + 1, Len(u))
           /\ \A i \in (k + 1)..Len(u) : \A d \in ToSet(u[i].ctxs) : d \in Held(s)
<1>1. /\ \A i \in (k + 1)..Len(u) :
           \A a, b \in 1..Len(u[i].ctxs) : a < b => Prec(u[i].ctxs[a], u[i].ctxs[b])
      /\ \A i, j \in (k + 1)..Len(u) : i < j =>
           \A c \in ToSet(u[i].ctxs), d \in ToSet(u[j].ctxs) : Prec(c, d)
      /\ \A i \in (k + 1)..Len(u) : ToSet(u[i].ctxs) \subseteq Held(s)
  BY LineFollows
<1> QED BY <1>1 DEF PartInLine

LEMMA LineEnabled ==
    ASSUME TypeInv, PlaceInv, LineInv, [Next]_vars, NEW q \in DOMAIN work, Enabled(q)
    PROVE  LineInv'
<1>1. PICK s, u, r, h, bs : Replaced("main", s, u) /\ SyncHeads(s, u, r, h, bs)
  BY EnabledView
<1>2. Len(s) \in Nat /\ Len(u) \in Nat /\ s = queues["main"] /\ "main" \in DOMAIN queues
  BY <1>1 DEF Replaced
<1>3. Follows(u, Len(bs), s, r, {}) /\ \A i, j \in 1..Len(bs) : i # j => bs[i] # bs[j]
  BY <1>1 DEF SyncHeads
<1>4. PICK k \in Nat : k = Len(bs)
  BY <1>1 DEF SyncHeads
<1>5. UNCHANGED <<done, dropped, heir>> /\ tailTasks' = tailTasks
  BY DEF Enabled, unmoved
<1>6. \A i \in 1..k :
         \E c : /\ u[i].kind = "HookRun" /\ Len(u[i].ctxs) = 1 /\ ToSet(u[i].ctxs) = {c}
                /\ c.binding = bs[i] /\ c.n = 0 /\ c \in Contexts /\ ~Known(c) /\ Known(c)'
  BY <1>1, <1>4, SyncFresh
<1>7. InLine(s) /\ EnableOnce(s)
  BY <1>2, LineParts
<1>8. PartInLine(u, k + 1, Len(u)) /\ \A i \in (k + 1)..Len(u) : \A d \in ToSet(u[i].ctxs) : d \in Held(s)
  BY <1>2, <1>3, <1>4, <1>7, PartFollows
<1>9. \A i, j \in (k + 1)..Len(u) : u[i].kind # "HookRun" /\ u[i] = u[j] => i = j
  BY <1>2, <1>3, <1>4, <1>7, LineFollows
<1>10. k <= Len(u)
  BY <1>2, <1>3, <1>4 DEF Follows
<1>11. PartInLine(u, 1, k)
  <2>1. ASSUME NEW i \in 1..k, NEW x \in 1..Len(u[i].ctxs), NEW y \in 1..Len(u[i].ctxs), x < y
        PROVE  Prec(u[i].ctxs[x], u[i].ctxs[y])
    <3>1. x \in 1..1 /\ y \in 1..1
      BY <1>6
    <3> QED BY <2>1, <3>1
  <2>2. ASSUME NEW i \in 1..k, NEW j \in 1..k, i < j, NEW c \in ToSet(u[i].ctxs), NEW d \in ToSet(u[j].ctxs)
        PROVE  Prec(c, d)
    <3>1. c.binding = bs[i] /\ d.binding = bs[j]
      BY <1>6
    <3>2. bs[i] # bs[j]
      BY <1>3, <1>4, <2>2
    <3> QED BY <3>1, <3>2 DEF Prec
  <2> QED BY <2>1, <2>2 DEF PartInLine
<1>12. \A d \in Held(s) : d \in Contexts /\ Open(d) /\ Known(d) /\ \A e \in Held(tailTasks) : Prec(d, e)
  BY <1>2, QueueHeldType, LineParts
<1>13. \A i \in 1..k, j \in (k + 1)..Len(u) :
          \A c \in ToSet(u[i].ctxs), d \in ToSet(u[j].ctxs) : Prec(c, d)
  <2> SUFFICES ASSUME NEW i \in 1..k, NEW j \in (k + 1)..Len(u), NEW c \in ToSet(u[i].ctxs), NEW d \in ToSet(u[j].ctxs)
               PROVE  Prec(c, d)
    OBVIOUS
  <2>1. c.n = 0 /\ ~Known(c)
    BY <1>6
  <2>2. d \in Contexts /\ Known(d)
    BY <1>8, <1>12
  <2> QED BY <2>1, <2>2, FreshFirst
<1>14. InLine(u)
  BY <1>2, <1>8, <1>11, <1>13, TwoParts
<1>15. EnableOnce(u)
  <2>1. ASSUME NEW i \in 1..Len(u), NEW j \in 1..Len(u), u[i].kind # "HookRun", u[i] = u[j] PROVE i = j
    <3>1. i \notin 1..k /\ j \notin 1..k
      BY <1>6, <2>1
    <3>2. i \in (k + 1)..Len(u) /\ j \in (k + 1)..Len(u)
      BY <1>2, <3>1
    <3> QED BY <1>9, <2>1, <3>2
  <2> QED BY <2>1 DEF EnableOnce
<1>16. \A c \in Held(u) : c \in Held(s) \/ (c.n = 0 /\ c \in Contexts /\ ~Known(c) /\ Known(c)')
  <2> SUFFICES ASSUME NEW c \in Held(u), c \notin Held(s)
               PROVE  c.n = 0 /\ c \in Contexts /\ ~Known(c) /\ Known(c)'
    OBVIOUS
  <2>1. PICK i \in 1..Len(u) : c \in ToSet(u[i].ctxs)
    BY HeldIs
  <2>2. i \in 1..k
    <3>1. i \notin (k + 1)..Len(u)
      BY <1>8, <2>1
    <3> QED BY <1>2, <3>1
  <2>3. PICK d : ToSet(u[i].ctxs) = {d} /\ d.n = 0 /\ d \in Contexts /\ ~Known(d) /\ Known(d)'
    BY <1>6, <2>2
  <2>4. c = d
    BY <2>1, <2>3
  <2> QED BY <2>3, <2>4
<1>17. \A d \in Held(tailTasks) : d \in Contexts /\ Open(d) /\ Known(d)
  BY TailType, LineParts
<1>18. \A d \in done \union dropped \union DOMAIN heir : d \in Contexts /\ Known(d)
  BY HistoryType, LineParts
<1>19. ASSUME NEW d, d \in Contexts, Open(d) PROVE Open(d)'
  <2>1. d \notin DOMAIN heir'
    BY <1>5, <1>19 DEF Open
  <2> QED BY <1>5, <1>19, <2>1, OpenKept
<1>20. ASSUME NEW c \in Held(u) PROVE Open(c)' /\ \A d \in Held(tailTasks') : Prec(c, d)
  <2>1. CASE c \in Held(s)
    BY <1>5, <1>12, <1>19, <2>1
  <2>2. CASE c.n = 0 /\ c \in Contexts /\ ~Known(c) /\ Known(c)'
    <3>1. c \notin DOMAIN heir'
      BY <1>5, <1>18, <2>2
    <3>2. \A d \in done' \union dropped' : Prec(d, c)
      BY <1>5, <1>18, <2>2, FreshFirst
    <3>3. \A d \in Held(tailTasks') : Prec(c, d)
      BY <1>5, <1>17, <2>2, FreshFirst
    <3> QED BY <2>2, <3>1, <3>2, <3>3, OpenBy
  <2> QED BY <1>16, <2>1, <2>2
<1>21. ASSUME NEW p \in DOMAIN queues, p # "main", NEW c \in Held(queues[p])
       PROVE  c \notin Held(u) /\ Open(c)' /\ \A d \in Held(tailTasks') : Prec(c, d)
  <2>1. c \in Contexts /\ Open(c) /\ Known(c) /\ \A e \in Held(tailTasks) : Prec(c, e)
    BY QueueHeldType, LineParts
  <2>2. c \notin Held(s)
    BY <1>2, <1>21, LineParts
  <2> QED BY <1>5, <1>16, <1>19, <2>1, <2>2
<1>22. InLine(tailTasks') /\ \A c \in Held(tailTasks') : Open(c)'
  BY <1>5, LineTailKept
<1>23. \A d \in done' \union dropped' \union DOMAIN heir' : Known(d)'
  BY <1>5, <1>18, KnownKept
<1>24. ChannelInv'
  BY ChannelStep, LineParts
<1> QED BY <1>1, <1>14, <1>15, <1>20, <1>21, <1>22, <1>23, <1>24, LineReplaced

\* Contexts gathered from tasks in line are in order, and none is there twice.
Ordered(z) == \A a, b \in 1..Len(z) : a < b => Prec(z[a], z[b])

LEMMA GatheredOrdered ==
    ASSUME NEW s \in Seq(GoodTasks), NEW n \in Nat, n <= Len(s), NEW z, NEW row, NEW col,
           Gathers(s, n, z, row, col), InLine(s)
    PROVE  Ordered(z)
<1> SUFFICES ASSUME NEW a \in 1..Len(z), NEW b \in 1..Len(z), a < b PROVE Prec(z[a], z[b])
  BY DEF Ordered
<1>1. Len(s) \in Nat
  BY LenProperties
<1>a. \A k \in 1..Len(z) : /\ row[k] \in 1..Len(s) /\ col[k] \in 1..Len(s[row[k]].ctxs)
                           /\ z[k] = s[row[k]].ctxs[col[k]]
  BY <1>1 DEF Gathers
<1>2. PICK i, x : /\ i \in 1..Len(s) /\ i = row[a] /\ x = col[a] /\ x \in 1..Len(s[i].ctxs)
                  /\ z[a] = s[i].ctxs[x]
  BY <1>a
<1>3. PICK j, y : /\ j \in 1..Len(s) /\ j = row[b] /\ y = col[b] /\ y \in 1..Len(s[j].ctxs)
                  /\ z[b] = s[j].ctxs[y]
  BY <1>a
<1>4. i < j \/ (i = j /\ x < y)
  BY <1>2, <1>3 DEF Gathers
<1>5. CASE i < j
  <2>1. s[i].ctxs \in Seq(Contexts) /\ s[j].ctxs \in Seq(Contexts)
    BY <1>2, <1>3, LineType
  <2>2. z[a] \in ToSet(s[i].ctxs) /\ z[b] \in ToSet(s[j].ctxs)
    BY <1>2, <1>3, <2>1, ElementsAre
  <2> QED BY <1>2, <1>3, <1>5, <2>2 DEF InLine
<1>6. CASE i = j /\ x < y
  <2>1. Prec(s[i].ctxs[x], s[i].ctxs[y])
    BY <1>2, <1>3, <1>6 DEF InLine
  <2> QED BY <1>2, <1>3, <1>6, <2>1
<1> QED BY <1>4, <1>5, <1>6

LEMMA JoinInLine ==
    ASSUME NEW s, NEW o, NEW u, NEW z, NEW r, NEW pick, NEW row, NEW col,
           JoinShape(s, o, u, z, r, pick, row, col), InLine(s), EnableOnce(s)
    PROVE  /\ InLine(u) /\ EnableOnce(u)
           /\ \A c \in Gone(z) : c \in Held(s) /\ c \notin Held(u)
           /\ \A c \in Held(u) : c \in Held(s)
<1>1. /\ z \in Seq(Contexts) /\ s \in Seq(GoodTasks) /\ u \in Seq(GoodTasks)
      /\ Gathers(s, Len(o) + 1, z, row, col) /\ Follows(u, 1, s, r, ToSet(o))
      /\ Picks(z, {i \in 1..Len(z) : ~Skipped(z, i)}, u[1].ctxs, pick)
      /\ \A i \in 2..Len(u) : r[i] > Len(o) + 1
  BY JoinParts
<1>2. /\ Len(o) \in Nat /\ Len(o) + 1 <= Len(s) /\ Len(s) \in Nat
      /\ Len(u) \in Nat /\ Len(u) >= 1 /\ Len(z) \in Nat
      /\ DOMAIN z = 1..Len(z)
  BY JoinLengths
<1>3. PICK m \in Nat : m = Len(o) + 1 /\ m <= Len(s)
  BY <1>2
<1>4. u[1].kind = "HookRun"
  BY Zenon DEF JoinShape
<1>5. Ordered(z)
  BY <1>1, <1>3, GatheredOrdered
<1>6. PICK v : v = u[1].ctxs /\ Picks(z, {i \in 1..Len(z) : ~Skipped(z, i)}, v, pick)
  BY <1>1
<1>7. PartInLine(u, 1, 1)
  <2>1. ASSUME NEW x \in 1..Len(v), NEW y \in 1..Len(v), x < y PROVE Prec(v[x], v[y])
    <3>1. PICK a \in 1..Len(z), b \in 1..Len(z) : a < b /\ v[x] = z[a] /\ v[y] = z[b]
      BY <1>6, <2>1, ZenonT(60) DEF Picks
    <3> QED BY <1>5, <3>1 DEF Ordered
  <2>2. \A i \in 1..1 : u[i].ctxs = v
    BY <1>6
  <2>3. ASSUME NEW i \in 1..1, NEW x \in 1..Len(u[i].ctxs), NEW y \in 1..Len(u[i].ctxs), x < y
        PROVE  Prec(u[i].ctxs[x], u[i].ctxs[y])
    BY <2>1, <2>2, <2>3
  <2>4. \A i, j \in 1..1 : ~(i < j)
    OBVIOUS
  <2> QED BY <2>3, <2>4 DEF PartInLine
<1>8. PartInLine(u, 2, Len(u)) /\ \A i \in 2..Len(u) : \A d \in ToSet(u[i].ctxs) : d \in Held(s)
  <2>1. 1 \in Nat /\ 1 + 1 = 2
    OBVIOUS
  <2> QED BY <1>1, <1>2, <2>1, PartFollows
<1>9. \A c \in ToSet(z), j \in 2..Len(u) : \A d \in ToSet(u[j].ctxs) : Prec(c, d)
  <2> SUFFICES ASSUME NEW c \in ToSet(z), NEW j \in 2..Len(u), NEW d \in ToSet(u[j].ctxs) PROVE Prec(c, d)
    OBVIOUS
  <2>1. PICK i \in 1..Len(s) : i <= m /\ c \in ToSet(s[i].ctxs)
    BY <1>2, <1>3, JoinedContexts
  <2>2. PICK k \in 1..Len(s) : k = r[j] /\ u[j] = s[k]
    <3>1. PICK x, l : x \in Nat /\ x = 1 /\ l = ToSet(o) /\ Follows(u, x, s, r, l) /\ j \in (x + 1)..Len(u)
      BY <1>1
    <3>2. r[j] \in 1..Len(s) /\ u[j] = s[r[j]]
      BY <1>2, <3>1, FollowsOld
    <3> QED BY <3>2
  <2>3. i < k /\ d \in ToSet(s[k].ctxs)
    BY <1>1, <1>2, <1>3, <2>1, <2>2
  <2> QED BY <2>1, <2>3 DEF InLine
<1>10. \A c \in ToSet(u[1].ctxs) : c \in ToSet(z)
  BY JoinedContexts
<1>11. InLine(u)
  <2>1. 1 \in Nat /\ 1 + 1 = 2
    OBVIOUS
  <2>2. \A i \in 1..1, j \in 2..Len(u) : \A c \in ToSet(u[i].ctxs), d \in ToSet(u[j].ctxs) : Prec(c, d)
    BY <1>9, <1>10
  <2> QED BY <1>2, <1>7, <1>8, <2>1, <2>2, TwoParts
<1>12. EnableOnce(u)
  <2>1. \A i, j \in 2..Len(u) : u[i].kind # "HookRun" /\ u[i] = u[j] => i = j
    <3>1. 1 \in Nat /\ 1 + 1 = 2
      OBVIOUS
    <3> QED BY <1>1, <1>2, <3>1, LineFollows
  <2>2. ASSUME NEW i \in 1..Len(u), NEW j \in 1..Len(u), u[i].kind # "HookRun", u[i] = u[j] PROVE i = j
    <3>1. i # 1 /\ j # 1
      BY <1>4, <2>2
    <3>2. i \in 2..Len(u) /\ j \in 2..Len(u)
      BY <1>2, <3>1
    <3> QED BY <2>1, <2>2, <3>2
  <2> QED BY <2>2 DEF EnableOnce
<1>13. ASSUME NEW c \in ToSet(z) PROVE c \in Held(s)
  BY <1>2, <1>3, JoinedContexts, HeldIs
<1>14. ASSUME NEW c \in Held(u) PROVE c \in Held(s)
  <2>1. PICK i \in 1..Len(u) : c \in ToSet(u[i].ctxs)
    BY HeldIs
  <2>2. CASE i = 1
    BY <1>10, <1>13, <2>1, <2>2
  <2>3. CASE i # 1
    <3>1. i \in 2..Len(u)
      BY <1>2, <2>3
    <3> QED BY <1>8, <2>1, <3>1
  <2> QED BY <2>2, <2>3
<1>15. ASSUME NEW c \in Gone(z) PROVE c \in Held(s) /\ c \notin Held(u)
  <2>1. PICK a \in 1..Len(z) : c = z[a] /\ Skipped(z, a)
    BY <1>2 DEF Gone
  <2>2. c \in ToSet(z)
    BY <1>1, <2>1, ElementsAre
  <2>3. ASSUME c \in ToSet(u[1].ctxs) PROVE FALSE
    <3>1. v \in Seq(Contexts)
      <4>1. 1 \in 1..Len(u)
        BY <1>2
      <4> QED BY <1>1, <1>6, <4>1, LineType
    <3>2. PICK x \in 1..Len(v) : c = v[x]
      BY <1>6, <2>3, <3>1, ElementsAre
    <3>3. PICK b \in 1..Len(z) : c = z[b] /\ ~Skipped(z, b)
      BY <1>6, <3>2 DEF Picks
    <3>4. a # b
      BY <2>1, <3>3
    <3>5. a < b \/ b < a
      BY <1>2, <3>4
    <3>6. Prec(c, c)
      BY <1>5, <2>1, <3>3, <3>5 DEF Ordered
    <3> QED BY <3>6 DEF Prec
  <2>4. ASSUME NEW j \in 2..Len(u), c \in ToSet(u[j].ctxs) PROVE FALSE
    <3>1. Prec(c, c)
      BY <1>9, <2>2, <2>4
    <3> QED BY <3>1 DEF Prec
  <2>5. c \notin Held(u)
    <3>1. \A i \in 1..Len(u) : i = 1 \/ i \in 2..Len(u)
      BY <1>2
    <3> QED BY <2>3, <2>4, <3>1, HeldIs
  <2> QED BY <1>13, <2>2, <2>5
<1> QED BY <1>11, <1>12, <1>14, <1>15

LEMMA LineJoined ==
    ASSUME TypeInv, PlaceInv, LineInv, [Next]_vars, NEW q \in DOMAIN work, Joined(q)
    PROVE  LineInv'
<1>1. PICK s, o, u, z, r, pick, row, col :
         Replaced(q, s, u) /\ JoinShape(s, o, u, z, r, pick, row, col) /\ heir' = NewHeirs(z)
  BY JoinedView
<1>2. s = queues[q] /\ q \in DOMAIN queues
  BY <1>1 DEF Replaced
<1>3. InLine(s) /\ EnableOnce(s)
  BY <1>2, LineParts
<1>4. /\ InLine(u) /\ EnableOnce(u)
      /\ \A c \in Gone(z) : c \in Held(s) /\ c \notin Held(u)
      /\ \A c \in Held(u) : c \in Held(s)
  BY <1>1, <1>3, JoinInLine
<1>5. done' = done /\ dropped' = dropped /\ tailTasks' = tailTasks
  BY DEF Joined, unmoved
<1>6. DOMAIN heir' = DOMAIN heir \union Gone(z)
  BY <1>1, NewHeirOf
<1>7. ASSUME NEW d, d \in Contexts, Open(d), d \notin Gone(z) PROVE Open(d)'
  <2>1. d \notin DOMAIN heir'
    BY <1>6, <1>7 DEF Open
  <2> QED BY <1>5, <1>7, <2>1, OpenKept
<1>8. \A c \in Held(s) : c \in Contexts /\ Open(c) /\ Known(c) /\ \A d \in Held(tailTasks) : Prec(c, d)
  BY <1>2, QueueHeldType, LineParts
<1>9. ASSUME NEW c \in Held(u) PROVE Open(c)' /\ \A d \in Held(tailTasks') : Prec(c, d)
  BY <1>4, <1>5, <1>7, <1>8
<1>10. ASSUME NEW p \in DOMAIN queues, p # q, NEW c \in Held(queues[p])
       PROVE  c \notin Held(u) /\ Open(c)' /\ \A d \in Held(tailTasks') : Prec(c, d)
  <2>1. c \in Contexts /\ Open(c) /\ \A d \in Held(tailTasks) : Prec(c, d)
    BY QueueHeldType, LineParts
  <2>2. c \notin Held(s)
    BY <1>2, <1>10, LineParts
  <2> QED BY <1>4, <1>5, <1>7, <2>1, <2>2
<1>11. ASSUME NEW c \in Held(tailTasks') PROVE Open(c)'
  <2>1. c \in Held(tailTasks) /\ c \in Contexts /\ Open(c)
    BY <1>5, TailType, LineParts
  <2>2. ~Prec(c, c)
    BY DEF Prec
  <2>3. c \notin Gone(z)
    BY <1>4, <1>8, <2>1, <2>2
  <2> QED BY <1>7, <2>1, <2>3
<1>12. ASSUME NEW c \in done' \union dropped' \union DOMAIN heir' PROVE Known(c)'
  <2>1. CASE c \in done \union dropped \union DOMAIN heir
    BY <2>1, HistoryType, KnownKept, LineParts
  <2>2. CASE c \in Gone(z)
    BY <1>4, <1>8, <2>2, KnownKept
  <2> QED BY <1>5, <1>6, <2>1, <2>2
<1>13. ChannelInv' /\ InLine(tailTasks')
  BY <1>5, ChannelStep, LineParts
<1> QED BY <1>1, <1>4, <1>9, <1>10, <1>11, <1>12, <1>13, LineReplaced

\* A context that has just been taken from its channel comes after all others.
LEMMA LastContext ==
    ASSUME TypeInv, NEW c \in Contexts, NEW d \in Contexts, Known(d), c.n # 0, ~Known(c),
           c.binding \in KubeBindings => c.n = emitted[c.binding]
    PROVE  Prec(d, c)
<1>1. c # d
  OBVIOUS
<1>2. ASSUME d.binding = c.binding, d.binding \in KubeBindings PROVE d.n < c.n
  <2>1. c.n = emitted[c.binding] /\ c.n \in Nat /\ d.n \in Nat
    BY <1>2, ContextFields
  <2>2. d.n # c.n
    BY <1>1, <1>2, ContextFields
  <2>3. CASE d.n = 0
    BY <2>1, <2>3
  <2>4. CASE d.n # 0
    <3>1. d.n <= emitted[d.binding]
      BY <1>2, <2>4 DEF Known
    <3> QED BY <1>2, <2>1, <2>2, <3>1
  <2> QED BY <2>3, <2>4
<1> QED BY <1>1, <1>2 DEF Prec

\* The events handler makes tasks of what it takes from a channel.
LEMMA LineTaken ==
    ASSUME TypeInv, PlaceInv, LineInv, [Next]_vars, queues' = queues, UNCHANGED <<done, dropped, heir>>,
           InLine(tailTasks'),
           \A c \in Held(tailTasks') : /\ c \in Contexts /\ c.n # 0 /\ ~Known(c) /\ Known(c)'
                                       /\ c.binding \in KubeBindings => c.n = emitted[c.binding]
    PROVE  LineInv'
<1>1. ASSUME NEW c \in Held(tailTasks') PROVE Open(c)'
  <2>1. c \notin DOMAIN heir'
    BY LineParts
  <2>2. ASSUME NEW d \in done' \union dropped' PROVE Prec(d, c)
    <3>1. d \in Contexts /\ Known(d)
      BY HistoryType, LineParts
    <3> QED BY <3>1, LastContext
  <2>3. Known(c)'
    OBVIOUS
  <2> QED BY <2>1, <2>2, <2>3, OpenBy
<1>2. ASSUME NEW q \in DOMAIN queues, NEW c \in Held(queues[q]), NEW d \in Held(tailTasks')
      PROVE  Prec(c, d)
  <2>1. c \in Contexts /\ Known(c)
    BY QueueHeldType, LineParts
  <2> QED BY <2>1, LastContext
<1> QED BY <1>1, <1>2, LineUnmoved

LEMMA LineTakeKube ==
    ASSUME TypeInv, PlaceInv, LineInv, [Next]_vars, TakeKubeEvent
    PROVE  LineInv'
<1>1. EventInv /\ kubeCh # << >> /\ kubeCh' = Tail(kubeCh) /\ queues' = queues
      /\ UNCHANGED <<done, dropped, heir, scheduleCh, emitted, stage>>
  BY DEF TakeKubeEvent, TypeInv, results, startup
<1>2. /\ Head(kubeCh) = kubeCh[1] /\ kubeCh[1] \in Contexts /\ Tail(kubeCh) = << >>
      /\ kubeCh[1].binding \in KubeBindings /\ kubeCh[1].n \in Count /\ kubeCh[1].n # 0
      /\ Len(kubeCh) = 1
  BY <1>1, KubeHead
<1>3. PICK c \in Contexts, b \in KubeBindings, n \in Count : c = kubeCh[1] /\ b = c.binding /\ n = c.n
  BY <1>2
<1>4. tailTasks' = << >> \/ tailTasks' = <<BindingRun(b, n, BindingConfig[b].queue)>>
  BY <1>2, <1>3 DEF TakeKubeEvent
<1>5. b \in Bindings /\ b \notin Hook /\ b \notin SchedBindings
  BY NamesApart DEF Bindings
<1>6. c = Context(b, n) /\ n # 0
  BY <1>2, <1>3, ContextFields
<1>7. PICK t : t = BindingRun(b, n, BindingConfig[b].queue) /\ t.ctxs = <<c>> /\ ToSet(t.ctxs) = {c}
  <2>1. BindingConfig[b].queue \in AllQueues
    BY <1>5 DEF AllQueues, NamedQueues
  <2>2. BindingRun(b, n, BindingConfig[b].queue).ctxs = <<c>>
    BY <1>5, <1>6, <2>1, BindingRunGood
  <2>3. ToSet(<<c>>) = {c}
    BY OneContext
  <2> QED BY <2>2, <2>3
<1>8. \A i \in 1..Len(tailTasks') : i = 1 /\ tailTasks'[i] = t
  <2>1. tailTasks' = << >> \/ tailTasks' = <<t>>
    BY <1>4, <1>7
  <2>2. CASE tailTasks' = << >>
    BY <2>2
  <2>3. CASE tailTasks' = <<t>>
    <3>1. Len(tailTasks') = 1 /\ tailTasks'[1] = t
      BY <2>3
    <3> QED BY <3>1
  <2> QED BY <2>1, <2>2, <2>3
<1>9. InLine(tailTasks')
  <2>1. \A i \in 1..Len(tailTasks') : Len(tailTasks'[i].ctxs) = 1
    BY <1>7, <1>8
  <2>2. \A i, j \in 1..Len(tailTasks') : ~(i < j)
    BY <1>8
  <2>3. PICK v : v = tailTasks'
    OBVIOUS
  <2>4. /\ \A i \in 1..Len(v) : Len(v[i].ctxs) = 0 \/ Len(v[i].ctxs) = 1
        /\ \A i, j \in 1..Len(v) : i < j => \A d \in ToSet(v[i].ctxs), e \in ToSet(v[j].ctxs) : Prec(d, e)
    BY <2>1, <2>2, <2>3
  <2>5. InLine(v)
    BY <2>4, SinglesInLine
  <2> QED BY <2>3, <2>5
<1>10. \A d \in Held(tailTasks') : d = c
  BY <1>7, <1>8, HeldIs
<1>11. c \in ToSet(kubeCh) /\ ToSet(kubeCh') = {}
  <2>1. kubeCh \in Seq(Contexts)
    BY <1>1 DEF EventInv
  <2>2. c \in ToSet(kubeCh)
    BY <1>2, <1>3, <2>1, ElementsAre
  <2>3. kubeCh' = << >>
    BY <1>1, <1>2
  <2> QED BY <2>2, <2>3, EmptyFunction DEF ToSet
<1>12. ~Known(c)
  BY <1>3, <1>6, <1>11 DEF Known
<1>13. c.n = emitted[c.binding]
  BY <1>2, <1>3, LineParts DEF ChannelInv
<1>14. Known(c)'
  <2>1. emitted[c.binding] \in Nat /\ emitted'[c.binding] = emitted[c.binding]
    BY <1>1, <1>3, EmittedType
  <2> QED BY <1>3, <1>5, <1>6, <1>11, <1>13, <2>1, KnownBy
<1>15. \A d \in Held(tailTasks') : /\ d \in Contexts /\ d.n # 0 /\ ~Known(d) /\ Known(d)'
                                   /\ d.binding \in KubeBindings => d.n = emitted[d.binding]
  <2> SUFFICES ASSUME NEW d \in Held(tailTasks')
               PROVE  /\ d \in Contexts /\ d.n # 0 /\ ~Known(d) /\ Known(d)'
                      /\ d.binding \in KubeBindings => d.n = emitted[d.binding]
    OBVIOUS
  <2>1. d = c
    BY <1>10
  <2>2. Known(d)'
    BY <1>14, <2>1
  <2> QED BY <1>3, <1>6, <1>12, <1>13, <2>1, <2>2
<1> QED BY <1>1, <1>9, <1>15, LineTaken

LEMMA LineTakeSchedule ==
    ASSUME TypeInv, PlaceInv, LineInv, [Next]_vars, TakeScheduleEvent
    PROVE  LineInv'
<1>1. queues' = queues /\ UNCHANGED <<done, dropped, heir, kubeCh, emitted, stage>>
  BY DEF TakeScheduleEvent, results, startup
<1>2. PICK s, x, n : /\ x \in Crontabs /\ n \in Count
                     /\ n # 0 /\ Len(scheduleCh) = 1 /\ scheduleCh[1].crontab = x /\ scheduleCh[1].n = n
                     /\ scheduleCh' = << >> /\ FiredTasks(tailTasks', s, x, n)
  BY Fired
<1>3. PICK v : v = tailTasks' /\ FiredTasks(v, s, x, n)
  BY <1>2
<1>4. /\ s \in Seq(SchedBindings) /\ Len(v) = Len(s)
      /\ \A i \in 1..Len(s) : v[i] = BindingRun(s[i], n, BindingConfig[s[i]].queue) /\ BindingConfig[s[i]].crontab = x
      /\ \A i, j \in 1..Len(s) : i # j => s[i] # s[j]
  BY <1>3 DEF FiredTasks
<1>5. PICK m \in Nat : m = Len(s) /\ m = Len(v)
  BY <1>4, LenProperties
<1>6. \A i \in 1..m : s[i] \in SchedBindings
  BY <1>4, <1>5, ElementOfSeq
<1>7. ASSUME NEW i \in 1..m
      PROVE  \E c \in Contexts : /\ v[i].ctxs = <<c>> /\ ToSet(v[i].ctxs) = {c}
                                 /\ c.binding = s[i] /\ c.n = n
  <2>1. PICK b \in SchedBindings : b = s[i] /\ b \in Bindings
    BY <1>6 DEF Bindings
  <2>2. BindingConfig[b].queue \in AllQueues
    BY <2>1 DEF AllQueues, NamedQueues
  <2>3. v[i] = BindingRun(b, n, BindingConfig[b].queue)
    BY <1>4, <1>5, <2>1
  <2>4. BindingRun(b, n, BindingConfig[b].queue).ctxs = <<Context(b, n)>>
    BY <1>2, <2>1, <2>2, BindingRunGood
  <2>5. PICK c : c = Context(b, n)
    OBVIOUS
  <2>6. c \in Contexts /\ c.binding = b /\ c.n = n
    BY <1>2, <2>1, <2>5, ContextType
  <2>7. ToSet(<<c>>) = {c}
    BY <2>6, OneContext
  <2>8. v[i].ctxs = <<c>>
    BY <2>3, <2>4, <2>5
  <2> QED BY <2>1, <2>6, <2>7, <2>8
<1>8. InLine(v)
  <2>1. \A i \in 1..m : Len(v[i].ctxs) = 1
    <3> SUFFICES ASSUME NEW i \in 1..m PROVE Len(v[i].ctxs) = 1
      OBVIOUS
    <3>1. PICK c : v[i].ctxs = <<c>>
      BY <1>7
    <3> QED BY <3>1
  <2>2. ASSUME NEW i \in 1..m, NEW j \in 1..m, i < j, NEW c \in ToSet(v[i].ctxs), NEW d \in ToSet(v[j].ctxs)
        PROVE  Prec(c, d)
    <3>1. c.binding = s[i] /\ d.binding = s[j]
      BY <1>7
    <3>2. s[i] # s[j]
      BY <1>4, <1>5, <2>2
    <3> QED BY <3>1, <3>2 DEF Prec
  <2> QED BY <1>5, <2>1, <2>2, SinglesInLine
<1>9. \A c \in Held(v) : /\ c \in Contexts /\ c.n = n /\ c.binding \in SchedBindings
                         /\ BindingConfig[c.binding].crontab = x
  <2> SUFFICES ASSUME NEW c \in Held(v)
               PROVE  /\ c \in Contexts /\ c.n = n /\ c.binding \in SchedBindings
                      /\ BindingConfig[c.binding].crontab = x
    OBVIOUS
  <2>1. PICK i \in 1..m : c \in ToSet(v[i].ctxs)
    BY <1>5, HeldIs
  <2>2. c \in Contexts /\ c.binding = s[i] /\ c.n = n
    BY <1>7, <2>1
  <2> QED BY <1>4, <1>5, <1>6, <2>1, <2>2
<1>10. n = emitted[x] /\ emitted'[x] = emitted[x] /\ emitted[x] \in Nat
  <2>1. \A i \in 1..Len(scheduleCh) : scheduleCh[i].n = emitted[scheduleCh[i].crontab]
    BY LineParts DEF ChannelInv
  <2>2. 1 \in 1..Len(scheduleCh)
    BY <1>2
  <2> QED BY <1>1, <1>2, <2>1, <2>2, EmittedType
<1>11. DOMAIN scheduleCh = 1..Len(scheduleCh)
  BY LenProperties DEF TypeInv, EventInv
<1>12. ASSUME NEW c \in Held(tailTasks')
       PROVE  /\ c \in Contexts /\ c.n # 0 /\ ~Known(c) /\ Known(c)'
              /\ c.binding \in KubeBindings => c.n = emitted[c.binding]
  <2>1. /\ c \in Contexts /\ c.n = n /\ c.binding \in SchedBindings
        /\ BindingConfig[c.binding].crontab = x
    BY <1>3, <1>9
  <2>2. c.n # 0 /\ c.binding \notin KubeBindings /\ c.binding \notin Hook
    BY <1>2, <2>1, NamesApart DEF Bindings
  <2>3. Ticking(c)
    BY <1>2, <1>11, <2>1 DEF Ticking
  <2>4. ~Known(c)
    BY <2>1, <2>2, <2>3 DEF Known
  <2>5. ~Ticking(c)'
    <3>1. DOMAIN scheduleCh' = {}
      BY <1>2, EmptyFunction
    <3> QED BY <3>1, NearBy
  <2>6. Known(c)'
    BY <1>10, <2>1, <2>2, <2>5, KnownBy
  <2> QED BY <2>1, <2>2, <2>4, <2>6
<1> QED BY <1>1, <1>3, <1>8, <1>12, LineTaken

LEMMA LineStep == ASSUME TypeInv, PlaceInv, LineInv, [Next]_vars PROVE LineInv'
BY Shapes, LinePrepopulated, LineStill, LineAdded, LineLeaves, LineEnabled, LineJoined, LineArrives,
   LineTakeKube, LineTakeSchedule

LEMMA LineInit == Init => LineInv
<1> SUFFICES ASSUME Init PROVE LineInv
  OBVIOUS
<1>1. /\ DOMAIN queues = {} /\ tailTasks = << >> /\ kubeCh = << >> /\ scheduleCh = << >>
      /\ done = {} /\ dropped = {} /\ DOMAIN heir = {}
  BY EmptyFunction DEF Init
<1>2. Len(<< >>) = 0 /\ 1..0 = {}
  OBVIOUS
<1>3. ChannelInv
  BY <1>1, <1>2 DEF ChannelInv
<1>4. InLine(tailTasks) /\ Held(tailTasks) = {}
  BY <1>1, <1>2, HeldIs DEF InLine
<1> QED BY <1>1, <1>3, <1>4 DEF LineInv

-----------------------------------------------------------------------------
(* What the order of the contexts says about the lines of the queues.      *)

LEMMA LineOrdered ==
    ASSUME NEW s \in Seq(GoodTasks), InLine(s)
    PROVE  /\ Ordered(ContextsOf(s)) /\ ContextsOf(s) \in Seq(Contexts)
           /\ \A c \in ToSet(ContextsOf(s)) : c \in Held(s)
<1>1. PICK row, col : Gathers(s, Len(s), ContextsOf(s), row, col)
  BY LineGathers
<1>2. PICK n \in Nat : n = Len(s) /\ n <= Len(s)
  BY LenProperties
<1>3. PICK z : z = ContextsOf(s) /\ Gathers(s, n, z, row, col)
  BY <1>1, <1>2
<1>4. Ordered(z)
  BY <1>2, <1>3, GatheredOrdered
<1> QED BY <1>3, <1>4, ContextsOfType, HeldIs

LEMMA OrderedConcat ==
    ASSUME NEW x \in Seq(Contexts), NEW y \in Seq(Contexts), Ordered(x), Ordered(y),
           \A c \in ToSet(x), d \in ToSet(y) : Prec(c, d)
    PROVE  x \o y \in Seq(Contexts) /\ Ordered(x \o y)
           /\ \A c \in ToSet(x \o y) : c \in ToSet(x) \/ c \in ToSet(y)
<1>1. PICK z : z = x \o y
  OBVIOUS
<1>2. /\ z \in Seq(Contexts) /\ Len(z) = Len(x) + Len(y)
      /\ \A i \in 1..Len(z) : z[i] = IF i <= Len(x) THEN x[i] ELSE y[i - Len(x)]
  BY <1>1, ConcatProperties
<1>3. PICK m \in Nat, n \in Nat : m = Len(x) /\ n = Len(y) /\ Len(z) = m + n
  BY <1>2, LenProperties
<1>4. \A i \in 1..m : z[i] = x[i] /\ z[i] \in ToSet(x)
  BY <1>2, <1>3, ElementsAre
<1>5. \A i \in 1..(m + n) : i \notin 1..m => i - m \in 1..n /\ z[i] = y[i - m] /\ z[i] \in ToSet(y)
  <2> SUFFICES ASSUME NEW i \in 1..(m + n), i \notin 1..m
               PROVE  i - m \in 1..n /\ z[i] = y[i - m] /\ z[i] \in ToSet(y)
    OBVIOUS
  <2>1. PICK j \in 1..n : j = i - m
    OBVIOUS
  <2>2. z[i] = y[j]
    BY <1>2, <1>3, <2>1
  <2> QED BY <1>3, <2>1, <2>2, ElementsAre
<1>6. ASSUME NEW a \in 1..(m + n), NEW b \in 1..(m + n), a < b PROVE Prec(z[a], z[b])
  <2>1. CASE b \in 1..m
    <3>1. a \in 1..m
      BY <1>6, <2>1
    <3>2. Prec(x[a], x[b])
      BY <1>3, <1>6, <2>1, <3>1 DEF Ordered
    <3> QED BY <1>4, <2>1, <3>1, <3>2
  <2>2. CASE a \in 1..m /\ b \notin 1..m
    BY <1>4, <1>5, <2>2
  <2>3. CASE a \notin 1..m /\ b \notin 1..m
    <3>1. PICK i \in 1..n, j \in 1..n : i = a - m /\ j = b - m /\ z[a] = y[i] /\ z[b] = y[j]
      BY <1>5, <2>3
    <3>2. i < j
      BY <1>6, <3>1
    <3>3. Prec(y[i], y[j])
      BY <1>3, <3>2 DEF Ordered
    <3> QED BY <3>1, <3>3
  <2> QED BY <2>1, <2>2, <2>3
<1>7. Ordered(z)
  BY <1>3, <1>6 DEF Ordered
<1>8. ASSUME NEW c \in ToSet(z) PROVE c \in ToSet(x) \/ c \in ToSet(y)
  <2>1. PICK i \in 1..(m + n) : c = z[i]
    BY <1>2, <1>3, ElementsAre
  <2> QED BY <1>4, <1>5, <2>1
<1> QED BY <1>1, <1>2, <1>7, <1>8

\* The queue of q: in order, and every context in it is open.
LEMMA QueuedOrdered ==
    ASSUME TypeInv, LineInv, NEW q
    PROVE  /\ Ordered(Queued(q)) /\ Queued(q) \in Seq(Contexts)
           /\ \A c \in ToSet(Queued(q)) : q \in DOMAIN queues /\ c \in Held(queues[q]) /\ c \in Contexts /\ Open(c)
<1>1. CASE q \in DOMAIN queues
  <2>1. queues[q] \in Seq(GoodTasks) /\ InLine(queues[q]) /\ Queued(q) = ContextsOf(queues[q])
    BY <1>1, QueueType, LineParts DEF Queued
  <2> QED BY <1>1, <2>1, LineOrdered, QueueHeldType, LineParts
<1>2. CASE q \notin DOMAIN queues
  <2>1. Queued(q) = << >>
    BY <1>2 DEF Queued
  <2>2. ToSet(<< >>) = {} /\ Ordered(<< >>) /\ << >> \in Seq(Contexts)
    BY EmptyFunction, EmptySeq DEF ToSet, Ordered
  <2> QED BY <2>1, <2>2
<1> QED BY <1>1, <1>2

LEMMA OpenOnce ==
    ASSUME NEW c, Open(c)
    PROVE  c \notin done \union dropped \union DOMAIN heir
<1>1. ~Prec(c, c)
  BY DEF Prec
<1> QED BY <1>1 DEF Open

LEMMA TwiceNever == TypeInv /\ LineInv => NoContextTwice
<1> SUFFICES ASSUME TypeInv, LineInv PROVE NoContextTwice
  OBVIOUS
<1>1. ASSUME NEW q \in DOMAIN queues, NEW i \in DOMAIN Queued(q), NEW j \in DOMAIN Queued(q), i # j
      PROVE  Queued(q)[i] # Queued(q)[j]
  <2>1. PICK z : z = Queued(q) /\ z \in Seq(Contexts) /\ Ordered(z)
    BY QueuedOrdered
  <2>2. i \in 1..Len(z) /\ j \in 1..Len(z) /\ Len(z) \in Nat
    BY <2>1, LenProperties
  <2>3. i < j \/ j < i
    BY <1>1, <2>2
  <2>4. Prec(z[i], z[j]) \/ Prec(z[j], z[i])
    BY <2>1, <2>2, <2>3 DEF Ordered
  <2>5. z[i] # z[j]
    BY <2>4 DEF Prec
  <2> QED BY <2>1, <2>5
<1>2. ASSUME NEW p \in DOMAIN queues, NEW q \in DOMAIN queues, p # q
      PROVE  ToSet(Queued(p)) \intersect ToSet(Queued(q)) = {}
  BY <1>2, QueuedOrdered, LineParts
<1>3. ASSUME NEW c \in done \union dropped \union DOMAIN heir PROVE ~InFlight(c)
  <2>1. c \in Contexts /\ Known(c) /\ ~Open(c)
    BY HistoryType, LineParts, OpenOnce
  <2>2. c \notin ToSet(kubeCh)
    <3> SUFFICES ASSUME c \in ToSet(kubeCh) PROVE FALSE
      OBVIOUS
    <3>1. EventInv /\ kubeCh \in Seq(Contexts)
      BY DEF TypeInv, EventInv
    <3>2. PICK i \in 1..Len(kubeCh) : c = kubeCh[i]
      BY <3>1, ElementsAre
    <3>3. c.binding \in KubeBindings /\ c.n # 0
      BY <3>1, <3>2 DEF EventInv
    <3> QED BY <2>1, <3>3 DEF Known
  <2>3. ~Ticking(c)
    <3> SUFFICES ASSUME Ticking(c) PROVE FALSE
      OBVIOUS
    <3>1. EventInv /\ DOMAIN scheduleCh = 1..Len(scheduleCh)
      BY LenProperties DEF TypeInv, EventInv
    <3>2. c.binding \in SchedBindings /\ c.n # 0
      BY <3>1 DEF EventInv, Ticking
    <3> QED BY <2>1, <3>2 DEF Known
  <2>4. c \notin ToSet(ContextsOf(tailTasks))
    BY <2>1, TailType, LineParts, LineOrdered
  <2>5. ~InQueue(c)
    BY <2>1, QueuedOrdered DEF InQueue
  <2> QED BY <2>2, <2>3, <2>4, <2>5 DEF InFlight
<1> QED BY <1>1, <1>2, <1>3 DEF NoContextTwice

\* The context in the channel comes last.
LEMMA ChannelLast ==
    ASSUME TypeInv, LineInv
    PROVE  /\ kubeCh \in Seq(Contexts) /\ Ordered(kubeCh)
           /\ \A c \in ToSet(kubeCh), d \in Contexts : Known(d) => Prec(d, c)
<1>1. EventInv /\ kubeCh \in Seq(Contexts) /\ Len(kubeCh) <= 1 /\ Len(kubeCh) \in Nat
  BY LenProperties DEF TypeInv, EventInv
<1>2. Ordered(kubeCh)
  <2>1. \A a, b \in 1..Len(kubeCh) : ~(a < b)
    BY <1>1
  <2> QED BY <2>1 DEF Ordered
<1>3. ASSUME NEW c \in ToSet(kubeCh), NEW d \in Contexts, Known(d) PROVE Prec(d, c)
  <2>1. PICK i \in 1..Len(kubeCh) : c = kubeCh[i]
    BY <1>1, ElementsAre
  <2>2. c.binding \in KubeBindings /\ c.n # 0 /\ c.n = emitted[c.binding]
    BY <1>1, <2>1, LineParts DEF EventInv, ChannelInv
  <2>3. c \in Contexts
    BY <1>1, <2>1, ElementOfSeq
  <2>4. ~Known(c)
    BY <1>3, <2>2 DEF Known
  <2> QED BY <1>3, <2>2, <2>3, <2>4, LastContext
<1> QED BY <1>1, <1>2, <1>3

LEMMA WholeLine ==
    ASSUME TypeInv, LineInv, NEW b
    PROVE  /\ Ordered(LineOf(b)) /\ LineOf(b) \in Seq(Contexts)
           /\ \A c \in ToSet(LineOf(b)), d \in done \union dropped : Prec(d, c)
<1>1. PICK x, y : x = Queued(BindingConfig[b].queue) /\ y = ContextsOf(tailTasks)
  OBVIOUS
<1>2. /\ Ordered(x) /\ x \in Seq(Contexts)
      /\ \A c \in ToSet(x) : c \in Contexts /\ Open(c) /\ \A d \in Held(tailTasks) : Prec(c, d)
  BY <1>1, QueuedOrdered, LineParts
<1>3. /\ Ordered(y) /\ y \in Seq(Contexts)
      /\ \A c \in ToSet(y) : c \in Held(tailTasks) /\ c \in Contexts /\ Open(c)
  BY <1>1, TailType, LineParts, LineOrdered
<1>4. PICK z : /\ z = x \o y /\ z \in Seq(Contexts) /\ Ordered(z)
               /\ \A c \in ToSet(z) : c \in ToSet(x) \/ c \in ToSet(y)
  BY <1>2, <1>3, OrderedConcat, ZenonT(60)
<1>5. \A c \in ToSet(z) : c \in Contexts /\ Open(c) /\ Known(c)
  BY <1>2, <1>3, <1>4 DEF Open
<1>6. \A c \in ToSet(z), d \in ToSet(kubeCh) : Prec(c, d)
  BY <1>5, ChannelLast
<1>7. PICK k : k = kubeCh /\ k \in Seq(Contexts) /\ Ordered(k)
  BY ChannelLast
<1>8. PICK w : /\ w = z \o k /\ w \in Seq(Contexts) /\ Ordered(w)
               /\ \A c \in ToSet(w) : c \in ToSet(z) \/ c \in ToSet(k)
  BY <1>4, <1>6, <1>7, OrderedConcat
<1>9. LineOf(b) = w
  BY <1>1, <1>4, <1>7, <1>8 DEF LineOf
<1>10. ASSUME NEW c \in ToSet(w), NEW d \in done \union dropped PROVE Prec(d, c)
  <2>1. CASE c \in ToSet(z)
    BY <1>5, <2>1 DEF Open
  <2>2. CASE c \in ToSet(k)
    BY <1>7, <2>2, ChannelLast, HistoryType, LineParts
  <2> QED BY <1>8, <2>1, <2>2
<1> QED BY <1>8, <1>9, <1>10

LEMMA OrderKept == TypeInv /\ LineInv => InOrder
<1> SUFFICES ASSUME TypeInv, LineInv, NEW b \in KubeBindings
             PROVE  /\ \A i, j \in EventsOf(b) : i < j => LineOf(b)[i].n < LineOf(b)[j].n
                    /\ \A c \in done \union dropped :
                          c.binding = b => \A i \in EventsOf(b) : c.n < LineOf(b)[i].n
  BY DEF InOrder
<1>1. PICK w : /\ w = LineOf(b) /\ w \in Seq(Contexts) /\ Ordered(w)
               /\ \A c \in ToSet(w), d \in done \union dropped : Prec(d, c)
  BY WholeLine
<1>2. \A i \in EventsOf(b) : i \in 1..Len(w) /\ w[i].binding = b /\ w[i].n > 0 /\ w[i] \in ToSet(w) /\ w[i].n # 0
  <2>1. DOMAIN w = 1..Len(w)
    BY <1>1, LenProperties
  <2>2. \A i \in EventsOf(b) : i \in 1..Len(w) /\ w[i].binding = b /\ w[i].n > 0
    BY <1>1, <2>1 DEF EventsOf
  <2>3. \A i \in EventsOf(b) : w[i] \in ToSet(w) /\ w[i] \in Contexts
    BY <1>1, <2>2, ElementsAre, ElementOfSeq
  <2>4. \A i \in EventsOf(b) : w[i].n \in Nat
    BY <2>3, ContextFields
  <2> QED BY <2>2, <2>3, <2>4
<1>3. ASSUME NEW i \in EventsOf(b), NEW j \in EventsOf(b), i < j PROVE w[i].n < w[j].n
  <2>1. Prec(w[i], w[j])
    BY <1>1, <1>2, <1>3 DEF Ordered
  <2> QED BY <1>2, <2>1 DEF Prec
<1>4. ASSUME NEW c \in done \union dropped, c.binding = b, NEW i \in EventsOf(b) PROVE c.n < w[i].n
  <2>1. Prec(c, w[i])
    BY <1>1, <1>2
  <2> QED BY <1>2, <1>4, <2>1 DEF Prec
<1> QED BY <1>1, <1>3, <1>4

\* No context reaches a hook twice by different ways: it is in one place of one
\* queue, and what was handled, given up or compacted by
\* CombineBindingContextForHook is queued nowhere again.
THEOREM NoContextTwiceAlways == Spec => []NoContextTwice
<1> DEFINE Inv == TypeInv /\ PlaceInv /\ LineInv
<1>1. Init => Inv
  BY InitType, PlaceInit, LineInit
<1>2. Inv /\ [Next]_vars => Inv'
  BY TypeStep, PlaceStep, LineStep
<1>3. Inv => NoContextTwice
  BY TwiceNever
<1> QED BY <1>1, <1>2, <1>3, PTL DEF Spec

\* A hook sees the events of a binding in the order of its monitor, for any
\* number of hooks, queues and events.
THEOREM InOrderAlways == Spec => []InOrder
<1> DEFINE Inv == TypeInv /\ PlaceInv /\ LineInv
<1>1. Init => Inv
  BY InitType, PlaceInit, LineInit
<1>2. Inv /\ [Next]_vars => Inv'
  BY TypeStep, PlaceStep, LineStep
<1>3. Inv => InOrder
  BY OrderKept
<1> QED BY <1>1, <1>2, <1>3, PTL DEF Spec

-----------------------------------------------------------------------------
(* The Synchronization of a binding comes before its events.               *)

LEMMA SyncAtBy ==
    ASSUME NEW s, NEW b, NEW j, NEW l, NEW t, t = EnableTask("EnableKubernetesBindings", HookOf(b)),
           NEW x, x = Context(b, 0)
    PROVE  SyncAt(s, b, j, l) <=> \/ \E i \in 1..(j - 1) : s[i] = t \/ x \in ToSet(s[i].ctxs)
                                  \/ \E k \in 1..(l - 1) : s[j].ctxs[k] = x
BY DEF SyncAt

\* An event that stays in a queue whose first task is replaced by k others.
LEMMA SyncFollows ==
    ASSUME NEW u, NEW k, NEW s, NEW r, NEW lost, Follows(u, k, s, r, lost),
           Len(u) \in Nat, Len(s) \in Nat, k \in Nat, NEW b, SyncBefore(s, b),
           NEW t, t = EnableTask("EnableKubernetesBindings", HookOf(b)), NEW x, x = Context(b, 0),
           \A i \in 1..Len(s) : (s[i] = t \/ x \in ToSet(s[i].ctxs)) /\ (i = 1 \/ s[i] \in lost) =>
              \E m \in 1..k : x \in ToSet(u[m].ctxs),
           NEW j \in (k + 1)..Len(u), NEW l \in 1..Len(u[j].ctxs),
           u[j].ctxs[l].binding = b, u[j].ctxs[l].n # 0
    PROVE  SyncAt(u, b, j, l)
<1>1. PICK n \in 1..Len(s) : n = r[j] /\ u[j] = s[n]
  BY FollowsOld
<1>2. l \in 1..Len(s[n].ctxs) /\ s[n].ctxs[l].binding = b /\ s[n].ctxs[l].n # 0
  BY <1>1
<1>3. SyncAt(s, b, n, l)
  BY <1>2 DEF SyncBefore
<1>4. \/ \E i \in 1..(n - 1) : s[i] = t \/ x \in ToSet(s[i].ctxs)
      \/ \E y \in 1..(l - 1) : s[n].ctxs[y] = x
  BY <1>3, SyncAtBy, SMTT(40)
<1>5. CASE \E y \in 1..(l - 1) : s[n].ctxs[y] = x
  <2>1. \E y \in 1..(l - 1) : u[j].ctxs[y] = x
    BY <1>1, <1>5
  <2> QED BY <2>1, SyncAtBy
<1>6. CASE \E i \in 1..(n - 1) : s[i] = t \/ x \in ToSet(s[i].ctxs)
  <2>1. PICK i \in 1..(n - 1) : s[i] = t \/ x \in ToSet(s[i].ctxs)
    BY <1>6
  <2>2. i \in 1..Len(s) /\ i < n
    BY <1>1, <2>1
  <2>3. CASE i = 1 \/ s[i] \in lost
    <3>1. PICK m \in 1..k : x \in ToSet(u[m].ctxs)
      BY <2>1, <2>2, <2>3
    <3>2. m \in 1..(j - 1)
      OBVIOUS
    <3>3. \E y \in 1..(j - 1) : u[y] = t \/ x \in ToSet(u[y].ctxs)
      BY <3>1, <3>2
    <3> QED BY <3>3, SyncAtBy
  <2>4. CASE i # 1 /\ s[i] \notin lost
    <3>1. i \in 2..Len(s)
      BY <2>2, <2>4
    <3>2. PICK m \in (k + 1)..Len(u) : r[m] = i
      BY <2>4, <3>1 DEF Follows
    <3>3. u[m] = s[i]
      BY <3>2, FollowsOld, SMTT(40)
    <3>4. m < j
      <4>1. ~(m = j)
        BY <1>1, <2>2, <3>2
      <4>2. ~(j < m)
        <5>1. j < m => r[j] < r[m]
          BY DEF Follows
        <5> QED BY <1>1, <2>2, <3>2, <5>1
      <4> QED BY <4>1, <4>2
    <3>5. m \in 1..(j - 1)
      BY <3>4
    <3>6. u[m] = t \/ x \in ToSet(u[m].ctxs)
      BY <2>1, <3>3
    <3>7. \E y \in 1..(j - 1) : u[y] = t \/ x \in ToSet(u[y].ctxs)
      BY <3>5, <3>6
    <3> QED BY <3>7, SyncAtBy
  <2> QED BY <2>3, <2>4
<1> QED BY <1>4, <1>5, <1>6

\* What is handled or compacted stays so.
LEMMA HistoryGrows ==
    ASSUME TypeInv, [Next]_vars
    PROVE  done \subseteq done' /\ dropped \subseteq dropped' /\ DOMAIN heir \subseteq DOMAIN heir'
<1>1. ASSUME NEW q \in DOMAIN work, Joined(q) PROVE DOMAIN heir \subseteq DOMAIN heir' /\ done' = done /\ dropped' = dropped
  <2>1. PICK z : heir' = NewHeirs(z)
    BY <1>1 DEF Joined
  <2>2. done' = done /\ dropped' = dropped
    BY <1>1 DEF Joined
  <2> QED BY <2>1, <2>2, NewHeirOf
<1>2. \/ UNCHANGED <<done, dropped, heir>> \/ (\E q \in DOMAIN work : Joined(q))
      \/ (done \subseteq done' /\ dropped \subseteq dropped' /\ heir' = heir)
  BY Shapes DEF Prepopulated, Still, QueueAdded, Leaves, Enabled, Arrives, TakeKubeEvent, TakeScheduleEvent,
                MonitorEvent, CronFires, results, unmoved
<1> QED BY <1>1, <1>2

\* The Synchronization that is still to come is in the main queue, or the task
\* that will put it there is.
LEMMA SyncQueued ==
    ASSUME TypeInv, PlaceInv, LostInv, [Next]_vars, NEW b, InMain(b), Unsynced(b), "main" \in DOMAIN queues,
           NEW t, t = EnableTask("EnableKubernetesBindings", HookOf(b)), NEW x, x = Context(b, 0)
    PROVE  \E i \in 1..Len(queues["main"]) : queues["main"][i] = t \/ x \in ToSet(queues["main"][i].ctxs)
<1>1. b \in KubeBindings /\ b \in Bindings /\ b \notin Hook /\ b \notin SchedBindings /\ b \in SyncBindings(HookOf(b))
      /\ HookOf(b) \in Hook
  BY NamesApart, HookOfBinding DEF InMain, Bindings
<1>2. x \in Contexts /\ x.binding = b /\ x.n = 0
  BY <1>1, ContextType, Bounds
<1>3. CASE Pending("EnableKubernetesBindings", HookOf(b))
  <2>1. Waits(queues, t)
    BY <1>3, PendingIs
  <2> QED BY <2>1 DEF Waits
<1>4. CASE ~Pending("EnableKubernetesBindings", HookOf(b))
  <2>1. x \in Owed
    BY <1>1, <1>4 DEF Owed
  <2>2. x \notin done \union dropped \union DOMAIN heir
    BY DEF Unsynced
  <2>3. Near(x)
    BY <2>1, <2>2 DEF LostInv
  <2>4. x \notin ToSet(kubeCh)
    <3> SUFFICES ASSUME x \in ToSet(kubeCh) PROVE FALSE
      OBVIOUS
    <3>1. EventInv /\ kubeCh \in Seq(Contexts)
      BY DEF TypeInv, EventInv
    <3>2. PICK i \in 1..Len(kubeCh) : x = kubeCh[i]
      BY <3>1, ElementsAre
    <3> QED BY <1>2, <3>1, <3>2 DEF EventInv
  <2>5. ~Ticking(x)
    BY <1>1, <1>2 DEF Ticking
  <2>6. x \notin Held(tailTasks)
    <3> SUFFICES ASSUME x \in Held(tailTasks) PROVE FALSE
      OBVIOUS
    <3>1. PICK i \in 1..Len(tailTasks) : x \in ToSet(tailTasks[i].ctxs)
      BY HeldIs
    <3>2. EventRun(tailTasks[i])
      BY DEF PlaceInv
    <3>3. PICK e : e = tailTasks[i]
      OBVIOUS
    <3>4. PICK y : ToSet(e.ctxs) = {y} /\ y.n # 0
      <4>1. PICK a \in Bindings, n \in Count : n # 0 /\ ToSet(e.ctxs) = {Context(a, n)} /\ Context(a, n).n = n
        BY <3>2, <3>3, EventRunFields, ZenonT(60)
      <4> QED BY <4>1
    <3> QED BY <1>2, <3>1, <3>3, <3>4
  <2>7. PICK q \in DOMAIN queues : x \in Held(queues[q])
    BY <2>2, <2>3, <2>4, <2>5, <2>6 DEF Near
  <2>8. q = "main"
    BY <1>1, <1>2, <2>7, HeldRouted DEF Routed
  <2> QED BY <2>7, <2>8, HeldIs
<1> QED BY <1>3, <1>4

\* What has to be shown of a step for one binding.
SyncNext(b) ==
    /\ \A c \in done' \union dropped' : c.binding = b => c.n = 0
    /\ "main" \in DOMAIN queues' => SyncBefore(queues'["main"], b)

\* What is known before it.
SyncNow(b) ==
    /\ InMain(b) /\ Unsynced(b) /\ Context(b, 0) \notin done' \union dropped' \union DOMAIN heir'
    /\ \A c \in done \union dropped : c.binding = b => c.n = 0
    /\ "main" \in DOMAIN queues => SyncBefore(queues["main"], b)

LEMMA SyncStill ==
    ASSUME NEW b, SyncNow(b), done' = done, dropped' = dropped,
           "main" \in DOMAIN queues' => "main" \in DOMAIN queues /\ queues'["main"] = queues["main"]
    PROVE  SyncNext(b)
BY DEF SyncNow, SyncNext

LEMMA SyncPrepopulated ==
    ASSUME NEW b, SyncNow(b), Prepopulated
    PROVE  SyncNext(b)
<1>1. done' = done /\ dropped' = dropped /\ queues'["main"] = FirstTasks
  BY DEF Prepopulated
<1>2. b \notin Hook
  BY NamesApart DEF SyncNow, InMain, Bindings
<1>3. SyncBefore(FirstTasks, b)
  <2> SUFFICES ASSUME NEW j \in 1..Len(FirstTasks), NEW l \in 1..Len(FirstTasks[j].ctxs),
                      FirstTasks[j].ctxs[l].binding = b
               PROVE  FALSE
    BY DEF SyncBefore
  <2>1. FirstTasks[j].ctxs \in Seq(Contexts)
    BY FirstTasksType, LineType
  <2>2. FirstTasks[j].ctxs[l] \in Held(FirstTasks)
    BY <2>1, ElementsAre, HeldIs
  <2>3. FirstTasks[j].ctxs[l].binding \in Hook
    BY <2>2, FirstTasksLine
  <2> QED BY <1>2, <2>3
<1> QED BY <1>1, <1>3 DEF SyncNow, SyncNext

LEMMA SyncLeaves ==
    ASSUME TypeInv, PlaceInv, [Next]_vars, NEW b, SyncNow(b), NEW q \in DOMAIN work, Leaves(q)
    PROVE  SyncNext(b)
<1>1. PICK s, u, r : Replaced(q, s, u) /\ Len(s) >= 1 /\ Follows(u, 0, s, r, {})
  BY LeavesView
<1>2. /\ Len(s) \in Nat /\ Len(u) \in Nat /\ s = queues[q] /\ q \in DOMAIN queues /\ DOMAIN queues' = DOMAIN queues
      /\ u = queues'[q] /\ s \in Seq(GoodTasks) /\ \A p \in DOMAIN queues : p # q => queues'[p] = queues[p]
  BY <1>1 DEF Replaced
<1>3. /\ done' \union dropped' = done \union dropped \union ToSet(s[1].ctxs)
      /\ s[1].kind # "EnableKubernetesBindings"
  BY <1>2 DEF Leaves
<1>4. PICK t, x : t = EnableTask("EnableKubernetesBindings", HookOf(b)) /\ x = Context(b, 0)
  OBVIOUS
<1>5. x \notin ToSet(s[1].ctxs) /\ s[1] # t
  <2>1. t.kind = "EnableKubernetesBindings"
    BY <1>4, EnableTaskKind
  <2> QED BY <1>3, <1>4, <2>1 DEF SyncNow
<1>6. 1 \in 1..Len(s) /\ s[1].ctxs \in Seq(Contexts)
  BY <1>1, <1>2, LineType
<1>7. /\ b \in KubeBindings /\ BindingConfig[b].queue = "main" /\ b \notin Hook
      /\ "main" \in DOMAIN queues => SyncBefore(queues["main"], b)
      /\ \A c \in done \union dropped : c.binding = b => c.n = 0
  BY NamesApart DEF SyncNow, InMain, Bindings
<1>8. ASSUME NEW c \in ToSet(s[1].ctxs), c.binding = b, c.n # 0 PROVE FALSE
  <2>1. c \in Held(s)
    BY <1>6, HeldIs
  <2>2. q = "main"
    BY <1>2, <1>7, <1>8, <2>1, HeldRouted DEF Routed
  <2>3. PICK l \in 1..Len(s[1].ctxs) : c = s[1].ctxs[l]
    BY <1>6, ElementsAre
  <2>4. SyncBefore(s, b)
    BY <1>2, <1>7, <2>2
  <2>5. SyncAt(s, b, 1, l)
    BY <1>6, <1>8, <2>3, <2>4 DEF SyncBefore
  <2>6. Len(s[1].ctxs) \in Nat /\ 1..(1 - 1) = {}
    BY <1>6, LenProperties
  <2>7. \/ \E i \in 1..(1 - 1) : s[i] = t \/ x \in ToSet(s[i].ctxs)
        \/ \E k \in 1..(l - 1) : s[1].ctxs[k] = x
    BY <1>4, <2>5, SyncAtBy
  <2>8. PICK k \in 1..(l - 1) : s[1].ctxs[k] = x
    BY <2>6, <2>7
  <2>9. k \in 1..Len(s[1].ctxs)
    BY <2>6
  <2>10. x \in ToSet(s[1].ctxs)
    BY <1>6, <2>8, <2>9, ElementsAre
  <2> QED BY <1>5, <2>10
<1>9. \A c \in done' \union dropped' : c.binding = b => c.n = 0
  BY <1>3, <1>7, <1>8
<1>10. ASSUME "main" \in DOMAIN queues', q = "main" PROVE SyncBefore(u, b)
  <2>1. SyncBefore(s, b)
    BY <1>2, <1>7, <1>10
  <2> SUFFICES ASSUME NEW j \in 1..Len(u), NEW l \in 1..Len(u[j].ctxs), u[j].ctxs[l].binding = b, u[j].ctxs[l].n # 0
               PROVE  SyncAt(u, b, j, l)
    BY DEF SyncBefore
  <2>2. PICK k, lost : k \in Nat /\ k = 0 /\ lost = {} /\ Follows(u, k, s, r, lost) /\ j \in (k + 1)..Len(u)
    BY <1>1
  <2>3. \A i \in 1..Len(s) : (s[i] = t \/ x \in ToSet(s[i].ctxs)) /\ (i = 1 \/ s[i] \in lost) =>
           \E m \in 1..k : x \in ToSet(u[m].ctxs)
    BY <1>5, <2>2
  <2> QED BY <1>2, <1>4, <2>1, <2>2, <2>3, SyncFollows
<1>11. "main" \in DOMAIN queues' => SyncBefore(queues'["main"], b)
  <2>1. CASE q = "main"
    BY <1>2, <1>10, <2>1
  <2>2. CASE q # "main"
    BY <1>2, <1>7, <2>2
  <2> QED BY <2>1, <2>2
<1> QED BY <1>9, <1>11 DEF SyncNext

LEMMA SyncEnabled ==
    ASSUME TypeInv, PlaceInv, [Next]_vars, NEW b, SyncNow(b), NEW q \in DOMAIN work, Enabled(q)
    PROVE  SyncNext(b)
<1>1. PICK s, u, r, h, bs : Replaced("main", s, u) /\ SyncHeads(s, u, r, h, bs)
  BY EnabledView
<1>2. Len(s) \in Nat /\ Len(u) \in Nat /\ s = queues["main"] /\ u = queues'["main"] /\ "main" \in DOMAIN queues
  BY <1>1 DEF Replaced
<1>3. done' = done /\ dropped' = dropped
  BY DEF Enabled, unmoved
<1>4. PICK k \in Nat : k = Len(bs) /\ Follows(u, k, s, r, {})
  BY <1>1 DEF SyncHeads
<1>5. PICK t, x : t = EnableTask("EnableKubernetesBindings", HookOf(b)) /\ x = Context(b, 0)
  OBVIOUS
<1>6. s[1] = EnableTask("EnableKubernetesBindings", h)
  BY <1>1 DEF SyncHeads
<1>7. ToSet(s[1].ctxs) = {}
  <2>1. EnableTask("EnableKubernetesBindings", h).ctxs = << >>
    BY DEF EnableTask
  <2>2. s[1].ctxs = << >>
    BY <1>6, <2>1
  <2> QED BY <2>2, EmptyFunction DEF ToSet
<1>8. b \in SyncBindings(HookOf(b)) /\ b \in KubeBindings /\ SyncBefore(s, b)
  BY <1>2 DEF SyncNow, InMain
<1>9. ASSUME s[1] = t PROVE \E m \in 1..k : x \in ToSet(u[m].ctxs)
  <2>1. h = HookOf(b)
    BY <1>5, <1>6, <1>9, EnableTaskKind
  <2>2. PICK m \in 1..k : bs[m] = b
    BY <1>1, <1>4, <1>8, <2>1 DEF SyncHeads
  <2>3. u[m] = BindingRun(b, 0, "main")
    BY <1>1, <1>4, <2>2 DEF SyncHeads
  <2>4. ToSet(u[m].ctxs) = {x}
    BY <1>5, <1>8, <2>3, SyncRunFields
  <2> QED BY <2>4
<1>10. ASSUME NEW j \in 1..k, NEW l \in 1..Len(u[j].ctxs) PROVE u[j].ctxs[l].n = 0
  <2>1. PICK a \in KubeBindings : u[j] = BindingRun(a, 0, "main")
    BY <1>1, <1>4 DEF SyncHeads
  <2>2. u[j].ctxs = <<Context(a, 0)>> /\ Context(a, 0).n = 0
    BY <2>1, SyncRunFields
  <2>3. l = 1
    BY <2>2
  <2> QED BY <2>2, <2>3
<1>11. SyncBefore(u, b)
  <2> SUFFICES ASSUME NEW j \in 1..Len(u), NEW l \in 1..Len(u[j].ctxs), u[j].ctxs[l].binding = b, u[j].ctxs[l].n # 0
               PROVE  SyncAt(u, b, j, l)
    BY DEF SyncBefore
  <2>1. j \in (k + 1)..Len(u)
    BY <1>2, <1>10
  <2>2. PICK lost : lost = {} /\ Follows(u, k, s, r, lost)
    BY <1>4
  <2>3. \A i \in 1..Len(s) : (s[i] = t \/ x \in ToSet(s[i].ctxs)) /\ (i = 1 \/ s[i] \in lost) =>
           \E m \in 1..k : x \in ToSet(u[m].ctxs)
    BY <1>7, <1>9, <2>2
  <2>4. SyncBefore(s, b) /\ Len(u) \in Nat /\ Len(s) \in Nat
    BY <1>2, <1>8
  <2>5. Follows(u, k, s, r, lost)
    BY <2>2
  <2> QED BY <1>5, <2>1, <2>3, <2>4, <2>5, SyncFollows
<1> QED BY <1>2, <1>3, <1>11 DEF SyncNow, SyncNext

\* The combined task keeps what was before an event before it.
LEMMA SyncCompacted ==
    ASSUME NEW s, NEW o, NEW u, NEW z, NEW r, NEW pick, NEW row, NEW col,
           JoinShape(s, o, u, z, r, pick, row, col), NEW b, SyncBefore(s, b),
           NEW x, x = Context(b, 0), x \notin Gone(z), NEW v, v = u[1].ctxs,
           NEW l \in 1..Len(v), v[l].binding = b, v[l].n # 0
    PROVE  \E k \in 1..(l - 1) : v[k] = x
<1>1. /\ z \in Seq(Contexts) /\ s \in Seq(GoodTasks)
      /\ Gathers(s, Len(o) + 1, z, row, col)
      /\ \A i \in 1..(Len(o) + 1) : s[i].kind = "HookRun"
  BY JoinParts
<1>2. Len(o) \in Nat /\ Len(o) + 1 <= Len(s) /\ Len(s) \in Nat /\ Len(z) \in Nat /\ DOMAIN z = 1..Len(z)
  BY JoinLengths
<1>3. PICK n \in Nat : n = Len(o) + 1 /\ n <= Len(s) /\ Gathers(s, n, z, row, col)
  BY <1>1, <1>2
<1>4. Picks(z, {i \in 1..Len(z) : ~Skipped(z, i)}, v, pick) /\ Len(v) \in Nat
  BY JoinParts, JoinLengths, ZenonT(60)
<1>5. PICK a \in 1..Len(z) : a = pick[l] /\ v[l] = z[a]
  BY <1>4 DEF Picks
<1>6. PICK i, y : i = row[a] /\ y = col[a] /\ i \in 1..n /\ y \in 1..Len(s[i].ctxs) /\ z[a] = s[i].ctxs[y]
  BY <1>3 DEF Gathers
<1>7. i \in 1..Len(s) /\ Len(s[i].ctxs) \in Nat /\ \A e \in 1..n : e \in 1..Len(s) /\ s[e].ctxs \in Seq(Contexts)
  <2>1. \A e \in 1..n : e \in 1..Len(s)
    BY <1>2, <1>3
  <2>2. \A e \in 1..Len(s) : s[e].ctxs \in Seq(Contexts)
    BY <1>1, LineType
  <2> QED BY <1>6, <2>1, <2>2, LenProperties
<1>8. SyncAt(s, b, i, y)
  BY <1>5, <1>6, <1>7 DEF SyncBefore
<1>9. PICK t : t = EnableTask("EnableKubernetesBindings", HookOf(b)) /\ t.kind = "EnableKubernetesBindings"
  BY EnableTaskKind
<1>10. \/ \E e \in 1..(i - 1) : s[e] = t \/ x \in ToSet(s[e].ctxs)
       \/ \E e \in 1..(y - 1) : s[i].ctxs[e] = x
  BY <1>8, <1>9, SyncAtBy
<1>11. PICK e, f : /\ e \in 1..n /\ f \in 1..Len(s[e].ctxs) /\ s[e].ctxs[f] = x
                   /\ e < i \/ (e = i /\ f < y)
  <2>1. CASE \E e \in 1..(i - 1) : s[e] = t \/ x \in ToSet(s[e].ctxs)
    <3>1. PICK e \in 1..(i - 1) : s[e] = t \/ x \in ToSet(s[e].ctxs)
      BY <2>1
    <3>2. e \in 1..n /\ e < i
      BY <1>6, <3>1
    <3>3. x \in ToSet(s[e].ctxs)
      BY <1>1, <1>3, <1>9, <3>1, <3>2
    <3>4. PICK f \in 1..Len(s[e].ctxs) : s[e].ctxs[f] = x
      BY <1>7, <3>2, <3>3, ElementsAre
    <3> QED BY <3>2, <3>4
  <2>2. CASE \E e \in 1..(y - 1) : s[i].ctxs[e] = x
    <3>1. PICK f \in 1..(y - 1) : s[i].ctxs[f] = x
      BY <2>2
    <3>2. f \in 1..Len(s[i].ctxs) /\ f < y
      BY <1>6, <1>7, <3>1, SMTT(40)
    <3> QED BY <1>6, <3>1, <3>2
  <2> QED BY <1>10, <2>1, <2>2
<1>12. PICK d \in 1..Len(z) : row[d] = e /\ col[d] = f /\ z[d] = s[row[d]].ctxs[col[d]]
  <2>1. \A g \in 1..n : \A j \in 1..Len(s[g].ctxs) : \E k \in 1..Len(z) : row[k] = g /\ col[k] = j
    BY <1>3 DEF Gathers
  <2>2. \A k \in 1..Len(z) : z[k] = s[row[k]].ctxs[col[k]]
    BY <1>3 DEF Gathers
  <2>3. PICK d \in 1..Len(z) : row[d] = e /\ col[d] = f
    BY <1>11, <2>1, ZenonT(60)
  <2> QED BY <2>2, <2>3
<1>13. z[d] = x
  BY <1>11, <1>12
<1>14. ~Skipped(z, d)
  BY <1>2, <1>12, <1>13 DEF Gone
<1>15. PICK k \in 1..Len(v) : pick[k] = d /\ v[k] = z[d]
  BY <1>4, <1>12, <1>14 DEF Picks
<1>16. d < a
  <2>1. ~(d = a)
    BY <1>6, <1>7, <1>11, <1>12
  <2>2. ~(a < d)
    <3> SUFFICES ASSUME a < d PROVE FALSE
      OBVIOUS
    <3>1. row[a] < row[d] \/ (row[a] = row[d] /\ col[a] < col[d])
      BY <1>3 DEF Gathers
    <3>2. i < e \/ (i = e /\ y < f)
      BY <1>6, <1>12, <3>1
    <3>3. i \in Nat /\ e \in Nat /\ y \in Nat /\ f \in Nat
      BY <1>6, <1>11, SMTT(40)
    <3> QED BY <1>11, <3>2, <3>3
  <2> QED BY <1>2, <2>1, <2>2
<1>17. k < l
  <2>1. k # l
    BY <1>5, <1>15, <1>16
  <2>2. ~(l < k)
    <3> SUFFICES ASSUME l < k PROVE FALSE
      OBVIOUS
    <3>1. pick[l] < pick[k]
      BY <1>4 DEF Picks
    <3> QED BY <1>2, <1>5, <1>15, <1>16, <3>1
  <2> QED BY <1>4, <2>1, <2>2
<1>18. k \in 1..(l - 1)
  BY <1>4, <1>17
<1> QED BY <1>13, <1>15, <1>18

LEMMA SyncJoined ==
    ASSUME TypeInv, PlaceInv, [Next]_vars, NEW b, SyncNow(b), NEW q \in DOMAIN work, Joined(q)
    PROVE  SyncNext(b)
<1>1. PICK s, o, u, z, r, pick, row, col :
         Replaced(q, s, u) /\ JoinShape(s, o, u, z, r, pick, row, col) /\ heir' = NewHeirs(z)
  BY JoinedView
<1>2. /\ s = queues[q] /\ q \in DOMAIN queues /\ u = queues'[q] /\ DOMAIN queues' = DOMAIN queues
      /\ \A p \in DOMAIN queues : p # q => queues'[p] = queues[p]
  BY <1>1 DEF Replaced
<1>3. done' = done /\ dropped' = dropped
  BY DEF Joined, unmoved
<1>4. CASE q # "main"
  BY <1>2, <1>3, <1>4, SyncStill
<1>5. CASE q = "main"
  <2>1. SyncBefore(s, b)
    BY <1>2, <1>5 DEF SyncNow
  <2>2. PICK t, x : t = EnableTask("EnableKubernetesBindings", HookOf(b)) /\ x = Context(b, 0)
                    /\ t.kind = "EnableKubernetesBindings"
    BY EnableTaskKind
  <2>3. x \notin Gone(z)
    <3>1. DOMAIN heir' = DOMAIN heir \union Gone(z)
      BY <1>1, NewHeirOf
    <3> QED BY <2>2, <3>1 DEF SyncNow
  <2>4. /\ Follows(u, 1, s, r, ToSet(o))
        /\ \A i \in 1..(Len(o) + 1) : s[i].kind = "HookRun"
        /\ \A e \in ToSet(o) : \E i \in 2..(Len(o) + 1) : e = s[i]
    <3>1. JoinShape(s, o, u, z, r, pick, row, col)
      BY <1>1
    <3>2. Follows(u, 1, s, r, ToSet(o))
      BY <3>1, JoinParts
    <3>3. \A e \in ToSet(o) : \E i \in 2..(Len(o) + 1) : e = s[i]
      BY <3>1, Zenon DEF JoinShape
    <3>4. \A i \in 1..(Len(o) + 1) : s[i].kind = "HookRun"
      BY <3>1, JoinParts
    <3> QED BY <3>2, <3>3, <3>4
  <2>5. /\ Len(o) \in Nat /\ Len(o) + 1 <= Len(s) /\ Len(s) \in Nat /\ Len(u) \in Nat /\ Len(u) >= 1
    BY <1>1, JoinLengths
  <2>6. PICK n \in Nat : n = Len(o) + 1
    BY <2>5
  <2>7. /\ \A i \in 1..n : \A c \in ToSet(s[i].ctxs) : c \in ToSet(z)
        /\ \A c \in ToSet(z) : c \in ToSet(u[1].ctxs) \/ c \in Gone(z)
    <3>1. /\ \A i \in 1..(Len(o) + 1) : \A c \in ToSet(s[i].ctxs) : c \in ToSet(z)
          /\ \A c \in ToSet(z) : c \in ToSet(u[1].ctxs) \/ c \in Gone(z)
      BY <1>1, JoinedContexts
    <3> QED BY <2>6, <3>1
  <2>8. PICK k, lost : k \in Nat /\ k = 1 /\ lost = ToSet(o) /\ Follows(u, k, s, r, lost)
    BY <2>4
  <2>9. ASSUME NEW i \in 1..Len(s), s[i] = t \/ x \in ToSet(s[i].ctxs), i = 1 \/ s[i] \in lost
        PROVE  \E m \in 1..k : x \in ToSet(u[m].ctxs)
    <3>1. PICK j \in 1..n : s[i] = s[j]
      <4>1. CASE i = 1
        <5>1. 1 \in 1..n
          BY <2>5, <2>6
        <5> QED BY <4>1, <5>1
      <4>2. CASE s[i] \in lost
        <5>1. PICK j \in 2..n : s[i] = s[j]
          BY <2>4, <2>6, <2>8, <4>2
        <5>2. j \in 1..n
          BY <5>1
        <5> QED BY <5>1, <5>2
      <4> QED BY <2>9, <4>1, <4>2
    <3>2. s[j].kind = "HookRun"
      BY <2>4, <2>6
    <3>3. x \in ToSet(s[j].ctxs)
      BY <2>2, <2>9, <3>1, <3>2
    <3>4. x \in ToSet(u[1].ctxs) /\ 1 \in 1..k
      BY <2>3, <2>7, <2>8, <3>3
    <3> QED BY <3>4
  <2>10. ASSUME NEW j \in 1..Len(u), NEW l \in 1..Len(u[j].ctxs), u[j].ctxs[l].binding = b, u[j].ctxs[l].n # 0
         PROVE  SyncAt(u, b, j, l)
    <3>1. CASE j = 1
      <4>1. PICK v : v = u[1].ctxs /\ l \in 1..Len(v) /\ v[l].binding = b /\ v[l].n # 0
        BY <2>10, <3>1
      <4>2. \E i \in 1..(l - 1) : v[i] = x
        BY <1>1, <2>1, <2>2, <2>3, <4>1, SyncCompacted
      <4>3. \E i \in 1..(l - 1) : u[j].ctxs[i] = x
        BY <3>1, <4>1, <4>2
      <4> QED BY <2>2, <4>3, SyncAtBy
    <3>2. CASE j # 1
      <4>1. j \in (k + 1)..Len(u)
        BY <2>5, <2>8, <3>2
      <4>2. Follows(u, k, s, r, lost) /\ k \in Nat
        BY <2>8
      <4>3. t = EnableTask("EnableKubernetesBindings", HookOf(b)) /\ x = Context(b, 0)
        BY <2>2
      <4>4. Len(u) \in Nat /\ Len(s) \in Nat
        BY <2>5
      <4> QED BY <2>1, <2>9, <2>10, <4>1, <4>2, <4>3, <4>4, SyncFollows
    <3> QED BY <3>1, <3>2
  <2>11. SyncBefore(u, b)
    BY <2>10 DEF SyncBefore
  <2> QED BY <1>2, <1>3, <1>5, <2>11 DEF SyncNow, SyncNext
<1> QED BY <1>4, <1>5

LEMMA SyncArrives ==
    ASSUME TypeInv, PlaceInv, LostInv, [Next]_vars, NEW b, SyncNow(b), NEW e \in EventTasks, Arrives(e)
    PROVE  SyncNext(b)
<1>1. PICK q, s, u : q = e.queue /\ Replaced(q, s, u) /\ Moved(s, u, e, tailTasks, tailTasks')
  BY ArrivesView
<1>2. /\ Len(s) \in Nat /\ s = queues[q] /\ q \in DOMAIN queues /\ u = queues'[q] /\ DOMAIN queues' = DOMAIN queues
      /\ \A p \in DOMAIN queues : p # q => queues'[p] = queues[p]
  BY <1>1 DEF Replaced
<1>3. done' = done /\ dropped' = dropped
  BY DEF Arrives
<1>4. CASE q # "main"
  BY <1>2, <1>3, <1>4, SyncStill
<1>5. CASE q = "main"
  <2>1. SyncBefore(s, b) /\ InMain(b) /\ Unsynced(b)
    BY <1>2, <1>5 DEF SyncNow
  <2>2. PICK t, x : t = EnableTask("EnableKubernetesBindings", HookOf(b)) /\ x = Context(b, 0)
    OBVIOUS
  <2>3. PICK i \in 1..Len(s) : s[i] = t \/ x \in ToSet(s[i].ctxs)
    BY <1>2, <1>5, <2>1, <2>2, SyncQueued
  <2>4. Len(u) = Len(s) + 1 /\ \A j \in 1..Len(s) : u[j] = s[j]
    BY <1>1 DEF Moved
  <2>5. PICK m \in Nat : m = Len(s) /\ Len(u) = m + 1 /\ \A j \in 1..m : u[j] = s[j]
    BY <1>2, <2>4
  <2>6. ASSUME NEW j \in 1..(m + 1), NEW l \in 1..Len(u[j].ctxs), u[j].ctxs[l].binding = b, u[j].ctxs[l].n # 0
        PROVE  SyncAt(u, b, j, l)
    <3>1. CASE j = m + 1
      <4>1. i \in 1..(j - 1) /\ u[i] = s[i]
        BY <2>3, <2>5, <3>1
      <4>2. \E y \in 1..(j - 1) : u[y] = t \/ x \in ToSet(u[y].ctxs)
        BY <2>3, <4>1
      <4> QED BY <2>2, <4>2, SyncAtBy
    <3>2. CASE j \in 1..m
      <4>1. u[j] = s[j] /\ \A y \in 1..(j - 1) : u[y] = s[y]
        BY <2>5, <3>2
      <4>2. l \in 1..Len(s[j].ctxs) /\ s[j].ctxs[l].binding = b /\ s[j].ctxs[l].n # 0
        BY <2>6, <4>1
      <4>3. SyncAt(s, b, j, l)
        BY <2>1, <2>5, <3>2, <4>2 DEF SyncBefore
      <4>4. \/ \E y \in 1..(j - 1) : s[y] = t \/ x \in ToSet(s[y].ctxs)
            \/ \E y \in 1..(l - 1) : s[j].ctxs[y] = x
        BY <2>2, <4>3, SyncAtBy
      <4>5. \/ \E y \in 1..(j - 1) : u[y] = t \/ x \in ToSet(u[y].ctxs)
            \/ \E y \in 1..(l - 1) : u[j].ctxs[y] = x
        BY <4>1, <4>4
      <4> QED BY <2>2, <4>5, SyncAtBy
    <3> QED BY <2>5, <3>1, <3>2
  <2>7. SyncBefore(u, b)
    BY <2>5, <2>6 DEF SyncBefore
  <2> QED BY <1>2, <1>3, <1>5, <2>7 DEF SyncNow, SyncNext
<1> QED BY <1>4, <1>5

LEMMA SyncStep ==
    ASSUME TypeInv, PlaceInv, LostInv, SyncInv, [Next]_vars
    PROVE  SyncInv'
<1>1. ASSUME NEW b \in KubeBindings, InMain(b), Context(b, 0) \notin done' \union dropped' \union DOMAIN heir'
      PROVE  SyncNext(b)
  <2>1. Unsynced(b)
    BY <1>1, HistoryGrows DEF Unsynced
  <2>2. SyncNow(b)
    BY <1>1, <2>1 DEF SyncInv, SyncNow
  <2>3. ASSUME NEW q \in NamedQueues, QueueAdded(q) PROVE SyncNext(b)
    BY <2>2, <2>3, SyncStill DEF QueueAdded, unmoved
  <2>4. CASE Still \/ TakeKubeEvent \/ TakeScheduleEvent
             \/ (\E a \in KubeBindings : MonitorEvent(a)) \/ (\E x \in Crontabs : CronFires(x))
    <3>1. done' = done /\ dropped' = dropped /\ queues' = queues
      BY <2>4 DEF Still, TakeKubeEvent, TakeScheduleEvent, MonitorEvent, CronFires, results
    <3> QED BY <2>2, <3>1, SyncStill
  <2>5. CASE Prepopulated
    BY <2>2, <2>5, SyncPrepopulated
  <2>6. ASSUME NEW q \in DOMAIN work, Leaves(q) \/ Enabled(q) \/ Joined(q) PROVE SyncNext(b)
    BY <2>2, <2>6, SyncLeaves, SyncEnabled, SyncJoined
  <2>7. ASSUME NEW e \in EventTasks, Arrives(e) PROVE SyncNext(b)
    BY <2>2, <2>7, SyncArrives
  <2> QED BY <2>3, <2>4, <2>5, <2>6, <2>7, Shapes
<1>2. ASSUME NEW b \in KubeBindings, InMain(b), Context(b, 0) \notin done' \union dropped' \union DOMAIN heir'
      PROVE  /\ \A c \in done' \union dropped' : c.binding = b => c.n = 0
             /\ "main" \in DOMAIN queues' => SyncBefore(queues'["main"], b)
  BY <1>1, <1>2 DEF SyncNext
<1> QED BY <1>2 DEF SyncInv, Unsynced, InMain

LEMMA SyncInit == Init => SyncInv
<1> SUFFICES ASSUME Init PROVE SyncInv
  OBVIOUS
<1>1. DOMAIN queues = {} /\ done = {} /\ dropped = {}
  BY EmptyFunction DEF Init
<1> QED BY <1>1 DEF SyncInv

LEMMA SyncIsFirst == TypeInv /\ PlaceInv /\ LineInv /\ SyncInv => SyncFirstInMain
<1> SUFFICES ASSUME TypeInv, PlaceInv, LineInv, SyncInv, NEW h \in Hook, NEW b \in SyncBindings(h),
                    BindingConfig[b].queue = "main", EventGiven(b), Unsynced(b)
             PROVE  \E q \in DOMAIN work : \E i \in DOMAIN Given(q) :
                       /\ Given(q)[i] = Context(b, 0) /\ \A j \in 1..(i - 1) : Given(q)[j].binding # b
  BY DEF SyncFirstInMain, SyncFirst, SyncSeen, Unsynced
<1>1. b \in KubeBindings /\ HookOf(b) = h /\ b \notin Hook
  <2>1. b \in ToSet(Kube(h))
    BY DEF SyncBindings
  <2>2. b \in BindingsOf(h)
    BY <2>1 DEF BindingsOf
  <2>3. b \in KubeBindings
    BY <2>1, ConfigSeqs
  <2> QED BY <2>2, <2>3, HookOfBinding, NamesApart DEF Bindings
<1>2. /\ \A c \in done \union dropped : c.binding = b => c.n = 0
      /\ "main" \in DOMAIN queues => SyncBefore(queues["main"], b)
  BY <1>1 DEF SyncInv, InMain
<1>3. PICK x : x = Context(b, 0) /\ x.binding = b /\ x.n = 0 /\ x \in Contexts
  BY <1>1, SyncRunFields
<1>4. ASSUME NEW c \in Contexts, c.binding = b, c.n = 0 PROVE c = x
  BY <1>3, <1>4, ContextFields
<1>5. \A c \in done \union dropped : c.binding = b => ~(c.n > 0)
  BY <1>2
<1>6. PICK q \in DOMAIN work : \E c \in ToSet(Given(q)) : c.binding = b /\ c.n > 0
  BY <1>5 DEF EventGiven
<1>7. PICK c : c \in ToSet(Given(q)) /\ c.binding = b /\ c.n > 0
  BY <1>6
<1>8. work[q].at = "run"
  <2>1. ASSUME work[q].at # "run" PROVE FALSE
    <3>1. Given(q) = << >>
      BY <2>1 DEF Given
    <3>2. ToSet(<< >>) = {}
      BY EmptyFunction DEF ToSet
    <3> QED BY <1>7, <3>1, <3>2
  <2> QED BY <2>1
<1>9. PICK s : s = queues[q] /\ s \in Seq(GoodTasks) /\ s # << >> /\ s[1] \in GoodTasks /\ Head(s) = s[1]
               /\ s[1].ctxs \in Seq(Contexts) /\ q \in DOMAIN queues
  BY <1>8, BusyHead, WorkerHead, WorkerQueue
<1>10. PICK v : v = s[1].ctxs /\ v = Given(q) /\ v \in Seq(Contexts) /\ Len(v) \in Nat /\ DOMAIN v = 1..Len(v)
  BY <1>8, <1>9, LenProperties DEF Given
<1>11. Len(s) \in Nat /\ 1 \in 1..Len(s)
  <2>1. Len(s) \in Nat /\ Len(s) # 0
    BY <1>9, LenProperties, EmptySeq
  <2> QED BY <2>1
<1>12. q = "main"
  <2>1. c \in Held(queues[q])
    BY <1>7, <1>9, <1>10, <1>11, HeldIs
  <2>2. c \in Contexts /\ c.n # 0
    BY <1>7, <1>9, <2>1, QueueHeldType, ContextFields
  <2> QED BY <1>1, <1>7, <1>9, <2>1, <2>2, HeldRouted DEF Routed
<1>13. ASSUME NEW l \in 1..Len(v), v[l].binding = b, v[l].n # 0 PROVE \E k \in 1..(l - 1) : v[k] = x
  <2>1. l \in 1..Len(s[1].ctxs) /\ s[1].ctxs[l].binding = b /\ s[1].ctxs[l].n # 0
    BY <1>10, <1>13
  <2>2. SyncAt(s, b, 1, l)
    BY <1>2, <1>9, <1>11, <1>12, <2>1 DEF SyncBefore
  <2>3. PICK t : t = EnableTask("EnableKubernetesBindings", HookOf(b))
    OBVIOUS
  <2>4. \/ \E i \in 1..(1 - 1) : s[i] = t \/ x \in ToSet(s[i].ctxs)
        \/ \E k \in 1..(l - 1) : s[1].ctxs[k] = x
    BY <1>3, <2>2, <2>3, SyncAtBy
  <2>5. 1..(1 - 1) = {}
    OBVIOUS
  <2> QED BY <1>10, <2>4, <2>5
<1>14. PICK l \in 1..Len(v) : c = v[l]
  BY <1>7, <1>10, ElementsAre
<1>15. v[l].binding = b /\ v[l].n # 0
  <2>1. v[l] \in Contexts
    BY <1>10, <1>14, ElementOfSeq
  <2> QED BY <1>7, <1>14, <2>1, ContextFields
<1>16. PICK k \in 1..(l - 1) : v[k] = x
  BY <1>13, <1>15
<1>17. k \in 1..Len(v)
  BY <1>10, <1>16
<1>18. \A i, j \in 1..Len(v) : i < j => v[i] # v[j]
  <2>1. InLine(s)
    BY <1>9, LineParts
  <2>2. \A i, j \in 1..Len(v) : i < j => Prec(v[i], v[j])
    BY <1>10, <1>11, <2>1 DEF InLine
  <2> QED BY <2>2 DEF Prec
<1>19. ASSUME NEW j \in 1..(k - 1), v[j].binding = b PROVE FALSE
  <2>1. j \in 1..Len(v) /\ j < k
    BY <1>10, <1>17
  <2>2. v[j] \in Contexts
    BY <1>10, <2>1, ElementOfSeq
  <2>3. CASE v[j].n = 0
    <3>1. v[j] = x
      BY <1>4, <1>19, <2>2, <2>3
    <3> QED BY <1>16, <1>17, <1>18, <2>1, <3>1
  <2>4. CASE v[j].n # 0
    <3>1. PICK i \in 1..(j - 1) : v[i] = x
      BY <1>13, <1>19, <2>1, <2>4
    <3>2. i \in 1..Len(v) /\ i < k
      BY <1>10, <1>17, <2>1
    <3> QED BY <1>16, <1>17, <1>18, <3>1, <3>2
  <2> QED BY <2>3, <2>4
<1>20. k \in DOMAIN Given(q) /\ Given(q)[k] = Context(b, 0) /\ \A j \in 1..(k - 1) : Given(q)[j].binding # b
  BY <1>3, <1>10, <1>16, <1>17, <1>19
<1> QED BY <1>20

\* A hook is run with the Synchronization of a binding before it is run with an
\* event of it, when both go to the main queue (where
\* TaskHandleEnableKubernetesBindings puts the Synchronization tasks at the head,
\* though it starts the monitors before).
THEOREM SyncFirstInMainAlways == Spec => []SyncFirstInMain
<1> DEFINE Inv == TypeInv /\ PlaceInv /\ LinkInv /\ LostInv /\ LineInv /\ SyncInv
<1>1. Init => Inv
  BY InitType, PlaceInit, LinkInit, LostInit, LineInit, SyncInit
<1>2. Inv /\ [Next]_vars => Inv'
  BY TypeStep, PlaceStep, LinkStep, LostStep, LineStep, SyncStep
<1>3. Inv => SyncFirstInMain
  BY SyncIsFirst
<1> QED BY <1>1, <1>2, <1>3, PTL DEF Spec
==============================================================================
