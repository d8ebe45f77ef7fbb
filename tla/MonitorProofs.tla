---------------------------- MODULE MonitorProofs ----------------------------
(***************************************************************************)
(* Proofs about Monitor, for any number of namespaces and any sequence of  *)
(* changes, lost watches and failures.                                     *)
(***************************************************************************)
EXTENDS Monitor, FiniteSetTheorems, SequenceTheorems, TLAPS

Notes == [type : {"Added", "Deleted"}, ns : Namespace]

\* Before Start there are no informers at work and no notifications; addFn is
\* busy only with a namespace that has no entry; a monitor has static informers
\* or notifications, never both.
StageInv ==
    /\ stage \in {"new", "creating"} =>
          running = {} /\ adding = None /\ notes = << >> /\ watch = "none"
    /\ adding # None => ByLabels /\ VaryingInformers[adding] = None
    /\ notes # << >> => ByLabels
    /\ watch # "none" => ByLabels
    /\ ByLabels => ResourceInformers = {}
    /\ VaryingInformers \in [Namespace -> Informer \union {None, Failed}]

IInv == TypeOK /\ StageInv /\ NoOrphan

LEMMA EntryFacts ==
    /\ None # Failed
    /\ \A i \in Informer : i # None /\ i # Failed
<1> QED BY MonitorAssumption DEF Informer

LEMMA InitInv == Init => IInv
<1> SUFFICES ASSUME Init PROVE IInv
  OBVIOUS
<1>1. notes \in Seq(Notes)
  BY DEF Init
<1> QED BY <1>1 DEF Init, IInv, TypeOK, StageInv, NoOrphan, Notes, ByLabels

\* A list of the SharedInformer yields well-formed notifications.
LEMMA ListedType ==
    ASSUME TypeOK, InformerLists
    PROVE  notes' \in Seq(Notes)
<1> DEFINE S == (matching \ store) \union (store \ matching)
           Of(n) == Note(IF n \in matching THEN "Added" ELSE "Deleted", n)
<1>1. PICK order \in SetToSeqs(S) : notes' = notes \o [i \in DOMAIN order |-> Of(order[i])]
  BY DEF InformerLists
<1>2. Cardinality(S) \in Nat
  <2>1. S \subseteq Namespace
    BY DEF TypeOK
  <2> QED BY <2>1, MonitorAssumption, FS_Subset, FS_CardinalityType
<1>3. order \in [1..Cardinality(S) -> S]
  BY DEF SetToSeqs
<1>4. \A n \in S : Of(n) \in Notes
  BY DEF Note, Notes, TypeOK
<1> DEFINE new == [i \in DOMAIN order |-> Of(order[i])]
           k == Cardinality(S)
<1>5. new \in [1..k -> Notes]
  BY <1>3, <1>4
<1>6. new \in Seq(Notes)
  <2> HIDE DEF new, k
  <2>1. k \in Nat
    BY <1>2 DEF k
  <2> QED BY <1>5, <2>1, SeqDef
<1> HIDE DEF new, S
<1>7. notes \in Seq(Notes)
  BY DEF TypeOK, Notes
<1> QED BY <1>1, <1>6, <1>7 DEF new

LEMMA EnvironmentStep == ASSUME IInv, Environment PROVE IInv'
<1> USE DEF IInv, StageInv, TypeOK, NoOrphan, ByLabels
<1>1. ASSUME NEW n \in Namespace, NEW type \in {"Added", "Deleted"}, NamespaceChanges(n, type)
      PROVE  IInv'
  <2>1. Note(type, n) \in Notes /\ notes \in Seq(Notes)
    BY DEF Note, Notes
  <2>2. notes' \in Seq(Notes)
    BY <1>1, <2>1 DEF NamespaceChanges
  <2>3. matching' \subseteq Namespace /\ store' \subseteq Namespace /\ missed' \subseteq Namespace
    BY <1>1 DEF NamespaceChanges
  <2>4. notes' # << >> => ByLabels
    BY <1>1 DEF NamespaceChanges, Watching
  <2>5. stage \in {"new", "creating"} => notes' = << >>
    BY <1>1 DEF NamespaceChanges, Watching
  <2> QED BY <1>1, <2>2, <2>3, <2>4, <2>5 DEF NamespaceChanges, maps, informers, Notes
<1>2. CASE WatchBreaks
  BY <1>2 DEF WatchBreaks, Watching, maps, informers
<1>3. CASE InformerLists
  <2>1. notes' \in Seq(Notes)
    BY <1>3, ListedType
  <2>2. missed' \subseteq Namespace
    BY <1>3 DEF InformerLists, Registered
  <2> QED BY <1>3, <2>1, <2>2 DEF InformerLists, maps, informers, Notes
<1> QED BY <1>1, <1>2, <1>3 DEF Environment, NamespaceAppears, NamespaceLeaves

LEMMA AddMonitorStep == ASSUME IInv, AddMonitor PROVE IInv'
<1> USE DEF IInv, StageInv, TypeOK, NoOrphan, ByLabels
<1>1. CASE Create
  BY <1>1 DEF Create, server, maps, informers
<1>2. ASSUME NEW n \in Namespace, CreateInformersForNamespace(n) PROVE IInv'
  <2>1. NewInformer(n) \in [ns : {n}, gen : Nat] /\ NewInformer(n) \in Informer
    BY DEF NewInformer, Informer
  <2>2. running = {} /\ adding = None
    BY <1>2 DEF CreateInformersForNamespace
  <2>3. \A p \in Namespace :
            VaryingInformers'[p] \in {None, Failed} \union [ns : {p}, gen : Nat]
    BY <1>2, <2>1 DEF CreateInformersForNamespace
  <2>4. VaryingInformers' \in [Namespace -> Informer \union {None, Failed}]
    BY <1>2, <2>1 DEF CreateInformersForNamespace
  <2>5. born' \in [Namespace -> Nat]
    BY <1>2 DEF CreateInformersForNamespace
  <2> QED BY <1>2, <2>1, <2>2, <2>3, <2>4, <2>5
          DEF CreateInformersForNamespace, server, informers
<1>3. ASSUME NEW n \in Namespace, CreateFails(n) PROVE IInv'
  <2>1. running = {} /\ adding = None
    BY <1>3 DEF CreateFails
  <2>2. \A p \in Namespace :
            VaryingInformers'[p] \in {None, Failed} \union [ns : {p}, gen : Nat]
    BY <1>3 DEF CreateFails
  <2>3. VaryingInformers' \in [Namespace -> Informer \union {None, Failed}]
    BY <1>3 DEF CreateFails
  <2> QED BY <1>3, <2>1, <2>2, <2>3 DEF CreateFails, server, informers
<1> QED BY <1>1, <1>2, <1>3 DEF AddMonitor

\* The informers in the map are informers of their namespaces.
LEMMA VaryingFacts ==
    ASSUME TypeOK, StageInv
    PROVE  \A i \in Varying : i \in Informer /\ i.ns \in Namespace /\ VaryingInformers[i.ns] = i
<1> SUFFICES ASSUME NEW n \in Namespace, VaryingInformers[n] # None, VaryingInformers[n] # Failed
             PROVE  /\ VaryingInformers[n] \in Informer
                    /\ VaryingInformers[n].ns = n
  BY DEF Varying, Registered
<1>1. VaryingInformers[n] \in [ns : {n}, gen : Nat]
  BY DEF TypeOK
<1> QED BY <1>1 DEF Informer

LEMMA ControlStep ==
    ASSUME IInv, \/ Start \/ Stop \/ PauseInformers \/ PauseNamespaceInformer
                 \/ \E i \in running : InformerEnds(i)
    PROVE  IInv'
<1> USE DEF IInv, StageInv, TypeOK, NoOrphan, ByLabels
<1> DEFINE vs == Varying
<1>0. \A i \in vs : i \in Informer /\ i.ns \in Namespace /\ VaryingInformers[i.ns] = i
  BY VaryingFacts
<1> HIDE DEF vs
<1>1. CASE Start
  <2>1. running' = ResourceInformers \union vs /\ cancelForNs' = VaryingInformers
    BY <1>1 DEF Start, vs
  <2>2. UNCHANGED <<server, failures, staticNamespaces, todo, ResourceInformers,
                    VaryingInformers, born, cancelled, paused, pausing, adding, late>>
    BY <1>1 DEF Start
  <2>3. stage' = "started"
    BY <1>1 DEF Start
  <2>4. NoOrphan'
    BY <1>0, <2>1, <2>2
  <2> QED BY <1>0, <2>1, <2>2, <2>3, <2>4 DEF server
<1>2. CASE Stop
  BY <1>2 DEF Stop, server, maps
<1>3. CASE PauseInformers
  <2>1. paused' \subseteq Informer
    BY <1>0, <1>3 DEF PauseInformers, vs
  <2> QED BY <1>3, <2>1 DEF PauseInformers, server, maps
<1>4. CASE PauseNamespaceInformer
  BY <1>4 DEF PauseNamespaceInformer, server, maps, informers
<1>5. ASSUME NEW i \in running, InformerEnds(i) PROVE IInv'
  BY <1>5 DEF InformerEnds, server, maps
<1> QED BY <1>1, <1>2, <1>3, <1>4, <1>5

\* What a notification leaves of the queue, and what it is.
LEMMA TakeNoteFacts ==
    ASSUME TypeOK, notes # << >>
    PROVE  Head(notes) \in Notes /\ Head(notes).ns \in Namespace /\ Tail(notes) \in Seq(Notes)
<1>1. notes \in Seq(Notes)
  BY DEF TypeOK, Notes
<1>2. Head(notes) \in Notes /\ Tail(notes) \in Seq(Notes)
  BY <1>1
<1> QED BY <1>2 DEF Notes

LEMMA OnAddStep == ASSUME IInv, OnAdd PROVE IInv'
<1> USE DEF IInv, StageInv, TypeOK, NoOrphan, ByLabels
<1>1. /\ notes # << >> /\ notes' = Tail(notes)
      /\ Head(notes).ns \in Namespace /\ notes' \in Seq(Notes)
  BY TakeNoteFacts DEF OnAdd, TakeNote
<1>2. stage \in {"started", "stopped"}
  BY <1>1
<1>3. adding' = None \/ (adding' \in Namespace /\ VaryingInformers[adding'] = None)
  BY <1>1 DEF OnAdd, Registered
<1> QED BY <1>1, <1>2, <1>3 DEF OnAdd, TakeNote, Notes

LEMMA OnDeleteStep == ASSUME IInv, OnDelete PROVE IInv'
<1> USE DEF IInv, StageInv, TypeOK, NoOrphan, ByLabels
<1> DEFINE n == Head(notes).ns
<1>1. /\ notes # << >> /\ notes' = Tail(notes)
      /\ n \in Namespace /\ notes' \in Seq(Notes)
  BY TakeNoteFacts DEF OnDelete, TakeNote
<1>2. stage \in {"started", "stopped"} /\ cancelForNs = VaryingInformers
  BY <1>1
<1> HIDE DEF n
<1>3. CASE UNCHANGED <<VaryingInformers, cancelForNs, cancelled>>
  BY <1>1, <1>2, <1>3 DEF OnDelete, TakeNote, Notes
<1>4. CASE /\ VaryingInformers[n] # None
           /\ cancelled' = cancelled \union ({VaryingInformers[n]} \ {Failed})
           /\ VaryingInformers' = [VaryingInformers EXCEPT ![n] = None]
           /\ cancelForNs' = [cancelForNs EXCEPT ![n] = None]
  <2>1. adding' = None /\ UNCHANGED <<running, ResourceInformers, stage, staticNamespaces, watch>>
    BY <1>1 DEF OnDelete, TakeNote
  <2>2. \A p \in Namespace :
            VaryingInformers'[p] \in {None, Failed} \union [ns : {p}, gen : Nat]
    BY <1>1, <1>4
  <2>3. VaryingInformers' \in [Namespace -> Informer \union {None, Failed}]
    BY <1>1, <1>4
  <2>4. cancelForNs' = VaryingInformers'
    BY <1>2, <1>4
  <2>5. cancelled' \subseteq Informer
    BY <1>1, <1>4
  <2>6. NoOrphan'
    <3> SUFFICES ASSUME NEW i \in running \ cancelled', i \notin ResourceInformers
                 PROVE  VaryingInformers'[i.ns] = i /\ cancelForNs'[i.ns] = i
      BY <2>1
    <3>1. i \in Informer /\ i.ns \in Namespace /\ VaryingInformers[i.ns] = i
      BY <1>4 DEF Informer
    <3>2. i.ns # n
      BY <1>4, <3>1, EntryFacts
    <3> QED BY <1>1, <1>2, <1>4, <3>1, <3>2
  <2> QED BY <1>1, <1>2, <2>1, <2>2, <2>3, <2>4, <2>5, <2>6 DEF OnDelete, TakeNote, Notes
<1> QED BY <1>2, <1>3, <1>4 DEF OnDelete, n

\* addFn replaces the empty entry of its namespace.
LEMMA AddFnStep == ASSUME IInv, AddFn \/ AddFnFails PROVE IInv'
<1> USE DEF IInv, StageInv, TypeOK, NoOrphan, ByLabels
<1>1. /\ adding \in Namespace /\ VaryingInformers[adding] = None
      /\ stage \in {"started", "stopped"} /\ cancelForNs = VaryingInformers
      /\ ResourceInformers = {}
  BY DEF AddFn, AddFnFails
<1> DEFINE new == NewInformer(adding)
<1>2. new \in [ns : {adding}, gen : Nat] /\ new \in Informer /\ new.ns = adding
  BY <1>1 DEF NewInformer, Informer
<1> HIDE DEF new
<1>3. PICK entry \in {new, Failed} : Register(adding, entry)
  BY DEF AddFn, AddFnFails, new
<1>4. \A p \in Namespace :
          VaryingInformers'[p] \in {None, Failed} \union [ns : {p}, gen : Nat]
  BY <1>1, <1>2, <1>3 DEF Register
<1>5. VaryingInformers' \in [Namespace -> Informer \union {None, Failed}]
  BY <1>1, <1>2, <1>3 DEF Register
<1>6. cancelForNs' = VaryingInformers' /\ adding' = None
  BY <1>1, <1>3 DEF Register
<1>7. /\ running' \subseteq running \union {new}
      /\ cancelled \subseteq cancelled' /\ cancelled' \subseteq Informer
      /\ new \in running' => entry = new \/ new \in running
  BY <1>1, <1>2, <1>3, EntryFacts DEF AddFn, AddFnFails, new, Register
<1>8. NoOrphan'
  <2> SUFFICES ASSUME NEW i \in running' \ cancelled'
               PROVE  VaryingInformers'[i.ns] = i /\ cancelForNs'[i.ns] = i
    OBVIOUS
  <2>1. CASE i \in running
    <3>1. i \in Informer /\ i.ns \in Namespace /\ VaryingInformers[i.ns] = i
      BY <1>1, <1>7, <2>1 DEF Informer
    <3>2. i.ns # adding
      BY <1>1, <3>1, EntryFacts
    <3> QED BY <1>3, <1>6, <3>1, <3>2 DEF Register
  <2>2. CASE i \notin running
    <3>1. i = new /\ entry = new
      BY <1>7, <2>2
    <3> QED BY <1>1, <1>2, <1>3, <1>6, <3>1 DEF Register
  <2> QED BY <2>1, <2>2
<1>9. born' \in [Namespace -> Nat] /\ late' \in Nat
  BY <1>1 DEF AddFn, AddFnFails
<1> QED BY <1>1, <1>2, <1>3, <1>4, <1>5, <1>6, <1>7, <1>8, <1>9 DEF Register, server

LEMMA StepInv == IInv /\ [Next]_vars => IInv'
<1> SUFFICES ASSUME IInv, [Next]_vars PROVE IInv'
  OBVIOUS
<1>1. CASE UNCHANGED vars
  BY <1>1 DEF vars, IInv, StageInv, TypeOK, NoOrphan, ByLabels
<1> QED BY <1>1, EnvironmentStep, AddMonitorStep, ControlStep, OnAddStep, OnDeleteStep, AddFnStep
        DEF Next, NamespaceInformer

LEMMA InvAlways == Spec => []IInv
<1> QED BY InitInv, StepInv, PTL DEF Spec

\* The variables of a monitor keep their types, and the map of informers and the
\* map of their cancel functions agree from Start on.
THEOREM TypeCorrect == Spec => []TypeOK
<1>1. IInv => TypeOK
  BY DEF IInv
<1> QED BY <1>1, InvAlways, PTL

\* However often a namespace comes and goes, whatever is listed twice and
\* whichever informers cannot be made, no namespace has an informer at work that
\* the monitor has lost sight of.
THEOREM NoOrphanAlways == Spec => []NoOrphan
<1>1. IInv => NoOrphan
  BY DEF IInv
<1> QED BY <1>1, InvAlways, PTL

-----------------------------------------------------------------------------
(* The late informer.  Once the flag of the namespace informer is set no   *)
(* notification gives addFn a namespace: at most the one it has is left.   *)

LateInv ==
    /\ late \in Nat
    /\ late <= 1
    /\ late = 1 => niStopped /\ adding = None

LEMMA LateStep == ASSUME LateInv, [Next]_vars PROVE LateInv'
<1> USE DEF LateInv, niStopped, server
<1>1. CASE UNCHANGED vars
  BY <1>1 DEF vars
<1>2. CASE Environment
  BY <1>2 DEF Environment, NamespaceAppears, NamespaceLeaves, NamespaceChanges, WatchBreaks,
              InformerLists
<1>3. CASE AddMonitor
  BY <1>3 DEF AddMonitor, Create, CreateInformersForNamespace, CreateFails
<1>4. CASE Start \/ Stop \/ PauseInformers \/ PauseNamespaceInformer
  BY <1>4 DEF Start, Stop, PauseInformers, PauseNamespaceInformer
<1>5. CASE OnAdd \/ OnDelete
  BY <1>5 DEF OnAdd, OnDelete, TakeNote
<1>6. CASE AddFn \/ AddFnFails
  BY <1>6 DEF AddFn, AddFnFails, Register
<1>7. ASSUME NEW i \in running, InformerEnds(i) PROVE LateInv'
  BY <1>7 DEF InformerEnds
<1> QED BY <1>1, <1>2, <1>3, <1>4, <1>5, <1>6, <1>7 DEF Next, NamespaceInformer

\* However many notifications are waiting when PauseHandleEvents is over, and
\* whatever comes later, at most one more informer is started.
THEOREM AtMostOneLateAlways == Spec => []AtMostOneLate
<1>1. Init => LateInv
  BY DEF Init, LateInv
<1>2. LateInv => AtMostOneLate
  BY DEF LateInv, AtMostOneLate
<1> QED BY <1>1, <1>2, LateStep, PTL DEF Spec

-----------------------------------------------------------------------------
(* The watched namespaces.  The informers in the map are those at work:    *)
(* an informer that is made has a number no informer of its namespace had  *)
(* before, so that it is not among the cancelled ones.                     *)

HasInformer(n) == VaryingInformers[n] \notin {None, Failed}
Numbered(i) == i.gen < born[i.ns]

WorkInv ==
    /\ \A i \in running \union cancelled \union ResourceInformers : Numbered(i)
    /\ \A n \in Namespace : HasInformer(n) => Numbered(VaryingInformers[n])
    /\ stage \in {"new", "creating"} => cancelled = {}
    /\ stage = "started" => \A n \in Namespace :
                              HasInformer(n) => VaryingInformers[n] \in running \ cancelled

\* There is no notification about n; there is none after the i-th about its namespace.
Silent(n, s) == \A i \in 1..Len(s) : s[i].ns # n
LastNote(s, i) == i \in 1..Len(s) /\ \A j \in 1..Len(s) : i < j => s[j].ns # s[i].ns

\* The namespaces that have informers or are about to.
Taken == Registered \union ({adding} \ {None})

\* What the notifications will have done to the map when they are handled: the
\* last one about a namespace says whether the SharedInformer has it, and a
\* namespace nothing is waiting for has informers if the SharedInformer has it
\* or if it has missed the deletion.
NotesInv ==
    /\ watch = "none" => store = {} /\ notes = << >> /\ adding = None /\ missed = {}
    /\ Watching => store = matching
    /\ missed \cap store = {}
    /\ \A n \in missed : Silent(n, notes)
    /\ \A i \in 1..Len(notes) :
          LastNote(notes, i) => (notes[i].type = "Added" <=> notes[i].ns \in store)
    /\ watch # "none" /\ ~niStopped =>
          \A n \in Namespace : Silent(n, notes) => (n \in Taken <=> n \in store \union missed)

LEMMA WorkStep == ASSUME IInv, IInv', WorkInv, [Next]_vars PROVE WorkInv'
<1> USE DEF WorkInv, Numbered, HasInformer
<1>0. /\ running \subseteq Informer /\ cancelled \subseteq Informer
      /\ ResourceInformers \subseteq Informer
      /\ born \in [Namespace -> Nat]
      /\ VaryingInformers \in [Namespace -> Informer \union {None, Failed}]
      /\ \A n \in Namespace : HasInformer(n) => VaryingInformers[n] \in Informer
                                              /\ VaryingInformers[n].ns = n
      /\ \A i \in Informer : i.ns \in Namespace /\ i.gen \in Nat
  BY DEF IInv, TypeOK, StageInv, Informer
<1>1. CASE UNCHANGED <<stage, ResourceInformers, VaryingInformers, born, running, cancelled>>
  BY <1>1
<1>2. CASE Create
  BY <1>2 DEF Create, maps, informers
<1>3. ASSUME NEW n \in Namespace, CreateInformersForNamespace(n) PROVE WorkInv'
  <2>1. NewInformer(n).ns = n /\ NewInformer(n).gen = born[n]
    BY DEF NewInformer
  <2>2. PICK new : new = NewInformer(n)
    OBVIOUS
  <2>3. /\ born' = [born EXCEPT ![n] = @ + 1]
        /\ UNCHANGED <<stage, running, cancelled>>
        /\ stage = "creating"
        /\ \/ /\ VaryingInformers' = [VaryingInformers EXCEPT ![n] = new]
              /\ UNCHANGED ResourceInformers
           \/ /\ ResourceInformers' = ResourceInformers \union {new}
              /\ UNCHANGED VaryingInformers
    BY <1>3, <2>2 DEF CreateInformersForNamespace, informers
  <2> QED BY <1>0, <2>1, <2>2, <2>3
<1>4. ASSUME NEW n \in Namespace, CreateFails(n) PROVE WorkInv'
  BY <1>0, <1>4 DEF CreateFails, informers
<1>5. CASE Start
  <2>1. \A n \in Namespace : HasInformer(n) => VaryingInformers[n] \in Varying
    BY DEF Varying, Registered
  <2>2. \A i \in Varying : i.ns \in Namespace /\ HasInformer(i.ns) /\ VaryingInformers[i.ns] = i
    BY VaryingFacts, EntryFacts DEF IInv
  <2> QED BY <1>0, <1>5, <2>1, <2>2 DEF Start
<1>6. CASE Stop
  BY <1>6 DEF Stop, maps
<1>7. ASSUME NEW i \in running, InformerEnds(i) PROVE WorkInv'
  BY <1>7 DEF InformerEnds, maps
<1>8. CASE OnDelete
  <2>1. Head(notes).ns \in Namespace
    BY <1>8, TakeNoteFacts DEF OnDelete, TakeNote, IInv
  <2>2. PICK n \in Namespace : n = Head(notes).ns
    BY <2>1
  <2>3. notes # << >> /\ UNCHANGED <<stage, ResourceInformers, born, running>>
    BY <1>8 DEF OnDelete, TakeNote
  <2>4. cancelForNs = VaryingInformers
    BY <2>3 DEF IInv, StageInv, TypeOK
  <2>5. CASE UNCHANGED <<VaryingInformers, cancelled>>
    BY <2>3, <2>5
  <2>6. CASE /\ VaryingInformers[n] # None
             /\ cancelled' = cancelled \union ({VaryingInformers[n]} \ {Failed})
             /\ VaryingInformers' = [VaryingInformers EXCEPT ![n] = None]
    <3>1. stage \notin {"new", "creating"}
      BY <2>3 DEF IInv, StageInv
    <3>2. \A i \in cancelled' : i \in cancelled \/ (HasInformer(n) /\ i = VaryingInformers[n])
      BY <2>6
    <3>3. \A p \in Namespace : HasInformer(p)' =>
              /\ HasInformer(p) /\ VaryingInformers'[p] = VaryingInformers[p]
              /\ VaryingInformers[p] \in cancelled' => VaryingInformers[p] \in cancelled
      BY <1>0, <2>6, <3>2
    <3> QED BY <1>0, <2>3, <3>1, <3>2, <3>3
  <2> QED BY <1>8, <2>2, <2>4, <2>5, <2>6 DEF OnDelete
<1>9. CASE AddFn \/ AddFnFails
  <2>1. adding \in Namespace /\ stage \notin {"new", "creating"}
    BY <1>9 DEF AddFn, AddFnFails, IInv, TypeOK, StageInv
  <2>2. PICK n \in Namespace : n = adding
    BY <2>1
  <2>3. PICK new : new = NewInformer(n)
    OBVIOUS
  <2>4. new \in Informer /\ new.ns = n /\ new.gen = born[n]
    BY <1>0, <2>3 DEF NewInformer, Informer
  <2>5. CASE AddFn
    <3>1. /\ VaryingInformers' = [VaryingInformers EXCEPT ![n] = new]
          /\ born' = [born EXCEPT ![n] = @ + 1]
          /\ running' = running \union {new}
          /\ cancelled' = IF stage = "stopped" THEN cancelled \union {new} ELSE cancelled
          /\ UNCHANGED <<stage, ResourceInformers>>
      BY <2>2, <2>3, <2>5 DEF AddFn, Register
    <3>2. new \notin cancelled
      BY <2>4, <1>0
    <3>3. \A i \in Informer : Numbered(i) => Numbered(i)'
      BY <1>0, <3>1
    <3>4. Numbered(new)'
      BY <1>0, <2>4, <3>1
    <3> QED BY <1>0, <2>1, <3>1, <3>2, <3>3, <3>4
  <2>6. CASE AddFnFails
    BY <1>0, <2>1, <2>6 DEF AddFnFails, Register
  <2> QED BY <1>9, <2>5, <2>6
<1>10. CASE Environment \/ PauseInformers \/ PauseNamespaceInformer \/ OnAdd
  BY <1>1, <1>10 DEF Environment, NamespaceAppears, NamespaceLeaves, NamespaceChanges, WatchBreaks,
                     InformerLists, PauseInformers, PauseNamespaceInformer, OnAdd, TakeNote,
                     maps, informers
<1> QED BY <1>1, <1>2, <1>3, <1>4, <1>5, <1>6, <1>7, <1>8, <1>9, <1>10
        DEF Next, NamespaceInformer, AddMonitor, vars

\* Handling the first notification: what is silent then, and what was last stays last.
LEMMA TailNotes ==
    ASSUME NEW s \in Seq(Notes), s # << >>
    PROVE  /\ Len(Tail(s)) = Len(s) - 1
           /\ \A i \in 1..Len(Tail(s)) : Tail(s)[i] = s[i + 1]
           /\ \A n : Silent(n, Tail(s)) /\ n # Head(s).ns => Silent(n, s)
           /\ \A n : Silent(n, s) => Silent(n, Tail(s))
           /\ Silent(Head(s).ns, Tail(s)) => LastNote(s, 1)
           /\ \A i \in 1..Len(Tail(s)) : LastNote(Tail(s), i) => LastNote(s, i + 1)
<1>1. Len(s) \in Nat /\ Len(s) > 0 /\ Head(s) = s[1]
  OBVIOUS
<1>2. /\ Len(Tail(s)) = Len(s) - 1
      /\ \A i \in 1..Len(Tail(s)) : Tail(s)[i] = s[i + 1]
  OBVIOUS
<1>3. \A j \in 1..Len(s) : j = 1 \/ (j - 1 \in 1..Len(Tail(s)) /\ Tail(s)[j - 1] = s[j])
  BY <1>1, <1>2
<1>4. \A n : Silent(n, Tail(s)) /\ n # Head(s).ns => Silent(n, s)
  BY <1>1, <1>3 DEF Silent
<1>5. \A n : Silent(n, s) => Silent(n, Tail(s))
  BY <1>1, <1>2 DEF Silent
<1>6. Silent(Head(s).ns, Tail(s)) => LastNote(s, 1)
  BY <1>1, <1>3 DEF Silent, LastNote
<1>7. \A i \in 1..Len(Tail(s)) : LastNote(Tail(s), i) => LastNote(s, i + 1)
  <2> SUFFICES ASSUME NEW i \in 1..Len(Tail(s)), LastNote(Tail(s), i),
                      NEW j \in 1..Len(s), i + 1 < j
               PROVE  s[j].ns # s[i + 1].ns
    BY <1>1, <1>2 DEF LastNote
  <2>1. j - 1 \in 1..Len(Tail(s)) /\ i < j - 1 /\ Tail(s)[j - 1] = s[j]
    BY <1>1, <1>3
  <2> QED BY <1>2, <2>1 DEF LastNote
<1> QED BY <1>2, <1>4, <1>5, <1>6, <1>7

\* New notifications behind the others.
LEMMA MoreNotes ==
    ASSUME NEW s \in Seq(Notes), NEW t \in Seq(Notes)
    PROVE  /\ Len(s \o t) = Len(s) + Len(t)
           /\ \A n : Silent(n, s \o t) <=> Silent(n, s) /\ Silent(n, t)
           /\ \A i \in 1..Len(s \o t) : LastNote(s \o t, i) =>
                 \/ i \in 1..Len(s) /\ LastNote(s, i) /\ Silent(s[i].ns, t) /\ (s \o t)[i] = s[i]
                 \/ \E j \in 1..Len(t) : (s \o t)[i] = t[j]
<1>1. /\ Len(s) \in Nat /\ Len(t) \in Nat /\ Len(s \o t) = Len(s) + Len(t)
      /\ \A i \in 1..Len(s) : (s \o t)[i] = s[i] /\ i \in 1..Len(s \o t)
      /\ \A j \in 1..Len(t) : (s \o t)[Len(s) + j] = t[j] /\ Len(s) + j \in 1..Len(s \o t)
      /\ \A i \in 1..Len(s \o t) : i \in 1..Len(s) \/ (i - Len(s) \in 1..Len(t)
                                                       /\ (s \o t)[i] = t[i - Len(s)])
  OBVIOUS
<1>2. \A n : Silent(n, s \o t) <=> Silent(n, s) /\ Silent(n, t)
  <2> PICK u : u = s \o t
    OBVIOUS
  <2> QED BY <1>1 DEF Silent
<1>3. ASSUME NEW i \in 1..Len(s), LastNote(s \o t, i) PROVE LastNote(s, i) /\ Silent(s[i].ns, t)
  <2>1. LastNote(s, i)
    BY <1>1, <1>3 DEF LastNote
  <2>2. \A j \in 1..Len(t) : i < Len(s) + j
    BY <1>1
  <2>3. Silent(s[i].ns, t)
    BY <1>1, <1>3, <2>2 DEF LastNote, Silent
  <2> QED BY <2>1, <2>3
<1> QED BY <1>1, <1>2, <1>3

\* A list of the SharedInformer yields a notification for every difference
\* between its store and the cluster, and no others.
LEMMA ListedNotes ==
    ASSUME TypeOK, InformerLists
    PROVE  \E new \in Seq(Notes) :
              /\ notes' = notes \o new
              /\ \A j \in 1..Len(new) : /\ new[j].ns \in Namespace
                                        /\ new[j].ns \in matching <=> new[j].ns \notin store
                                        /\ new[j].type = "Added" <=> new[j].ns \in matching
              /\ \A n \in Namespace : (n \in matching <=> n \notin store) => ~Silent(n, new)
<1> DEFINE S == (matching \ store) \union (store \ matching)
           Of(n) == Note(IF n \in matching THEN "Added" ELSE "Deleted", n)
<1>1. PICK order \in SetToSeqs(S) : notes' = notes \o [i \in DOMAIN order |-> Of(order[i])]
  BY DEF InformerLists
<1>2. IsFiniteSet(S) /\ Cardinality(S) \in Nat
  <2>1. S \subseteq Namespace
    BY DEF TypeOK
  <2> QED BY <2>1, MonitorAssumption, FS_Subset, FS_CardinalityType
<1> DEFINE k == Cardinality(S)
<1>3. order \in [1..k -> S] /\ \A i, j \in 1..k : order[i] = order[j] => i = j
  BY DEF SetToSeqs
<1>4. \A n \in S : \E i \in 1..k : order[i] = n
  <2> HIDE DEF S
  <2>1. order \in Injection(1..k, S)
    BY <1>3 DEF Injection, IsInjective
  <2>2. Cardinality(1..k) = k
    BY <1>2, FS_Interval
  <2>3. order \in Surjection(1..k, S)
    BY <1>2, <2>1, <2>2, FS_Injection
  <2> QED BY <2>3 DEF Surjection
<1> DEFINE new == [i \in DOMAIN order |-> Of(order[i])]
<1>5. /\ new \in [1..k -> Notes]
      /\ \A i \in 1..k : new[i].ns = order[i] /\ (new[i].type = "Added" <=> order[i] \in matching)
  BY <1>3 DEF Note, Notes, TypeOK
<1>6. \A n \in S : n \in Namespace /\ (n \in matching <=> n \notin store)
  BY DEF TypeOK
<1>7. \A n \in Namespace : (n \in matching <=> n \notin store) => n \in S
  OBVIOUS
<1> HIDE DEF new, S
<1>8. k \in Nat
  BY <1>2
<1> HIDE DEF k
<1>9. new \in Seq(Notes) /\ Len(new) = k
  BY <1>5, <1>8, SeqDef
<1>10. notes' = notes \o new
  BY <1>1 DEF new
<1>11. \A n \in Namespace : (n \in matching <=> n \notin store) => ~Silent(n, new)
  BY <1>4, <1>5, <1>7, <1>9 DEF Silent
<1>12. \A j \in 1..Len(new) : /\ new[j].ns \in Namespace
                              /\ new[j].ns \in matching <=> new[j].ns \notin store
                              /\ new[j].type = "Added" <=> new[j].ns \in matching
  BY <1>3, <1>5, <1>6, <1>9
<1> QED BY <1>9, <1>10, <1>11, <1>12

\* A list, the first one or the one after a lost watch.
LEMMA NotesList == ASSUME IInv, NotesInv, InformerLists PROVE NotesInv'
<1>1. PICK new \in Seq(Notes) :
          /\ notes' = notes \o new
          /\ \A j \in 1..Len(new) : /\ new[j].ns \in Namespace
                                    /\ new[j].ns \in matching <=> new[j].ns \notin store
                                    /\ new[j].type = "Added" <=> new[j].ns \in matching
          /\ \A n \in Namespace : (n \in matching <=> n \notin store) => ~Silent(n, new)
  BY ListedNotes DEF IInv
<1>2. notes \in Seq(Notes) /\ matching \subseteq Namespace /\ missed \subseteq Namespace
  BY DEF IInv, TypeOK, Notes
<1>3. /\ watch' = "alive" /\ store' = matching /\ matching' = matching
      /\ missed' = (IF watch = "none" THEN Registered ELSE missed) \ matching
      /\ UNCHANGED <<VaryingInformers, adding, pausing>>
  BY DEF InformerLists, maps
<1>4. Taken' = Taken
  BY <1>3 DEF Taken, Registered
<1>5. \A n \in missed' : n \in Namespace /\ n \notin matching /\ Silent(n, notes)
                         /\ (watch = "none" => n \in Registered /\ n \notin store)
                         /\ (watch # "none" => n \in missed /\ n \notin store)
  BY <1>2, <1>3 DEF NotesInv, Registered, Silent
<1>6. \A n \in missed' : Silent(n, notes')
  BY <1>1, <1>2, <1>5, MoreNotes DEF Silent
<1>7. ASSUME NEW i \in 1..Len(notes'), LastNote(notes', i)
      PROVE  notes'[i].type = "Added" <=> notes'[i].ns \in matching
  <2>1. \/ i \in 1..Len(notes) /\ LastNote(notes, i) /\ Silent(notes[i].ns, new)
              /\ notes'[i] = notes[i]
        \/ \E j \in 1..Len(new) : notes'[i] = new[j]
    BY <1>1, <1>2, <1>7, MoreNotes
  <2>2. CASE i \in 1..Len(notes) /\ LastNote(notes, i) /\ Silent(notes[i].ns, new)
              /\ notes'[i] = notes[i]
    <3>0. notes[i] \in Notes
      BY <1>2, <2>2
    <3>1. notes[i].ns \in Namespace
      BY <3>0 DEF Notes
    <3>2. notes[i].type = "Added" <=> notes[i].ns \in store
      BY <2>2 DEF NotesInv
    <3> QED BY <1>1, <2>2, <3>1, <3>2
  <2> QED BY <1>1, <2>1, <2>2
<1>8. ASSUME ~niStopped, NEW n \in Namespace, Silent(n, notes')
      PROVE  n \in Taken <=> n \in matching \union missed'
  <2>1. Silent(n, notes) /\ Silent(n, new)
    BY <1>1, <1>2, <1>8, MoreNotes
  <2>2. n \in matching <=> n \in store
    BY <1>1, <2>1
  <2>3. CASE watch = "none"
    BY <1>3, <2>2, <2>3 DEF NotesInv, Taken
  <2>4. CASE watch # "none"
    BY <1>3, <1>8, <2>1, <2>2, <2>4 DEF NotesInv
  <2> QED BY <2>3, <2>4
<1> QED BY <1>3, <1>4, <1>6, <1>7, <1>8 DEF NotesInv, Watching, niStopped

LEMMA NotesChange ==
    ASSUME IInv, NotesInv, NEW n \in Namespace, NEW type \in {"Added", "Deleted"},
           NamespaceChanges(n, type)
    PROVE  NotesInv'
<1>1. UNCHANGED <<watch, VaryingInformers, adding, pausing>>
  BY DEF NamespaceChanges, maps
<1>2. CASE ~Watching
  BY <1>1, <1>2 DEF NamespaceChanges, NotesInv, Watching, niStopped, Taken, Registered
<1>3. CASE Watching
  <2>1. /\ store = matching /\ store' = matching'
        /\ matching' = IF type = "Added" THEN matching \union {n} ELSE matching \ {n}
        /\ notes' = Append(notes, Note(type, n)) /\ missed' = missed \ {n}
    BY <1>3 DEF NamespaceChanges, NotesInv
  <2>2. PICK new : new = <<Note(type, n)>>
    OBVIOUS
  <2>3. notes \in Seq(Notes) /\ Note(type, n) \in Notes
    BY DEF IInv, TypeOK, Note, Notes
  <2>4. /\ new \in Seq(Notes) /\ notes' = notes \o new
        /\ Len(new) = 1 /\ new[1].ns = n /\ new[1].type = type
    BY <2>1, <2>2, <2>3 DEF Note
  <2>5. \A p : Silent(p, new) <=> p # n
    BY <2>4 DEF Silent
  <2>6. \A p : Silent(p, notes') <=> Silent(p, notes) /\ p # n
    BY <2>3, <2>4, <2>5, MoreNotes
  <2>7. ASSUME NEW i \in 1..Len(notes'), LastNote(notes', i)
        PROVE  notes'[i].type = "Added" <=> notes'[i].ns \in store'
    <3>1. \/ i \in 1..Len(notes) /\ LastNote(notes, i) /\ Silent(notes[i].ns, new)
                /\ notes'[i] = notes[i]
          \/ \E j \in 1..Len(new) : notes'[i] = new[j]
      BY <2>3, <2>4, <2>7, MoreNotes
    <3>2. CASE i \in 1..Len(notes) /\ LastNote(notes, i) /\ Silent(notes[i].ns, new)
                /\ notes'[i] = notes[i]
      BY <2>1, <2>5, <3>2 DEF NotesInv
    <3>3. CASE notes'[i] = new[1]
      BY <2>1, <2>4, <3>3
    <3> QED BY <2>4, <3>1, <3>2, <3>3
  <2>8. Taken' = Taken /\ niStopped' = niStopped /\ Watching'
    BY <1>1, <1>3 DEF Taken, Registered, niStopped, Watching
  <2>9. \A p \in Namespace : p # n => (p \in store' <=> p \in store)
    BY <2>1
  <2> QED BY <1>1, <1>3, <2>1, <2>6, <2>7, <2>8, <2>9 DEF NotesInv, Watching, IInv, TypeOK
<1> QED BY <1>2, <1>3

LEMMA NotesTake == ASSUME IInv, NotesInv, OnAdd \/ OnDelete PROVE NotesInv'
<1>1. /\ notes \in Seq(Notes) /\ notes # << >> /\ notes' = Tail(notes)
      /\ adding = None
      /\ UNCHANGED <<matching, watch, store, missed, pausing>>
  BY DEF OnAdd, OnDelete, TakeNote, IInv, TypeOK, Notes
<1>2. PICK n \in Namespace : n = Head(notes).ns
  BY <1>1, TakeNoteFacts DEF IInv
<1>3. watch # "none" /\ cancelForNs = VaryingInformers
  BY <1>1 DEF NotesInv, IInv, StageInv, TypeOK
<1>4. ASSUME NEW i \in 1..Len(notes'), LastNote(notes', i)
      PROVE  notes'[i].type = "Added" <=> notes'[i].ns \in store
  <2>1. LastNote(notes, i + 1) /\ notes'[i] = notes[i + 1] /\ i + 1 \in 1..Len(notes)
    BY <1>1, <1>4, TailNotes
  <2> QED BY <2>1 DEF NotesInv
<1>5. \A p \in missed : Silent(p, notes')
  BY <1>1, TailNotes DEF NotesInv
<1>6. ASSUME ~niStopped, NEW p \in Namespace, p # n, Silent(p, notes')
      PROVE  p \in Taken' <=> p \in store \union missed
  <2>1. Silent(p, notes)
    BY <1>1, <1>2, <1>6, TailNotes
  <2>2. p \in Taken' <=> p \in Taken
    <3>1. CASE OnAdd
      BY <1>1, <1>2, <1>6, <3>1 DEF OnAdd, Taken, Registered
    <3>2. CASE OnDelete
      BY <1>1, <1>2, <1>3, <1>6, <3>2 DEF OnDelete, Taken, Registered, IInv, StageInv
    <3> QED BY <3>1, <3>2
  <2> QED BY <1>3, <1>6, <2>1, <2>2 DEF NotesInv
<1>7. ASSUME ~niStopped, Silent(n, notes')
      PROVE  n \in Taken' <=> n \in store \union missed
  <2>1. LastNote(notes, 1) /\ Head(notes) = notes[1] /\ 1 \in 1..Len(notes)
    BY <1>1, <1>2, <1>7, TailNotes
  <2>2. Head(notes).type = "Added" <=> n \in store
    BY <1>2, <2>1 DEF NotesInv
  <2>3. n \notin missed
    BY <1>2, <2>1 DEF NotesInv, Silent
  <2>4. CASE OnAdd
    <3>1. n \in Taken'
      BY <1>2, <1>7, <2>4, MonitorAssumption DEF OnAdd, Taken, Registered
    <3> QED BY <2>2, <2>4, <3>1 DEF OnAdd, TakeNote
  <2>5. CASE OnDelete
    <3>1. n \notin Taken'
      BY <1>1, <1>2, <1>3, <1>7, <2>5 DEF OnDelete, Taken, Registered, IInv, StageInv
    <3> QED BY <2>2, <2>3, <2>5, <3>1 DEF OnDelete, TakeNote
  <2> QED BY <2>4, <2>5
<1> QED BY <1>1, <1>3, <1>4, <1>5, <1>6, <1>7 DEF NotesInv, Watching, niStopped

LEMMA NotesStep == ASSUME IInv, NotesInv, [Next]_vars PROVE NotesInv'
<1>1. CASE UNCHANGED <<matching, watch, store, notes, VaryingInformers, pausing, adding, missed>>
  BY <1>1 DEF NotesInv, Watching, niStopped, Taken, Registered
<1>2. CASE Environment
  <2>1. CASE WatchBreaks
    BY <2>1 DEF WatchBreaks, NotesInv, Watching, niStopped, Taken, Registered, maps
  <2> QED BY <1>2, <2>1, NotesList, NotesChange DEF Environment, NamespaceAppears, NamespaceLeaves
<1>3. CASE AddMonitor
  <2>1. watch = "none"
    BY <1>3 DEF AddMonitor, Create, CreateInformersForNamespace, CreateFails, IInv, StageInv
  <2> QED BY <1>3, <2>1 DEF AddMonitor, Create, CreateInformersForNamespace, CreateFails,
                            NotesInv, Watching, niStopped, server
<1>4. CASE PauseInformers \/ PauseNamespaceInformer
  BY <1>4 DEF PauseInformers, PauseNamespaceInformer, NotesInv, Watching, niStopped, Taken,
              Registered, server, maps
<1>5. CASE AddFn \/ AddFnFails
  <2>1. adding \in Namespace /\ watch # "none"
    BY <1>5 DEF AddFn, AddFnFails, NotesInv, IInv, TypeOK
  <2>2. PICK entry \in {NewInformer(adding), Failed} : Register(adding, entry)
    BY <1>5 DEF AddFn, AddFnFails
  <2>3. entry # None
    BY <2>1, EntryFacts DEF NewInformer, Informer, IInv, TypeOK
  <2>4. Taken' = Taken
    BY <2>1, <2>2, <2>3, MonitorAssumption DEF Register, Taken, Registered, IInv, StageInv
  <2> QED BY <2>1, <2>2, <2>4 DEF Register, NotesInv, Watching, niStopped, server
<1> QED BY <1>1, <1>2, <1>3, <1>4, <1>5, NotesTake
        DEF Next, NamespaceInformer, Start, Stop, InformerEnds, server, maps, vars

\* When a monitor that is neither stopped nor paused has nothing left to handle,
\* the namespaces with informers at work are those that match the labels, apart
\* from those whose informers could not be made and those that left unseen between
\* the two lists: for any number of namespaces, changes and lost watches.
THEOREM QuietWatchesAlways == Spec => []QuietWatches
<1>1. Init => IInv /\ WorkInv /\ NotesInv
  <2> SUFFICES ASSUME Init PROVE WorkInv /\ NotesInv
    BY InitInv
  <2>1. WorkInv
    BY DEF Init, WorkInv, HasInformer
  <2>2. NotesInv
    BY DEF Init, NotesInv, Watching, Silent
  <2> QED BY <2>1, <2>2
<1>2. IInv /\ WorkInv /\ NotesInv /\ [Next]_vars => (IInv /\ WorkInv /\ NotesInv)'
  BY StepInv, WorkStep, NotesStep
<1>3. IInv /\ WorkInv /\ NotesInv => QuietWatches
  <2> SUFFICES ASSUME IInv, WorkInv, NotesInv, Quiet PROVE Watched = Expected
    BY DEF QuietWatches
  <2>1. /\ ByLabels /\ stage = "started" /\ watch = "alive" /\ notes = << >> /\ adding = None
        /\ ~niStopped
    BY DEF Quiet, Watching, niStopped
  <2>2. Registered = matching \union missed
    <3>1. \A n \in Namespace : Silent(n, notes)
      BY <2>1 DEF Silent
    <3>2. \A n \in Namespace : n \in Registered <=> n \in matching \union missed
      BY <2>1, <3>1 DEF NotesInv, Taken, Watching
    <3> QED BY <3>2 DEF IInv, TypeOK, Registered
  <2>3. Watched = Registered \ Broken
    <3>1. ASSUME NEW i \in running \ cancelled PROVE i.ns \in Registered \ Broken
      <4>1. i \in Informer /\ VaryingInformers[i.ns] = i /\ i.ns \in Namespace
        BY <2>1 DEF IInv, NoOrphan, TypeOK, StageInv, Informer
      <4> QED BY <4>1, EntryFacts DEF Registered, Broken
    <3>2. ASSUME NEW n \in Registered \ Broken PROVE \E i \in running \ cancelled : i.ns = n
      <4>1. n \in Namespace /\ HasInformer(n)
        BY DEF Registered, Broken, HasInformer
      <4>2. VaryingInformers[n] \in running \ cancelled
        BY <2>1, <4>1 DEF WorkInv
      <4>3. VaryingInformers[n].ns = n
        BY <4>1 DEF IInv, TypeOK, HasInformer
      <4> QED BY <4>2, <4>3
    <3> QED BY <3>1, <3>2 DEF Watched
  <2> QED BY <2>2, <2>3 DEF Expected
<1> QED BY <1>1, <1>2, <1>3, PTL DEF Spec
==============================================================================
