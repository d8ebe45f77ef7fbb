------------------------ MODULE ResourceInformerProofs ------------------------
(***************************************************************************)
(* Proofs about ResourceInformer, for any number of objects, any filter    *)
(* and any sequence of changes, lists, resyncs and lost watches.           *)
(***************************************************************************)
EXTENDS ResourceInformer, FiniteSetTheorems, SequenceTheorems, TLAPS

\* Notifications, and those the filter does not fail on.
Notes == [type : WatchEventTypes, object : Object, value : Value]
GoodNotes == [type : WatchEventTypes, object : Object, value : Value \ Bad]

\* The inductive invariant: besides the types, the notifications on their way
\* are well formed, HandleWatchEvent works on one that passed the filter, and
\* nothing is handled before the cache is loaded.
TypeInv ==
    /\ TypeOK
    /\ notes \in Seq(Notes)
    /\ at # "idle" => note \in GoodNotes
    /\ ~loaded => watch = "none" /\ notes = << >> /\ at = "idle" /\ view = Nothing

\* The snapshot and what the hook was told agree on every object it was told of,
\* and on the one it is being told of.
Told(o) == o \notin untold \/ (at = "fire" /\ note.object = o)
ReplayInv == \A o \in Object : Told(o) => Sum(CachedObjects[o]) = Replayed(o)

LEMMA NoNoteFacts == NoNote \notin GoodNotes
<1>1. NoNote.type = "none"
  BY DEF NoNote
<1>2. \A n \in GoodNotes : n.type # "none"
  BY DEF GoodNotes, WatchEventTypes
<1> QED BY <1>1, <1>2

LEMMA InitType == Init => TypeInv
<1> SUFFICES ASSUME Init PROVE TypeInv
  OBVIOUS
<1>1. notes \in Seq(Notes)
  BY DEF Init
<1> QED BY <1>1 DEF Init, TypeInv, TypeOK, Nothing

\* A list of the SharedInformer yields well-formed notifications.
LEMMA ListedType ==
    ASSUME TypeInv, InformerLists
    PROVE  notes' \in Seq(Notes)
<1> DEFINE S == {o \in Object : cluster[o] # Absent \/ store[o] # Absent}
<1>1. PICK order \in SetToSeqs(S) : notes' = notes \o [i \in DOMAIN order |-> Listed(order[i])]
  BY DEF InformerLists
<1>2. Cardinality(S) \in Nat
  BY ResourceInformerAssumption, FS_Subset, FS_CardinalityType
<1>3. order \in [1..Cardinality(S) -> S]
  BY DEF SetToSeqs
<1>4. \A o \in S : Listed(o) \in Notes
  BY DEF Listed, Note, Notes, WatchEventTypes, TypeInv, TypeOK
<1> DEFINE new == [i \in DOMAIN order |-> Listed(order[i])]
           n == Cardinality(S)
<1>5. new \in [1..n -> Notes]
  BY <1>3, <1>4
<1>6. new \in Seq(Notes)
  <2> HIDE DEF new, n
  <2>1. n \in Nat
    BY <1>2 DEF n
  <2> QED BY <1>5, <2>1, SeqDef
<1> HIDE DEF new, S
<1>7. notes \in Seq(Notes)
  BY DEF TypeInv
<1> QED BY <1>1, <1>6, <1>7 DEF new

LEMMA EnvironmentType == ASSUME TypeInv, Environment PROVE TypeInv'
<1> USE DEF TypeInv, TypeOK
<1>1. ASSUME NEW o \in Object, NEW v \in Value, ClusterPut(o, v) PROVE TypeInv'
  <2>1. PICK n : n \in Notes /\ (notes' = Append(notes, n) \/ notes' = notes)
    BY <1>1 DEF ClusterPut, Note, Notes, WatchEventTypes
  <2>2. notes' \in Seq(Notes)
    BY <2>1
  <2> QED BY <1>1, <2>2 DEF ClusterPut, Changed, Watching, handler
<1>2. ASSUME NEW o \in Object, ClusterDelete(o) PROVE TypeInv'
  <2>1. PICK n : n \in Notes /\ (notes' = Append(notes, n) \/ notes' = notes)
    BY <1>2 DEF ClusterDelete, Note, Notes, WatchEventTypes
  <2>2. notes' \in Seq(Notes)
    BY <2>1
  <2> QED BY <1>2, <2>2 DEF ClusterDelete, Changed, Watching, handler
<1>3. ASSUME NEW o \in Object, Resync(o) PROVE TypeInv'
  <2>1. PICK n : n \in Notes /\ notes' = Append(notes, n)
    BY <1>3 DEF Resync, Note, Notes, WatchEventTypes
  <2>2. notes' \in Seq(Notes)
    BY <2>1
  <2> QED BY <1>3, <2>2 DEF Resync, Watching, handler
<1>4. CASE WatchBreaks
  BY <1>4 DEF WatchBreaks, Watching, handler
<1>5. CASE InformerLists
  <2>1. notes' \in Seq(Notes)
    BY <1>5, ListedType
  <2> QED BY <1>5, <2>1 DEF InformerLists, handler
<1> QED BY <1>1, <1>2, <1>3, <1>4, <1>5 DEF Environment

LEMMA LoadType == ASSUME TypeInv, NEW s \in BOOLEAN, LoadExistedObjects(s) PROVE TypeInv'
<1>1. CachedObjects' \in [Object -> (Value \ Bad) \union {Absent}]
  BY DEF LoadExistedObjects, TypeInv, TypeOK
<1>2. view' \in [Object -> {Checksum[v] : v \in Value} \union {Absent}]
  <2>1. \A o \in Object : Sum(cluster[o]) \in {Checksum[v] : v \in Value} \union {Absent}
    BY DEF TypeInv, TypeOK, Sum
  <2> QED BY <2>1 DEF LoadExistedObjects, TypeInv, TypeOK
<1> QED BY <1>1, <1>2 DEF LoadExistedObjects, TypeInv, TypeOK, server

LEMMA HandlerType == ASSUME TypeInv, HandleWatchEvent PROVE TypeInv'
<1>1. CASE TakeNote
  <2>1. notes \in Seq(Notes) /\ notes # << >> /\ notes' = Tail(notes)
    BY <1>1 DEF TakeNote, TypeInv
  <2>2. Head(notes) \in Notes /\ notes' \in Seq(Notes)
    BY <2>1
  <2>3. Head(notes).value \notin Bad => Head(notes) \in GoodNotes
    BY <2>2 DEF Notes, GoodNotes
  <2>4. Head(notes).object \in Object
    BY <2>2 DEF Notes
  <2> QED BY <1>1, <2>2, <2>3, <2>4, NoNoteFacts DEF TakeNote, TypeInv, TypeOK
<1>2. CASE UpdateCache
  <2>1. note \in GoodNotes
    BY <1>2 DEF UpdateCache, TypeInv
  <2>2. note.object \in Object /\ note.value \in Value \ Bad
    BY <2>1 DEF GoodNotes
  <2>3. CachedObjects' \in [Object -> (Value \ Bad) \union {Absent}]
    BY <1>2, <2>2 DEF UpdateCache, TypeInv, TypeOK
  <2>4. at' \in {"idle", "fire"} /\ note' = IF at' = "idle" THEN NoNote ELSE note
    BY <1>2 DEF UpdateCache
  <2> QED BY <1>2, <2>1, <2>3, <2>4, NoNoteFacts DEF UpdateCache, TypeInv, TypeOK, server
<1>3. CASE FireEvent
  <2>1. note.object \in Object /\ note.value \in Value
    BY <1>3 DEF FireEvent, TypeInv, GoodNotes
  <2>2. view' \in [Object -> {Checksum[v] : v \in Value} \union {Absent}]
    BY <1>3, <2>1 DEF FireEvent, TypeInv, TypeOK
  <2> QED BY <1>3, <2>2 DEF FireEvent, TypeInv, TypeOK, server
<1> QED BY <1>1, <1>2, <1>3 DEF HandleWatchEvent

LEMMA StepType == TypeInv /\ [Next]_vars => TypeInv'
<1> SUFFICES ASSUME TypeInv, [Next]_vars PROVE TypeInv'
  OBVIOUS
<1>1. CASE PauseHandleEvents
  BY <1>1 DEF PauseHandleEvents, TypeInv, TypeOK, server, handler
<1>2. CASE UNCHANGED vars
  BY <1>2 DEF vars, TypeInv, TypeOK
<1> QED BY <1>1, <1>2, EnvironmentType, LoadType, HandlerType DEF Next

LEMMA TypeAlways == Spec => []TypeInv
<1> QED BY InitType, StepType, PTL DEF Spec

\* The variables keep their types, and no object the filter fails on ever
\* gets into the cache.
THEOREM TypeCorrect == Spec => []TypeOK
<1>1. TypeInv => TypeOK
  BY DEF TypeInv
<1> QED BY <1>1, TypeAlways, PTL

-----------------------------------------------------------------------------
(* The snapshot and the events agree.                                      *)

LEMMA ReplayInit == ASSUME Init PROVE ReplayInv
  BY DEF Init, ReplayInv, Replayed, Told, Nothing, Sum

LEMMA ReplayUpdate ==
    ASSUME EventTypes = WatchEventTypes, TypeInv, ReplayInv, UpdateCache
    PROVE  ReplayInv'
<1> DEFINE o == note.object
           new == IF note.type = "Deleted" THEN Absent ELSE note.value
           skip == note.type # "Deleted" /\ CachedObjects[o] # Absent
                   /\ Sum(CachedObjects[o]) = Sum(new)
<1>1. at = "update" /\ note \in GoodNotes
  BY DEF UpdateCache, TypeInv
<1>2. /\ o \in Object /\ note.value \in Value /\ note.value # Absent
      /\ note.type \in EventTypes
  BY <1>1, ResourceInformerAssumption DEF GoodNotes
<1>3. /\ CachedObjects' = [CachedObjects EXCEPT ![o] = new]
      /\ at' = IF skip THEN "idle" ELSE "fire"
      /\ note' = IF at' = "idle" THEN NoNote ELSE note
      /\ view' = view /\ untold' = untold
  BY <1>2 DEF UpdateCache
<1>4. \A p \in Object \ untold : Sum(CachedObjects[p]) = view[p]
  BY <1>1 DEF ReplayInv, Replayed, Told
<1>5. ASSUME NEW p \in Object, Told(p)' PROVE (Sum(CachedObjects[p]) = Replayed(p))'
  <2>1. CachedObjects'[p] = IF p = o THEN new ELSE CachedObjects[p]
    BY <1>2, <1>3 DEF TypeInv, TypeOK
  <2>2. CASE skip
    <3>1. at' = "idle"
      BY <1>3, <2>2
    <3>2. Sum(CachedObjects'[p]) = view[p]
      BY <1>3, <1>4, <1>5, <2>1, <2>2, <3>1 DEF Told
    <3> QED BY <1>3, <3>1, <3>2 DEF Replayed, Sum
  <2>3. CASE ~skip
    <3>1. at' = "fire" /\ note' = note
      BY <1>3, <2>3
    <3>2. CASE p = o
      BY <1>2, <2>1, <3>1, <3>2 DEF Replayed, Sum
    <3>3. CASE p # o
      BY <1>3, <1>4, <1>5, <2>1, <3>1, <3>3 DEF Replayed, Sum, Told
    <3> QED BY <3>2, <3>3
  <2> QED BY <2>2, <2>3
<1> QED BY <1>5 DEF ReplayInv

LEMMA ReplayStep ==
    ASSUME EventTypes = WatchEventTypes
    PROVE  TypeInv /\ ReplayInv /\ [Next]_vars => ReplayInv'
<1> SUFFICES ASSUME TypeInv, ReplayInv, [Next]_vars PROVE ReplayInv'
  OBVIOUS
<1>1. CASE UNCHANGED <<CachedObjects, at, note, view, untold>>
  BY <1>1 DEF ReplayInv, Replayed, Sum, Told
<1>2. CASE Environment \/ PauseHandleEvents
  BY <1>1, <1>2 DEF Environment, ClusterPut, ClusterDelete, Resync, WatchBreaks, InformerLists,
                    PauseHandleEvents, handler
<1>3. ASSUME NEW s \in BOOLEAN, LoadExistedObjects(s) PROVE ReplayInv'
  <2>1. at = "idle" /\ at' = at /\ CachedObjects' = cluster /\ ~loaded
    BY <1>3 DEF LoadExistedObjects, TypeInv
  <2>2. \A o \in Object \ untold' : view'[o] = Sum(CachedObjects'[o])
    <3>1. CASE s
      BY <1>3, <2>1, <3>1 DEF LoadExistedObjects
    <3>2. CASE ~s
      BY <1>3, <2>1, <3>2 DEF LoadExistedObjects, TypeInv, Nothing, Sum
    <3> QED BY <3>1, <3>2
  <2> QED BY <2>1, <2>2 DEF ReplayInv, Replayed, Sum, Told
<1>4. CASE TakeNote
  <2>1. at = "idle" /\ at' # "fire" /\ UNCHANGED <<CachedObjects, view, untold>>
    BY <1>4 DEF TakeNote
  <2> QED BY <2>1 DEF ReplayInv, Replayed, Sum, Told
<1>5. CASE UpdateCache
  BY <1>5, ReplayUpdate
<1>6. CASE FireEvent
  <2>1. note.object \in Object /\ at = "fire" /\ at' = "idle" /\ UNCHANGED CachedObjects
    BY <1>6 DEF FireEvent, TypeInv, GoodNotes
  <2>2. \A p \in Object : view'[p] = Replayed(p)
    BY <1>6, <2>1 DEF FireEvent, Replayed, TypeInv, TypeOK
  <2>3. untold' = untold \ {note.object}
    BY <1>6 DEF FireEvent
  <2> QED BY <2>1, <2>2, <2>3 DEF ReplayInv, Replayed, Sum, Told
<1>7. CASE UNCHANGED vars
  BY <1>1, <1>7 DEF vars
<1> QED BY <1>2, <1>3, <1>4, <1>5, <1>6, <1>7 DEF Next, HandleWatchEvent

\* The snapshot is what Synchronization and the events add up to, for an informer
\* whose list became the Synchronization, and for the objects it had an event about
\* for one made without any, as addFn does.
THEOREM SnapshotIsReplayAlways == Spec => []SnapshotIsReplay
<1>1. CASE EventTypes = WatchEventTypes
  <2>1. Init => ReplayInv
    BY ReplayInit
  <2>2. TypeInv /\ ReplayInv /\ [Next]_vars => ReplayInv'
    BY <1>1, ReplayStep
  <2>3. ReplayInv => SnapshotIsReplay
    BY DEF ReplayInv, SnapshotIsReplay, Told
  <2> QED BY <2>1, <2>2, <2>3, TypeAlways, PTL DEF Spec
<1>2. CASE EventTypes # WatchEventTypes
  <2>1. SnapshotIsReplay
    BY <1>2 DEF SnapshotIsReplay
  <2> QED BY <2>1, PTL
<1> QED BY <1>1, <1>2

-----------------------------------------------------------------------------
(* The snapshot catches up with the cluster, if no object is deleted       *)
(* between the two initial lists.                                          *)

\* What a notification makes of the object it is about.
Outcome(n) == IF n.type = "Deleted" THEN Absent ELSE n.value

\* There is no notification about o; there is none after the i-th about its object.
Silent(o, s) == \A i \in 1..Len(s) : s[i].object # o
LastNote(s, i) == i \in 1..Len(s) /\ \A j \in 1..Len(s) : i < j => s[j].object # s[i].object

\* The cache once the notification at hand has been put into it.
Coming(o) == IF at = "update" /\ note.object = o THEN Outcome(note) ELSE CachedObjects[o]

\* The last notification about an object says what the store of the SharedInformer
\* has; an object nothing is waiting for is in the cache as it is in the store,
\* unless the filter failed on it.  Until the first list of the SharedInformer
\* what is in the cache is in the cluster.
ActualInv ==
    /\ watch = "none" => store = Nothing /\ notes = << >> /\ at = "idle"
    /\ Watching => store = cluster
    /\ loaded /\ watch = "none" =>
          \A o \in Object : CachedObjects[o] # Absent => cluster[o] # Absent
    /\ \A i \in 1..Len(notes) :
          LastNote(notes, i) => Outcome(notes[i]) = store[notes[i].object]
    /\ watch # "none" /\ ~stopped =>
          \A o \in Object \ spoiled : Silent(o, notes) => Coming(o) = store[o]

\* Handling the first notification: what is silent then, and what was last stays last.
LEMMA TailNotes ==
    ASSUME NEW s \in Seq(Notes), s # << >>
    PROVE  /\ Len(Tail(s)) = Len(s) - 1
           /\ \A i \in 1..Len(Tail(s)) : Tail(s)[i] = s[i + 1]
           /\ \A o : Silent(o, Tail(s)) /\ o # Head(s).object => Silent(o, s)
           /\ \A o : Silent(o, s) => Silent(o, Tail(s))
           /\ Silent(Head(s).object, Tail(s)) => LastNote(s, 1)
           /\ \A i \in 1..Len(Tail(s)) : LastNote(Tail(s), i) => LastNote(s, i + 1)
<1>1. Len(s) \in Nat /\ Len(s) > 0 /\ Head(s) = s[1]
  OBVIOUS
<1>2. /\ Len(Tail(s)) = Len(s) - 1
      /\ \A i \in 1..Len(Tail(s)) : Tail(s)[i] = s[i + 1]
  OBVIOUS
<1>3. \A j \in 1..Len(s) : j = 1 \/ (j - 1 \in 1..Len(Tail(s)) /\ Tail(s)[j - 1] = s[j])
  BY <1>1, <1>2
<1>4. \A o : Silent(o, Tail(s)) /\ o # Head(s).object => Silent(o, s)
  BY <1>1, <1>3 DEF Silent
<1>5. \A o : Silent(o, s) => Silent(o, Tail(s))
  BY <1>1, <1>2 DEF Silent
<1>6. Silent(Head(s).object, Tail(s)) => LastNote(s, 1)
  BY <1>1, <1>3 DEF Silent, LastNote
<1>7. \A i \in 1..Len(Tail(s)) : LastNote(Tail(s), i) => LastNote(s, i + 1)
  <2> SUFFICES ASSUME NEW i \in 1..Len(Tail(s)), LastNote(Tail(s), i),
                      NEW j \in 1..Len(s), i + 1 < j
               PROVE  s[j].object # s[i + 1].object
    BY <1>1, <1>2 DEF LastNote
  <2>1. j - 1 \in 1..Len(Tail(s)) /\ i < j - 1 /\ Tail(s)[j - 1] = s[j]
    BY <1>1, <1>3
  <2> QED BY <1>2, <2>1 DEF LastNote
<1> QED BY <1>2, <1>4, <1>5, <1>6, <1>7

\* New notifications behind the others.
LEMMA MoreNotes ==
    ASSUME NEW s \in Seq(Notes), NEW t \in Seq(Notes)
    PROVE  /\ Len(s \o t) = Len(s) + Len(t)
           /\ \A o : Silent(o, s \o t) <=> Silent(o, s) /\ Silent(o, t)
           /\ \A i \in 1..Len(s \o t) : LastNote(s \o t, i) =>
                 \/ i \in 1..Len(s) /\ LastNote(s, i) /\ Silent(s[i].object, t) /\ (s \o t)[i] = s[i]
                 \/ \E j \in 1..Len(t) : (s \o t)[i] = t[j]
<1>1. /\ Len(s) \in Nat /\ Len(t) \in Nat /\ Len(s \o t) = Len(s) + Len(t)
      /\ \A i \in 1..Len(s) : (s \o t)[i] = s[i] /\ i \in 1..Len(s \o t)
      /\ \A j \in 1..Len(t) : (s \o t)[Len(s) + j] = t[j] /\ Len(s) + j \in 1..Len(s \o t)
      /\ \A i \in 1..Len(s \o t) : i \in 1..Len(s) \/ (i - Len(s) \in 1..Len(t)
                                                       /\ (s \o t)[i] = t[i - Len(s)])
  OBVIOUS
<1>2. \A o : Silent(o, s \o t) <=> Silent(o, s) /\ Silent(o, t)
  <2> PICK u : u = s \o t
    OBVIOUS
  <2> QED BY <1>1, SMTT(40) DEF Silent
<1>3. ASSUME NEW i \in 1..Len(s), LastNote(s \o t, i) PROVE LastNote(s, i) /\ Silent(s[i].object, t)
  <2>1. LastNote(s, i)
    BY <1>1, <1>3 DEF LastNote
  <2>2. \A j \in 1..Len(t) : i < Len(s) + j
    BY <1>1
  <2>3. Silent(s[i].object, t)
    BY <1>1, <1>3, <2>2 DEF LastNote, Silent
  <2> QED BY <2>1, <2>3
<1> QED BY <1>1, <1>2, <1>3

\* A list of the SharedInformer yields a notification for every object that is in
\* the cluster or in its store.
LEMMA ListedNotes ==
    ASSUME TypeInv, InformerLists
    PROVE  \E new \in Seq(Notes) :
              /\ notes' = notes \o new
              /\ \A j \in 1..Len(new) : Outcome(new[j]) = cluster[new[j].object]
              /\ \A o \in Object : cluster[o] # Absent \/ store[o] # Absent => ~Silent(o, new)
<1> DEFINE S == {o \in Object : cluster[o] # Absent \/ store[o] # Absent}
<1>1. PICK order \in SetToSeqs(S) : notes' = notes \o [i \in DOMAIN order |-> Listed(order[i])]
  BY DEF InformerLists
<1>2. IsFiniteSet(S) /\ Cardinality(S) \in Nat
  BY ResourceInformerAssumption, FS_Subset, FS_CardinalityType
<1> DEFINE k == Cardinality(S)
<1>3. order \in [1..k -> S] /\ \A i, j \in 1..k : order[i] = order[j] => i = j
  BY DEF SetToSeqs
<1>4. \A o \in S : \E i \in 1..k : order[i] = o
  <2> HIDE DEF S
  <2>1. order \in Injection(1..k, S)
    BY <1>3 DEF Injection, IsInjective
  <2>2. Cardinality(1..k) = k
    BY <1>2, FS_Interval
  <2>3. order \in Surjection(1..k, S)
    BY <1>2, <2>1, <2>2, FS_Injection
  <2> QED BY <2>3 DEF Surjection
<1>5. \A o \in S : Listed(o) \in Notes /\ Listed(o).object = o /\ Outcome(Listed(o)) = cluster[o]
  BY DEF Listed, Note, Notes, Outcome, WatchEventTypes, TypeInv, TypeOK
<1>6. \A o \in Object : cluster[o] # Absent \/ store[o] # Absent => o \in S
  OBVIOUS
<1> DEFINE new == [i \in DOMAIN order |-> Listed(order[i])]
<1> HIDE DEF S
<1>7. /\ new \in [1..k -> Notes]
      /\ \A i \in 1..k : new[i].object = order[i] /\ Outcome(new[i]) = cluster[order[i]]
  BY <1>3, <1>5
<1> HIDE DEF new
<1>8. k \in Nat
  BY <1>2
<1> HIDE DEF k
<1>9. new \in Seq(Notes) /\ Len(new) = k
  BY <1>7, <1>8, SeqDef
<1>10. notes' = notes \o new
  BY <1>1 DEF new
<1>11. \A o \in Object : cluster[o] # Absent \/ store[o] # Absent => ~Silent(o, new)
  BY <1>4, <1>6, <1>7, <1>9 DEF Silent
<1> QED BY <1>7, <1>9, <1>10, <1>11

LEMMA ActualList == ASSUME TypeInv, ActualInv, InformerLists PROVE ActualInv'
<1>1. PICK new \in Seq(Notes) :
          /\ notes' = notes \o new
          /\ \A j \in 1..Len(new) : Outcome(new[j]) = cluster[new[j].object]
          /\ \A o \in Object : cluster[o] # Absent \/ store[o] # Absent => ~Silent(o, new)
  BY ListedNotes
<1>2. notes \in Seq(Notes)
  BY DEF TypeInv
<1>3. /\ watch' = "alive" /\ store' = cluster
      /\ UNCHANGED <<cluster, stopped, loaded, CachedObjects, at, note, spoiled>>
  BY DEF InformerLists, handler
<1>4. ASSUME NEW i \in 1..Len(notes'), LastNote(notes', i)
      PROVE  Outcome(notes'[i]) = cluster[notes'[i].object]
  <2>1. \/ i \in 1..Len(notes) /\ LastNote(notes, i) /\ Silent(notes[i].object, new)
              /\ notes'[i] = notes[i]
        \/ \E j \in 1..Len(new) : notes'[i] = new[j]
    BY <1>1, <1>2, <1>4, MoreNotes
  <2>2. CASE i \in 1..Len(notes) /\ LastNote(notes, i) /\ Silent(notes[i].object, new)
              /\ notes'[i] = notes[i]
    <3>1. notes[i] \in Notes
      BY <1>2, <2>2
    <3>2. notes[i].object \in Object
      BY <3>1 DEF Notes
    <3>3. Outcome(notes[i]) = store[notes[i].object]
      BY <2>2 DEF ActualInv
    <3> QED BY <1>1, <2>2, <3>2, <3>3
  <2> QED BY <1>1, <2>1, <2>2
<1>5. ASSUME ~stopped, NEW o \in Object \ spoiled, Silent(o, notes')
      PROVE  Coming(o) = cluster[o]
  <2>1. Silent(o, notes) /\ Silent(o, new)
    BY <1>1, <1>2, <1>5, MoreNotes
  <2>2. cluster[o] = Absent /\ store[o] = Absent
    BY <1>1, <2>1
  <2>3. CASE watch = "none"
    BY <2>2, <2>3 DEF ActualInv, Coming, InformerLists
  <2>4. CASE watch # "none"
    BY <1>5, <2>1, <2>2, <2>4 DEF ActualInv
  <2> QED BY <2>3, <2>4
<1>6. \A o : Coming(o)' = Coming(o)
  BY <1>3 DEF Coming, Outcome
<1> QED BY <1>3, <1>4, <1>5, <1>6 DEF ActualInv, Watching, Outcome

\* A notification that says what the store has from now on.
LEMMA ActualAppend ==
    ASSUME TypeInv, ActualInv, NEW n \in Notes, notes' = Append(notes, n),
           \A p \in Object : p # n.object => store'[p] = store[p],
           store'[n.object] = Outcome(n), store' = cluster', Watching,
           UNCHANGED <<watch, loaded, stopped, handler>>
    PROVE  ActualInv'
<1>0. PICK new : new = <<n>>
  OBVIOUS
<1>1. /\ notes \in Seq(Notes) /\ new \in Seq(Notes) /\ notes' = notes \o new
      /\ Len(new) = 1 /\ new[1] = n
  BY <1>0 DEF TypeInv
<1>2. \A o : Silent(o, new) <=> o # n.object
  BY <1>1 DEF Silent
<1>3. \A o : Silent(o, notes') <=> Silent(o, notes) /\ o # n.object
  BY <1>1, <1>2, MoreNotes
<1>4. ASSUME NEW i \in 1..Len(notes'), LastNote(notes', i)
      PROVE  Outcome(notes'[i]) = store'[notes'[i].object]
  <2>1. \/ i \in 1..Len(notes) /\ LastNote(notes, i) /\ Silent(notes[i].object, new)
              /\ notes'[i] = notes[i]
        \/ \E j \in 1..Len(new) : notes'[i] = new[j]
    BY <1>1, <1>4, MoreNotes
  <2>2. CASE i \in 1..Len(notes) /\ LastNote(notes, i) /\ Silent(notes[i].object, new)
              /\ notes'[i] = notes[i]
    <3>1. notes[i] \in Notes
      BY <1>1, <2>2
    <3>2. notes[i].object \in Object /\ notes[i].object # n.object
      BY <1>2, <2>2, <3>1 DEF Notes
    <3>3. Outcome(notes[i]) = store[notes[i].object]
      BY <2>2 DEF ActualInv
    <3> QED BY <2>2, <3>2, <3>3
  <2>3. CASE notes'[i] = n
    BY <2>3
  <2> QED BY <1>1, <2>1, <2>2, <2>3
<1>5. \A o : Coming(o)' = Coming(o)
  BY DEF Coming, Outcome, handler
<1>6. watch' = "alive" /\ watch = "alive" /\ spoiled' = spoiled /\ stopped' = stopped
  BY DEF Watching, handler
<1>7. \A o \in Object \ spoiled' : ~stopped' /\ Silent(o, notes') => Coming(o)' = store'[o]
  BY <1>3, <1>5, <1>6 DEF ActualInv
<1> QED BY <1>4, <1>6, <1>7 DEF ActualInv, Watching, Outcome

LEMMA ActualEnvironment ==
    ASSUME ~GapDeletes, TypeInv, ActualInv, Environment
    PROVE  ActualInv'
<1> USE DEF TypeInv, TypeOK
<1>0. \A o : UNCHANGED handler => Coming(o)' = Coming(o)
  BY DEF Coming, Outcome, handler
<1>1. ASSUME NEW o \in Object, NEW v \in Value, ClusterPut(o, v) PROVE ActualInv'
  <2>1. v # Absent
    BY ResourceInformerAssumption
  <2>2. CASE ~Watching
    BY <1>0, <1>1, <2>1, <2>2 DEF ClusterPut, Changed, ActualInv, Watching, Outcome, handler
  <2>3. CASE Watching
    <3>1. PICK type \in {"Added", "Modified"} : notes' = Append(notes, Note(type, o, v))
      BY <1>1, <2>3 DEF ClusterPut
    <3>2. Note(type, o, v) \in Notes /\ Note(type, o, v).object = o /\ Outcome(Note(type, o, v)) = v
      BY <3>1 DEF Note, Notes, Outcome, WatchEventTypes
    <3>3. store = cluster /\ store' = [store EXCEPT ![o] = v] /\ cluster' = [cluster EXCEPT ![o] = v]
      BY <1>1, <2>3 DEF ClusterPut, Changed, ActualInv
    <3>4. UNCHANGED <<watch, loaded, stopped, handler>>
      BY <1>1 DEF ClusterPut
    <3>5. PICK n \in Notes : n = Note(type, o, v)
      BY <3>2
    <3>6. /\ \A p \in Object : p # n.object => store'[p] = store[p]
          /\ store'[n.object] = Outcome(n) /\ store' = cluster' /\ notes' = Append(notes, n)
      BY <3>1, <3>2, <3>3, <3>5
    <3> QED BY <2>3, <3>4, <3>6, ActualAppend
  <2> QED BY <2>2, <2>3
<1>2. ASSUME NEW o \in Object, ClusterDelete(o) PROVE ActualInv'
  <2>1. ~(loaded /\ watch = "none")
    BY <1>2 DEF ClusterDelete
  <2>2. CASE ~Watching
    BY <1>0, <1>2, <2>1, <2>2 DEF ClusterDelete, Changed, ActualInv, Watching, Outcome, handler
  <2>3. CASE Watching
    <3>1. PICK v \in Value : v = cluster[o]
      BY <1>2 DEF ClusterDelete
    <3>2. notes' = Append(notes, Note("Deleted", o, v))
      BY <1>2, <2>3, <3>1 DEF ClusterDelete
    <3>3. PICK n \in Notes : n = Note("Deleted", o, v)
      BY DEF Note, Notes, WatchEventTypes
    <3>4. n.object = o /\ Outcome(n) = Absent
      BY <3>3 DEF Note, Outcome
    <3>5. /\ store = cluster /\ store' = [store EXCEPT ![o] = Absent]
          /\ cluster' = [cluster EXCEPT ![o] = Absent]
      BY <1>2, <2>3 DEF ClusterDelete, Changed, ActualInv
    <3>6. UNCHANGED <<watch, loaded, stopped, handler>>
      BY <1>2 DEF ClusterDelete
    <3>7. /\ \A p \in Object : p # n.object => store'[p] = store[p]
          /\ store'[n.object] = Outcome(n) /\ store' = cluster' /\ notes' = Append(notes, n)
      BY <3>2, <3>3, <3>4, <3>5
    <3> QED BY <2>3, <3>6, <3>7, ActualAppend
  <2> QED BY <2>2, <2>3
<1>3. ASSUME NEW o \in Object, Resync(o) PROVE ActualInv'
  <2>1. Watching /\ store = cluster /\ UNCHANGED <<watch, loaded, stopped, handler, store, cluster>>
    BY <1>3 DEF Resync, ActualInv
  <2>2. PICK v \in Value : v = store[o]
    BY <1>3 DEF Resync
  <2>3. PICK n \in Notes : n = Note("Modified", o, v)
    BY DEF Note, Notes, WatchEventTypes
  <2>4. n.object = o /\ Outcome(n) = v /\ notes' = Append(notes, n)
    BY <1>3, <2>2, <2>3 DEF Note, Outcome, Resync
  <2> QED BY <2>1, <2>2, <2>4, ActualAppend
<1>4. CASE WatchBreaks
  BY <1>0, <1>4 DEF WatchBreaks, ActualInv, Watching, Outcome, handler
<1> QED BY <1>1, <1>2, <1>3, <1>4, ActualList DEF Environment

LEMMA ActualTake == ASSUME TypeInv, ActualInv, TakeNote PROVE ActualInv'
<1>1. /\ at = "idle" /\ notes \in Seq(Notes) /\ notes # << >> /\ notes' = Tail(notes)
      /\ UNCHANGED <<cluster, watch, store, loaded, stopped, CachedObjects>>
  BY DEF TakeNote, TypeInv
<1>2. PICK n \in Notes : n = Head(notes)
  BY <1>1
<1>3. n.object \in Object
  BY DEF Notes
<1>4. watch # "none"
  BY <1>1 DEF ActualInv
<1>5. ASSUME NEW i \in 1..Len(notes'), LastNote(notes', i)
      PROVE  Outcome(notes'[i]) = store[notes'[i].object]
  <2>1. LastNote(notes, i + 1) /\ notes'[i] = notes[i + 1] /\ i + 1 \in 1..Len(notes)
    BY <1>1, <1>5, TailNotes
  <2> QED BY <2>1 DEF ActualInv
<1>6. ASSUME ~stopped, NEW o \in Object \ spoiled', Silent(o, notes')
      PROVE  Coming(o)' = store[o]
  <2>1. \/ at' = at /\ spoiled' = spoiled \union {n.object}
        \/ at' = "update" /\ note' = n /\ spoiled' = spoiled \ {n.object}
    BY <1>2, <1>6 DEF TakeNote
  <2>2. CASE o = n.object
    <3>1. LastNote(notes, 1) /\ n = notes[1] /\ 1 \in 1..Len(notes)
      BY <1>1, <1>2, <1>6, <2>2, TailNotes
    <3>2. Outcome(n) = store[o]
      BY <2>2, <3>1 DEF ActualInv
    <3> QED BY <2>1, <2>2, <3>2 DEF Coming, Outcome
  <2>3. CASE o # n.object
    <3>1. Silent(o, notes) /\ o \notin spoiled
      BY <1>1, <1>2, <1>6, <2>1, <2>3, TailNotes
    <3>2. CachedObjects[o] = store[o]
      BY <1>1, <1>4, <1>6, <3>1 DEF ActualInv, Coming
    <3> QED BY <1>1, <2>1, <2>3, <3>2 DEF Coming
  <2> QED BY <2>2, <2>3
<1> QED BY <1>1, <1>4, <1>5, <1>6 DEF ActualInv, Watching, Outcome

LEMMA ActualStep ==
    ASSUME ~GapDeletes
    PROVE  TypeInv /\ ActualInv /\ [Next]_vars => ActualInv'
<1> SUFFICES ASSUME TypeInv, ActualInv, [Next]_vars PROVE ActualInv'
  OBVIOUS
<1>1. CASE UNCHANGED vars
  BY <1>1 DEF vars, ActualInv, Watching, Outcome, Coming
<1>2. ASSUME NEW s \in BOOLEAN, LoadExistedObjects(s) PROVE ActualInv'
  BY <1>2 DEF LoadExistedObjects, ActualInv, TypeInv, Watching, Outcome, server
<1>3. CASE UpdateCache
  <2>1. note.object \in Object /\ at = "update"
    BY <1>3 DEF UpdateCache, TypeInv, GoodNotes
  <2>2. /\ CachedObjects' = [CachedObjects EXCEPT ![note.object] = Outcome(note)]
        /\ at' # "update"
        /\ UNCHANGED <<server, loaded, stopped, spoiled>>
    BY <1>3 DEF UpdateCache, Outcome
  <2>3. \A o \in Object : Coming(o)' = Coming(o)
    BY <2>1, <2>2 DEF Coming, TypeInv, TypeOK
  <2>4. watch # "none"
    BY <2>1 DEF ActualInv
  <2> QED BY <2>2, <2>3, <2>4 DEF ActualInv, Watching, Outcome, server
<1>4. CASE FireEvent
  <2>1. watch # "none" /\ at' = "idle" /\ at = "fire"
        /\ UNCHANGED <<server, loaded, stopped, CachedObjects, spoiled>>
    BY <1>4 DEF FireEvent, ActualInv
  <2>2. \A o \in Object : Coming(o)' = Coming(o)
    BY <2>1 DEF Coming
  <2> QED BY <2>1, <2>2 DEF ActualInv, Watching, Outcome, server
<1>5. CASE PauseHandleEvents
  BY <1>5 DEF PauseHandleEvents, ActualInv, Watching, Outcome, server, handler
<1> QED BY <1>1, <1>2, <1>3, <1>4, <1>5, ActualEnvironment, ActualTake DEF Next, HandleWatchEvent

\* When every notification has been handled the snapshot has the objects of the
\* cluster, for any number of objects, changes, lists, resyncs and lost watches, if
\* none is deleted between the list of LoadExistedObjects and the first one of
\* SharedInformer.Run.  Without the hypothesis it is false (run informer_gap).
THEOREM QuietIsActualAlways == ASSUME ~GapDeletes PROVE Spec => []QuietIsActual
<1>1. Init => ActualInv
  BY DEF Init, ActualInv, Watching
<1>2. TypeInv /\ ActualInv /\ [Next]_vars => ActualInv'
  BY ActualStep
<1>3. TypeInv /\ ActualInv => QuietIsActual
  <2> SUFFICES ASSUME ActualInv, Quiet, NEW o \in Object \ spoiled
               PROVE  CachedObjects[o] = cluster[o]
    BY DEF QuietIsActual
  <2>1. Silent(o, notes)
    BY DEF Quiet, Silent
  <2> QED BY <2>1 DEF Quiet, ActualInv, Coming, Watching
<1> QED BY <1>1, <1>2, <1>3, TypeAlways, PTL DEF Spec
==============================================================================
