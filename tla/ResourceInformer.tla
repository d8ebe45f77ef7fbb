--------------------------- MODULE ResourceInformer ---------------------------
(***************************************************************************)
(* One resourceInformer (pkg/kube_events_manager/resource_informer.go):    *)
(* the cache that hooks get as snapshots, filled first by a List of its    *)
(* own and kept up to date by the notifications of a client-go             *)
(* SharedInformer, which lists again when it is started, and the decision  *)
(* which notifications become events for the hook.                         *)
(*                                                                         *)
(* The API server and the SharedInformer are external.  The latter keeps a *)
(* store, watches, loses its watch, lists again, resyncs, and notifies in  *)
(* order.  An object is its value; Checksum is what the filter leaves.     *)
(***************************************************************************)
EXTENDS Naturals, Sequences, SequencesExt, FiniteSets

CONSTANTS
    Object,         \* the objects of the watched kind
    Value,          \* what an object can look like
    Checksum,       \* value -> checksum of its filter result
    Bad,            \* values the filter fails on
    Absent,         \* no such object
    EventTypes,     \* the types of events the binding asks for
    GapDeletes,     \* are objects deleted between the two initial lists?
    MaxChanges,     \* bound: changes in the cluster
    MaxBreaks       \* bound: resyncs and lost watches

WatchEventTypes == {"Added", "Modified", "Deleted"}

ASSUME ResourceInformerAssumption ==
    /\ IsFiniteSet(Object)
    /\ Absent \notin Value
    /\ Absent \notin {Checksum[v] : v \in Value}
    /\ DOMAIN Checksum = Value
    /\ Bad \subseteq Value
    /\ EventTypes \subseteq WatchEventTypes
    /\ GapDeletes \in BOOLEAN
    /\ MaxChanges \in Nat /\ MaxBreaks \in Nat

VARIABLES
    cluster,        \* the objects in the API server
    changes, breaks,
    loaded,         \* LoadExistedObjects is over
    watch,          \* the SharedInformer has no watch yet, a live or a lost one
    store,          \* the store of the SharedInformer
    notes,          \* notifications that are not handled yet
    CachedObjects,
    at, note,       \* where HandleWatchEvent is, and with which notification
    stopped,
    view,           \* history: checksums the hook knows from Synchronization and events
    untold,         \* history: objects of a list the hook did not get, and no event about them yet
    spoiled         \* history: objects whose last notification the filter failed on

server == <<cluster, changes, breaks, watch, store, notes>>
handler == <<CachedObjects, at, note, view, untold, spoiled>>
vars == <<cluster, changes, breaks, loaded, watch, store, notes,
          CachedObjects, at, note, stopped, view, untold, spoiled>>

Nothing == [o \in Object |-> Absent]
NoNote == [type |-> "none"]
Note(type, o, v) == [type |-> type, object |-> o, value |-> v]
Sum(v) == IF v = Absent THEN Absent ELSE Checksum[v]

Init ==
    /\ cluster \in [Object -> Value \union {Absent}]
    /\ changes = 0 /\ breaks = 0
    /\ loaded = FALSE
    /\ watch = "none"
    /\ store = Nothing
    /\ notes = << >>
    /\ CachedObjects = Nothing
    /\ at = "idle" /\ note = NoNote
    /\ stopped = FALSE
    /\ view = Nothing
    /\ untold = {} /\ spoiled = {}

-----------------------------------------------------------------------------
(* The cluster and the SharedInformer.                                     *)

Watching == watch = "alive"

\* The watch carries a change to the store and to the handler.
Changed(o, v) ==
    /\ changes < MaxChanges
    /\ changes' = changes + 1
    /\ cluster' = [cluster EXCEPT ![o] = v]
    /\ store' = IF Watching THEN [store EXCEPT ![o] = v] ELSE store

ClusterPut(o, v) ==
    /\ cluster[o] # v
    /\ Changed(o, v)
    /\ notes' = IF Watching
                THEN Append(notes, Note(IF store[o] = Absent THEN "Added" ELSE "Modified", o, v))
                ELSE notes
    /\ UNCHANGED <<breaks, loaded, watch, stopped, handler>>

\* The notification of a deletion carries the last known value.
ClusterDelete(o) ==
    /\ cluster[o] # Absent
    /\ (loaded /\ watch = "none") => GapDeletes
    /\ Changed(o, Absent)
    /\ notes' = IF Watching THEN Append(notes, Note("Deleted", o, cluster[o])) ELSE notes
    /\ UNCHANGED <<breaks, loaded, watch, stopped, handler>>

WatchBreaks ==
    /\ Watching
    /\ breaks < MaxBreaks
    /\ breaks' = breaks + 1
    /\ watch' = "lost"
    /\ UNCHANGED <<cluster, changes, store, notes, loaded, stopped, handler>>

\* What a list says about an object that is there or was known: a known one is
\* reported as modified even when it is not, one that is gone as deleted in its
\* last known state.
Listed(o) ==
    IF cluster[o] = Absent THEN Note("Deleted", o, store[o])
    ELSE Note(IF store[o] = Absent THEN "Added" ELSE "Modified", o, cluster[o])

\* The first list of SharedInformer.Run, and every list after a lost watch.
InformerLists ==
    /\ loaded
    /\ ~Watching
    /\ watch' = "alive"
    /\ store' = cluster
    /\ \E order \in SetToSeqs({o \in Object : cluster[o] # Absent \/ store[o] # Absent}) :
          notes' = notes \o [i \in DOMAIN order |-> Listed(order[i])]
    /\ UNCHANGED <<cluster, changes, breaks, loaded, stopped, handler>>

\* The resync repeats what is in the store.
Resync(o) ==
    /\ Watching
    /\ breaks < MaxBreaks
    /\ store[o] # Absent
    /\ breaks' = breaks + 1
    /\ notes' = Append(notes, Note("Modified", o, store[o]))
    /\ UNCHANGED <<cluster, changes, watch, store, loaded, stopped, handler>>

Environment ==
    \/ \E o \in Object : (\E v \in Value : ClusterPut(o, v)) \/ ClusterDelete(o) \/ Resync(o)
    \/ WatchBreaks
    \/ InformerLists

-----------------------------------------------------------------------------
(* The informer of shell-operator.                                         *)

\* CreateSharedInformer.  The objects of the list become the Synchronization if
\* there is one: addFn makes an informer for a namespace that matches later
\* without any, and so do a binding of version 0 and one with
\* executeHookOnSynchronization: false.
LoadExistedObjects(synchronized) ==
    /\ ~loaded
    /\ \A o \in Object : cluster[o] \notin Bad
    /\ loaded' = TRUE
    /\ CachedObjects' = cluster
    /\ view' = IF synchronized THEN [o \in Object |-> Sum(cluster[o])] ELSE view
    /\ untold' = IF synchronized THEN {} ELSE {o \in Object : cluster[o] # Absent}
    /\ UNCHANGED <<server, at, note, stopped, spoiled>>

\* Mutant: an error of the filter is logged and the object used anyway.
TakeNoteUnfiltered ==
    /\ at = "idle"
    /\ notes # << >>
    /\ notes' = Tail(notes)
    /\ ~stopped
    /\ note' = Head(notes)
    /\ at' = "update"
    /\ UNCHANGED <<cluster, changes, breaks, watch, store, loaded, stopped, CachedObjects, view,
                   untold, spoiled>>

\* HandleWatchEvent: nothing is handled after a stop ...
TakeNote ==
    /\ at = "idle"
    /\ notes # << >>
    /\ notes' = Tail(notes)
    /\ \/ /\ stopped
          /\ UNCHANGED <<at, note, spoiled>>
       \/ /\ ~stopped
          /\ Head(notes).value \in Bad
          /\ spoiled' = spoiled \union {Head(notes).object}
          /\ UNCHANGED <<at, note>>
       \/ /\ ~stopped
          /\ Head(notes).value \notin Bad
          /\ spoiled' = spoiled \ {Head(notes).object}
          /\ note' = Head(notes)
          /\ at' = "update"
    /\ UNCHANGED <<cluster, changes, breaks, watch, store, loaded, stopped, CachedObjects, view,
                   untold>>

\* Mutant: a notification that changes nothing does not refresh the cache.
UpdateCacheIfChanged ==
    /\ at = "update"
    /\ LET o == note.object
           new == IF note.type = "Deleted" THEN Absent ELSE note.value
           same == Sum(CachedObjects[o]) = Sum(new)
       IN /\ CachedObjects' = IF same THEN CachedObjects ELSE [CachedObjects EXCEPT ![o] = new]
          /\ at' = IF same \/ note.type \notin EventTypes THEN "idle" ELSE "fire"
          /\ note' = IF at' = "idle" THEN NoNote ELSE note
    /\ UNCHANGED <<server, loaded, stopped, view, untold, spoiled>>

\* Mutant: a deleted object stays in the cache.
UpdateCacheKeepsDeleted ==
    /\ at = "update"
    /\ CachedObjects' = [CachedObjects EXCEPT ![note.object] = note.value]
    /\ at' = IF note.type \in EventTypes THEN "fire" ELSE "idle"
    /\ note' = IF at' = "idle" THEN NoNote ELSE note
    /\ UNCHANGED <<server, loaded, stopped, view, untold, spoiled>>

\* ... the cache is always brought up to date, under its lock ...
UpdateCache ==
    /\ at = "update"
    /\ LET o == note.object
           new == IF note.type = "Deleted" THEN Absent ELSE note.value
           skipEvent == /\ note.type # "Deleted"
                        /\ CachedObjects[o] # Absent
                        /\ Sum(CachedObjects[o]) = Sum(new)
       IN /\ CachedObjects' = [CachedObjects EXCEPT ![o] = new]
          /\ at' = IF skipEvent \/ note.type \notin EventTypes THEN "idle" ELSE "fire"
          /\ note' = IF at' = "idle" THEN NoNote ELSE note
    /\ UNCHANGED <<server, loaded, stopped, view, untold, spoiled>>

\* Mutant: the object is put into the cache again after the event.
FireEventAndCache ==
    /\ at = "fire"
    /\ view' = [view EXCEPT ![note.object] = IF note.type = "Deleted" THEN Absent
                                             ELSE Checksum[note.value]]
    /\ untold' = untold \ {note.object}
    /\ at' = "idle"
    /\ note' = NoNote
    /\ CachedObjects' = [CachedObjects EXCEPT ![note.object] = note.value]
    /\ UNCHANGED <<server, loaded, stopped, spoiled>>

\* ... and the callback puts the event into KubeEventCh.
FireEvent ==
    /\ at = "fire"
    /\ view' = [view EXCEPT ![note.object] = IF note.type = "Deleted" THEN Absent
                                             ELSE Checksum[note.value]]
    /\ untold' = untold \ {note.object}
    /\ at' = "idle"
    /\ note' = NoNote
    /\ UNCHANGED <<server, loaded, stopped, CachedObjects, spoiled>>

HandleWatchEvent == TakeNote \/ UpdateCache \/ FireEvent

\* PauseHandleEvents, Stop, or the end of the context.
PauseHandleEvents ==
    /\ loaded
    /\ ~stopped
    /\ stopped' = TRUE
    /\ UNCHANGED <<server, loaded, handler>>

Next ==
    \/ Environment
    \/ \E synchronized \in BOOLEAN : LoadExistedObjects(synchronized)
    \/ HandleWatchEvent
    \/ PauseHandleEvents

Spec == Init /\ [][Next]_vars

\* The SharedInformer lists and notifies, and the callback returns.
FairSpec ==
    /\ Spec
    /\ WF_vars(\E synchronized \in BOOLEAN : LoadExistedObjects(synchronized))
    /\ WF_vars(InformerLists)
    /\ WF_vars(HandleWatchEvent)

-----------------------------------------------------------------------------
(* Properties.                                                             *)

\* The cache has no object the filter failed on, and HandleWatchEvent has a
\* notification at hand exactly while it works on it.
TypeOK ==
    /\ cluster \in [Object -> Value \union {Absent}]
    /\ store \in [Object -> Value \union {Absent}]
    /\ watch \in {"none", "alive", "lost"}
    /\ CachedObjects \in [Object -> (Value \ Bad) \union {Absent}]
    /\ view \in [Object -> {Checksum[v] : v \in Value} \union {Absent}]
    /\ at \in {"idle", "update", "fire"}
    /\ at = "idle" <=> note = NoNote
    /\ untold \subseteq Object /\ spoiled \subseteq Object

\* What the hook will know once the event at hand is fired.
Replayed(o) ==
    IF at = "fire" /\ note.object = o
    THEN IF note.type = "Deleted" THEN Absent ELSE Checksum[note.value]
    ELSE view[o]

\* The snapshot is what Synchronization and the events add up to, but for the
\* event that is being fired: a hook that takes its state from snapshots and a
\* hook that follows the events see the same objects, whatever is listed twice,
\* repeated or skipped for an equal checksum.  Where there
\* was no Synchronization they differ in the objects of the list, because Added is
\* skipped for these, and the first event about one of them makes them agree on it.
SnapshotIsReplay ==
    EventTypes = WatchEventTypes =>
        \A o \in Object \ untold : Sum(CachedObjects[o]) = Replayed(o)

Quiet == loaded /\ ~stopped /\ Watching /\ notes = << >> /\ at = "idle"

\* "We need actual state in CachedObjects": when every notification has been
\* handled the cache has the objects of the cluster, also those that changed
\* between the two lists, while the watch was lost, or with an equal checksum.
QuietIsActual ==
    Quiet => \A o \in Object \ spoiled : CachedObjects[o] = cluster[o]

\* The cache does not stay behind for ever.
EventuallyActual ==
    <>[](stopped \/ ~loaded \/ \A o \in Object \ spoiled : CachedObjects[o] = cluster[o])
==============================================================================
