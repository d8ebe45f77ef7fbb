------------------------ MODULE ScheduleManagerProofs ------------------------
(***************************************************************************)
(* Proofs about ScheduleManager: its types, and that a crontab has one     *)
(* function exactly while it has an id.                                    *)
(***************************************************************************)
EXTENDS ScheduleManager, FiniteSetTheorems, TLAPS

\* Which function an entry stands for: its own while it has ids, none after.
EntryInv ==
    \A c \in Crontab :
        /\ c \notin DOMAIN entries => Functions(c) = {}
        /\ c \in DOMAIN entries =>
              Functions(c) = IF entries[c].ids = {} THEN {} ELSE {entries[c].entry}

\* TypeOK with the shape of entries, and the goroutines bounded by the fires.
TypeInv ==
    /\ TypeOK
    /\ entries = [c \in DOMAIN entries |-> entries[c]]
    /\ \A c \in DOMAIN entries : entries[c] = [entry |-> entries[c].entry, ids |-> entries[c].ids]
    /\ cron = [e \in DOMAIN cron |-> cron[e]]
    /\ fired \in [Crontab -> 0..MaxFires]
    /\ jobs \in [Crontab -> Nat]
    /\ \A c \in Crontab : jobs[c] <= fired[c]
    /\ ScheduleCh \in Seq(Crontab)
    /\ received \in [Crontab -> Nat]

-----------------------------------------------------------------------------

LEMMA CrontabOfId == \A i \in Id : CrontabOf[i] \in Crontab
  BY DEF Crontab

LEMMA TypeInit == Init => TypeInv
  BY ScheduleManagerAssumption DEF Init, TypeInv, TypeOK, None, ScheduleManagerAssumption

\* What an assignment to the ids of one entry leaves behind.
LEMMA IdsUpdate ==
  ASSUME TypeInv, NEW c \in DOMAIN entries, NEW S,
         entries' = [entries EXCEPT ![c].ids = S]
  PROVE  /\ DOMAIN entries' = DOMAIN entries
         /\ entries' = [d \in DOMAIN entries' |-> entries'[d]]
         /\ entries'[c] = [entry |-> entries[c].entry, ids |-> S]
         /\ \A d \in DOMAIN entries : d # c => entries'[d] = entries[d]
<1> DEFINE r == [entries[c] EXCEPT !.ids = S]
<1>1. entries' = [d \in DOMAIN entries |-> IF d = c THEN r ELSE entries[d]]
  BY DEF TypeInv
<1>2. entries[c] = [entry |-> entries[c].entry, ids |-> entries[c].ids]
  BY DEF TypeInv
<1>3. ASSUME NEW a, NEW b, entries[c] = [entry |-> a, ids |-> b]
      PROVE  r = [entry |-> a, ids |-> S]
  BY <1>3
<1>4. r = [entry |-> entries[c].entry, ids |-> S]
  BY <1>2, <1>3
<1> HIDE DEF r
<1> QED
  BY <1>1, <1>4

\* Adding, removing, starting and stopping.
LEMMA TypeTable ==
  ASSUME TypeInv, NEW i \in Id, Add(i) \/ Remove(i)
  PROVE  TypeInv'
<1> DEFINE c == CrontabOf[i]
<1>0. c \in Crontab
  BY CrontabOfId
<1>1. UNCHANGED traffic
  BY DEF Add, Remove
<1>2. /\ fired' \in [Crontab -> 0..MaxFires]
      /\ jobs' \in [Crontab -> Nat] /\ jobs' \in [Crontab -> 0..MaxFires]
      /\ \A d \in Crontab : jobs'[d] <= fired'[d]
      /\ ScheduleCh' \in Seq(Crontab) /\ Len(ScheduleCh') <= 1
      /\ received' \in [Crontab -> Nat]
  BY <1>1 DEF TypeInv, TypeOK, traffic
<1>3. CASE Add(i)
  <2>1. CASE c \notin DOMAIN entries
    <3>1. /\ entries' = With(entries, c, [entry |-> lastEntry + 1, ids |-> {i}])
          /\ cron' = With(cron, lastEntry + 1, c)
          /\ lastEntry' = lastEntry + 1
      BY <1>3, <2>1 DEF Add
    <3>2. /\ DOMAIN entries' = DOMAIN entries \union {c}
          /\ entries' = [d \in DOMAIN entries' |-> entries'[d]]
          /\ entries'[c] = [entry |-> lastEntry + 1, ids |-> {i}]
          /\ \A d \in DOMAIN entries : d # c => entries'[d] = entries[d]
      BY <3>1 DEF With
    <3>3. /\ DOMAIN cron' = DOMAIN cron \union {lastEntry + 1}
          /\ cron' = [e \in DOMAIN cron' |-> cron'[e]]
          /\ cron'[lastEntry + 1] = c
          /\ \A e \in DOMAIN cron : e # lastEntry + 1 => cron'[e] = cron[e]
      BY <3>1 DEF With
    <3>4. lastEntry \in Nat /\ lastEntry' \in Nat /\ lastEntry' = lastEntry + 1
      BY <3>1 DEF TypeInv, TypeOK
    <3>5. /\ DOMAIN cron' \subseteq 1..lastEntry'
          /\ \A e \in DOMAIN cron' : cron'[e] \in Crontab
      BY <1>0, <3>3, <3>4 DEF TypeInv, TypeOK
    <3>6. ASSUME NEW d \in DOMAIN entries'
          PROVE  /\ entries'[d].ids \subseteq Id /\ entries'[d].entry \in 1..lastEntry'
                 /\ entries'[d] = [entry |-> entries'[d].entry, ids |-> entries'[d].ids]
      <4>1. CASE d = c
        BY <4>1, <3>2, <3>4
      <4>2. CASE d # c
        BY <4>2, <3>2, <3>4 DEF TypeInv, TypeOK
      <4> QED
        BY <4>1, <4>2
    <3>7. DOMAIN entries' \subseteq Crontab
      BY <1>0, <3>2 DEF TypeInv, TypeOK
    <3> QED
      BY <1>2, <3>2, <3>3, <3>4, <3>5, <3>6, <3>7 DEF TypeInv, TypeOK
  <2>2. CASE c \in DOMAIN entries
    <3>0. UNCHANGED <<cron, lastEntry>>
      BY <1>3, <2>2 DEF Add
    <3>1. entries' = [entries EXCEPT ![c].ids = @ \union {i}]
      BY <1>3, <2>2 DEF Add
    <3>2. /\ DOMAIN entries' = DOMAIN entries
          /\ entries' = [d \in DOMAIN entries' |-> entries'[d]]
          /\ entries'[c] = [entry |-> entries[c].entry, ids |-> entries[c].ids \union {i}]
          /\ \A d \in DOMAIN entries : d # c => entries'[d] = entries[d]
      BY <2>2, <3>1, IdsUpdate
    <3>3. ASSUME NEW d \in DOMAIN entries'
          PROVE  /\ entries'[d].ids \subseteq Id /\ entries'[d].entry \in 1..lastEntry'
                 /\ entries'[d] = [entry |-> entries'[d].entry, ids |-> entries'[d].ids]
      <4>1. CASE d = c
        BY <4>1, <2>2, <3>0, <3>2 DEF TypeInv, TypeOK
      <4>2. CASE d # c
        BY <4>2, <3>0, <3>2 DEF TypeInv, TypeOK
      <4> QED
        BY <4>1, <4>2
    <3> QED
      BY <1>2, <3>0, <3>2, <3>3 DEF TypeInv, TypeOK
  <2> QED
    BY <2>1, <2>2
<1>4. CASE Remove(i)
  <2>0. c \in DOMAIN entries /\ UNCHANGED lastEntry
    BY <1>4 DEF Remove
  <2>1. /\ entries' = [entries EXCEPT ![c].ids = @ \ {i}]
        /\ cron' = IF entries[c].ids = {i} THEN Without(cron, entries[c].entry) ELSE cron
    BY <1>4 DEF Remove
  <2>2. /\ cron' = [e \in DOMAIN cron' |-> cron'[e]]
        /\ DOMAIN cron' \subseteq DOMAIN cron
        /\ \A e \in DOMAIN cron' : cron'[e] = cron[e]
    BY <2>1 DEF TypeInv, Without
  <2>3. /\ DOMAIN entries' = DOMAIN entries
        /\ entries' = [d \in DOMAIN entries' |-> entries'[d]]
        /\ entries'[c] = [entry |-> entries[c].entry, ids |-> entries[c].ids \ {i}]
        /\ \A d \in DOMAIN entries : d # c => entries'[d] = entries[d]
    BY <2>0, <2>1, IdsUpdate
  <2>4. ASSUME NEW d \in DOMAIN entries'
        PROVE  /\ entries'[d].ids \subseteq Id /\ entries'[d].entry \in 1..lastEntry'
               /\ entries'[d] = [entry |-> entries'[d].entry, ids |-> entries'[d].ids]
    <3>1. CASE d = c
      BY <3>1, <2>0, <2>3 DEF TypeInv, TypeOK
    <3>2. CASE d # c
      BY <3>2, <2>0, <2>3 DEF TypeInv, TypeOK
    <3> QED
      BY <3>1, <3>2
  <2> QED
    BY <1>2, <2>0, <2>2, <2>3, <2>4 DEF TypeInv, TypeOK
<1> QED
  BY <1>3, <1>4

LEMMA TypeStep == TypeInv /\ [Next]_vars => TypeInv'
<1> SUFFICES ASSUME TypeInv, [Next]_vars PROVE TypeInv'
  OBVIOUS
<1>m. MaxFires \in Nat
  BY ScheduleManagerAssumption DEF ScheduleManagerAssumption
<1>1. CASE \E i \in Id : Add(i) \/ Remove(i)
  BY <1>1, TypeTable
<1>2. CASE Start \/ Stop \/ StopCron
  BY <1>2 DEF Start, Stop, StopCron, table, traffic, TypeInv, TypeOK
<1>3. ASSUME NEW e \in DOMAIN cron, Fire(e) PROVE TypeInv'
  BY <1>3, <1>m DEF Fire, table, TypeInv, TypeOK
<1>4. ASSUME NEW c \in Crontab, Send(c) PROVE TypeInv'
  BY <1>4, <1>m DEF Send, table, TypeInv, TypeOK
<1>5. CASE Receive
  BY <1>5, <1>m DEF Receive, table, TypeInv, TypeOK
<1>6. CASE UNCHANGED vars
  BY <1>6 DEF vars, TypeInv, TypeOK
<1> QED
  BY <1>1, <1>2, <1>3, <1>4, <1>5, <1>6 DEF Next

\* Every variable of the schedule manager keeps its type: an entry has an
\* EntryID the cron library gave away, the goroutines that wait to send are
\* bounded by the fires, and the channel holds at most one crontab.
THEOREM TypeCorrect == Spec => []TypeOK
<1>1. TypeInv => TypeOK
  BY DEF TypeInv
<1> QED
  BY TypeInit, TypeStep, <1>1, PTL DEF Spec

-----------------------------------------------------------------------------

LEMMA EntryInit == Init => EntryInv
  BY DEF Init, EntryInv, Functions, None

\* A crontab that gets a new entry gets a function nobody else has.
LEMMA EntryAdd ==
  ASSUME TypeInv, EntryInv, ~Reuse, NEW i \in Id, Add(i)
  PROVE  EntryInv'
<1> DEFINE c == CrontabOf[i]
<1>0. c \in Crontab
  BY CrontabOfId
<1>1. CASE c \notin DOMAIN entries
  <2>1. /\ entries' = With(entries, c, [entry |-> lastEntry + 1, ids |-> {i}])
        /\ cron' = With(cron, lastEntry + 1, c)
    BY <1>1 DEF Add
  <2>2. lastEntry + 1 \notin DOMAIN cron
    BY DEF TypeInv, TypeOK
  <2>3. Functions(c)' = {lastEntry + 1}
    BY <1>0, <1>1, <2>1, <2>2 DEF EntryInv, Functions, With
  <2>4. ASSUME NEW d \in Crontab, d # c PROVE Functions(d)' = Functions(d)
    BY <2>1, <2>2, <2>4 DEF Functions, With
  <2>5. /\ DOMAIN entries' = DOMAIN entries \union {c}
        /\ entries'[c] = [entry |-> lastEntry + 1, ids |-> {i}]
        /\ \A d \in DOMAIN entries : d # c => entries'[d] = entries[d]
    BY <2>1 DEF With
  <2> QED
    BY <2>3, <2>4, <2>5 DEF EntryInv
<1>2. CASE c \in DOMAIN entries
  <2>1. entries' = [entries EXCEPT ![c].ids = @ \union {i}] /\ UNCHANGED cron
    BY <1>2 DEF Add
  <2>2. entries[c].ids # {}
    BY <1>2 DEF Add, MayAdd
  <2>3. /\ DOMAIN entries' = DOMAIN entries
        /\ entries'[c].ids # {} /\ entries'[c].entry = entries[c].entry
        /\ \A d \in DOMAIN entries : d # c => entries'[d] = entries[d]
    <3>1. entries'[c] = [entry |-> entries[c].entry, ids |-> entries[c].ids \union {i}]
      BY <1>2, <2>1, IdsUpdate
    <3> QED
      BY <1>2, <2>1, <3>1, IdsUpdate
  <2>4. \A d \in Crontab : Functions(d)' = Functions(d)
    BY <2>1 DEF Functions
  <2> QED
    BY <1>0, <1>2, <2>2, <2>3, <2>4 DEF EntryInv
<1> QED
  BY <1>1, <1>2

\* The last id takes the function of its own crontab with it and no other.
LEMMA EntryRemove ==
  ASSUME TypeInv, EntryInv, NEW i \in Id, Remove(i)
  PROVE  EntryInv'
<1> DEFINE c == CrontabOf[i]
<1>0. c \in Crontab
  BY CrontabOfId
<1>1. /\ c \in DOMAIN entries /\ i \in entries[c].ids
      /\ entries' = [entries EXCEPT ![c].ids = @ \ {i}]
      /\ cron' = IF entries[c].ids = {i} THEN Without(cron, entries[c].entry) ELSE cron
  BY DEF Remove
<1>2. /\ DOMAIN entries' = DOMAIN entries
      /\ entries'[c].ids = entries[c].ids \ {i} /\ entries'[c].entry = entries[c].entry
      /\ \A d \in DOMAIN entries : d # c => entries'[d] = entries[d]
  <2>1. entries'[c] = [entry |-> entries[c].entry, ids |-> entries[c].ids \ {i}]
    BY <1>1, IdsUpdate
  <2> QED
    BY <1>1, <2>1, IdsUpdate
<1>3. Functions(c) = {entries[c].entry}
  BY <1>0, <1>1 DEF EntryInv
<1>4. CASE entries[c].ids = {i}
  <2>1. cron' = Without(cron, entries[c].entry)
    BY <1>1, <1>4
  <2>2. Functions(c)' = {}
    BY <1>3, <2>1 DEF Functions, Without
  <2>3. cron[entries[c].entry] = c
    BY <1>3 DEF Functions
  <2>4. ASSUME NEW d \in Crontab, d # c PROVE Functions(d)' = Functions(d)
    BY <2>1, <2>3, <2>4 DEF Functions, Without
  <2>5. entries'[c].ids = {}
    BY <1>2, <1>4
  <2> QED
    BY <1>1, <1>2, <2>2, <2>4, <2>5 DEF EntryInv
<1>5. CASE entries[c].ids # {i}
  <2>1. entries'[c].ids # {}
    BY <1>1, <1>2, <1>5
  <2>2. \A d \in Crontab : Functions(d)' = Functions(d)
    BY <1>1, <1>5 DEF Functions
  <2> QED
    BY <1>0, <1>1, <1>2, <1>3, <2>1, <2>2 DEF EntryInv
<1> QED
  BY <1>4, <1>5

LEMMA EntryStep == TypeInv /\ EntryInv /\ ~Reuse /\ [Next]_vars => EntryInv'
<1> SUFFICES ASSUME TypeInv, EntryInv, ~Reuse, [Next]_vars PROVE EntryInv'
  OBVIOUS
<1>1. CASE \E i \in Id : Add(i) \/ Remove(i)
  BY <1>1, EntryAdd, EntryRemove
<1>2. CASE UNCHANGED <<entries, cron>>
  BY <1>2 DEF EntryInv, Functions
<1>3. (\E i \in Id : Add(i) \/ Remove(i)) \/ UNCHANGED <<entries, cron>>
  BY DEF Next, Start, Stop, StopCron, Fire, Send, Receive, table, vars
<1> QED
  BY <1>1, <1>2, <1>3

LEMMA EntryOneFunction == EntryInv => OneFunction
<1> SUFFICES ASSUME EntryInv, NEW c \in Crontab
             PROVE  Cardinality(Functions(c)) = IF Ids(c) = {} THEN 0 ELSE 1
  BY DEF OneFunction
<1>1. CASE Ids(c) = {}
  <2>1. Functions(c) = {}
    BY <1>1 DEF EntryInv, Ids
  <2> QED
    BY <1>1, <2>1, FS_EmptySet
<1>2. CASE Ids(c) # {}
  <2>1. Functions(c) = {entries[c].entry}
    BY <1>2 DEF EntryInv, Ids
  <2> QED
    BY <1>2, <2>1, FS_Singleton
<1> QED
  BY <1>1, <1>2

\* As long as no crontab is used again after its last id was removed, any
\* number of ids may come and go in any order and any number of crontabs: each
\* has one function while it has an id, and none otherwise.
THEOREM OneFunctionAlways == ~Reuse => (Spec => []OneFunction)
<1> SUFFICES ASSUME ~Reuse PROVE Spec => []OneFunction
  OBVIOUS
<1>1. TypeInv /\ EntryInv /\ [Next]_vars => (TypeInv /\ EntryInv)'
  BY TypeStep, EntryStep
<1>2. Init => TypeInv /\ EntryInv
  BY TypeInit, EntryInit
<1> QED
  BY <1>1, <1>2, EntryOneFunction, PTL DEF Spec
==============================================================================
