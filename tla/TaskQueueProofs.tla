--------------------------- MODULE TaskQueueProofs ---------------------------
(***************************************************************************)
(* Proofs about TaskQueue for every value of its constants.                *)
(***************************************************************************)
EXTENDS TaskQueue, SequenceTheorems, WellFoundedInduction, TLAPS

-----------------------------------------------------------------------------
(* Facts about the operations on the slice.                                *)

\* AddFirst: what pushing to the head does to length, positions and contents.
LEMMA ConsFacts ==
    ASSUME NEW S, NEW s \in Seq(S), NEW e \in S
    PROVE  /\ <<e>> \o s \in Seq(S)
           /\ <<e>> \o s # << >>
           /\ Len(<<e>> \o s) = Len(s) + 1
           /\ (<<e>> \o s)[1] = e
           /\ \A i \in 1..Len(s) : (<<e>> \o s)[i + 1] = s[i]
           /\ \A i \in 2..(Len(s) + 1) : (<<e>> \o s)[i] = s[i - 1]
           /\ ToSet(<<e>> \o s) = {e} \union ToSet(s)
<1> DEFINE c == <<e>> \o s
<1>1. /\ c \in Seq(S) /\ Len(c) = Len(s) + 1 /\ c[1] = e /\ c # << >>
      /\ \A i \in 2..(Len(s) + 1) : c[i] = s[i - 1]
  OBVIOUS
<1>2. \A i \in 1..Len(s) : c[i + 1] = s[i]
  BY <1>1
<1> HIDE DEF c
<1>3. ToSet(c) = {e} \union ToSet(s)
  <2>1. ToSet(c) \subseteq {e} \union ToSet(s)
    BY <1>1 DEF ToSet
  <2>2. {e} \union ToSet(s) \subseteq ToSet(c)
    <3>1. \A i \in DOMAIN s : i + 1 \in DOMAIN c /\ c[i + 1] = s[i]
      BY <1>1, <1>2
    <3>2. 1 \in DOMAIN c /\ c[1] = e
      BY <1>1
    <3> QED BY <3>1, <3>2 DEF ToSet
  <2> QED BY <2>1, <2>2
<1> QED BY <1>1, <1>2, <1>3 DEF c

\* AddLast.
LEMMA AppendFacts ==
    ASSUME NEW S, NEW s \in Seq(S), NEW e \in S
    PROVE  /\ Append(s, e) \in Seq(S)
           /\ Append(s, e) # << >>
           /\ Len(Append(s, e)) = Len(s) + 1
           /\ Append(s, e)[Len(s) + 1] = e
           /\ \A i \in 1..Len(s) : Append(s, e)[i] = s[i]
           /\ ToSet(Append(s, e)) = ToSet(s) \union {e}
<1> DEFINE c == Append(s, e)
<1>1. /\ c \in Seq(S) /\ Len(c) = Len(s) + 1 /\ c[Len(s) + 1] = e /\ c # << >>
      /\ \A i \in 1..Len(s) : c[i] = s[i]
  OBVIOUS
<1> HIDE DEF c
<1>2. ToSet(c) = ToSet(s) \union {e}
  <2>1. ToSet(c) \subseteq ToSet(s) \union {e}
    BY <1>1 DEF ToSet
  <2>2. ToSet(s) \union {e} \subseteq ToSet(c)
    <3>1. \A i \in DOMAIN s : i \in DOMAIN c /\ c[i] = s[i]
      BY <1>1
    <3>2. Len(s) + 1 \in DOMAIN c /\ c[Len(s) + 1] = e
      BY <1>1
    <3> QED BY <3>1, <3>2 DEF ToSet
  <2> QED BY <2>1, <2>2
<1> QED BY <1>1, <1>2 DEF c

\* RemoveFirst, and the Remove of the task at the head.
LEMMA TailFacts ==
    ASSUME NEW S, NEW s \in Seq(S), s # << >>
    PROVE  /\ s[1] \in S
           /\ Head(s) = s[1]
           /\ Tail(s) \in Seq(S)
           /\ Len(s) >= 1
           /\ Len(Tail(s)) = Len(s) - 1
           /\ \A i \in 1..(Len(s) - 1) : Tail(s)[i] = s[i + 1]
           /\ ToSet(s) = {s[1]} \union ToSet(Tail(s))
<1> DEFINE r == Tail(s)
<1>1. /\ s[1] \in S /\ Head(s) = s[1] /\ r \in Seq(S)
      /\ Len(s) >= 1 /\ Len(r) = Len(s) - 1
      /\ \A i \in 1..(Len(s) - 1) : r[i] = s[i + 1]
  OBVIOUS
<1> HIDE DEF r
<1>2. ToSet(s) = {s[1]} \union ToSet(r)
  <2>1. \A i \in DOMAIN s : i = 1 \/ (i - 1 \in DOMAIN r /\ r[i - 1] = s[i])
    BY <1>1
  <2>2. \A i \in DOMAIN r : i + 1 \in DOMAIN s /\ r[i] = s[i + 1]
    BY <1>1
  <2>3. 1 \in DOMAIN s
    BY <1>1
  <2>4. ToSet(s) \subseteq {s[1]} \union ToSet(r)
    BY <2>1 DEF ToSet
  <2>5. {s[1]} \union ToSet(r) \subseteq ToSet(s)
    BY <2>2, <2>3 DEF ToSet
  <2> QED BY <2>4, <2>5
<1> QED BY <1>1, <1>2 DEF r

\* The index loop of Remove and AddAfter stops at the first task it looks for.
LEMMA IndexFacts ==
    ASSUME NEW S, NEW s \in Seq(S), NEW e
    PROVE  /\ IndexOf(s, e) \in 0..Len(s)
           /\ (\E i \in 1..Len(s) : s[i] = e)
                => IndexOf(s, e) \in 1..Len(s) /\ s[IndexOf(s, e)] = e
           /\ \A j \in 1..Len(s) : s[j] = e => IndexOf(s, e) <= j
           /\ RemoveFirst(s, e) = IF \E i \in 1..Len(s) : s[i] = e
                                  THEN RemoveAt(s, IndexOf(s, e)) ELSE s
<1> DEFINE I == {i \in 1..Len(s) : s[i] = e}
<1>1. RemoveFirst(s, e) = IF \E i \in 1..Len(s) : s[i] = e
                          THEN RemoveAt(s, IndexOf(s, e)) ELSE s
  BY DEF RemoveFirst, IndexOf
<1>2. IndexOf(s, e) = IF I # {} THEN Min(I) ELSE 0
  BY DEF IndexOf, SelectInSeq
<1>3. CASE I = {}
  BY <1>1, <1>2, <1>3
<1>4. CASE I # {}
  <2>1. \E x \in I : \A y \in I : x <= y
    <3>1. I \subseteq Nat
      OBVIOUS
    <3>2. PICK x \in I : \A y \in I : <<y, x>> \notin OpToRel(<, Nat)
      BY <3>1, <1>4, NatLessThanWellFounded, WFMin
    <3>3. \A y \in I : ~(y < x)
      BY <3>1, <3>2 DEF OpToRel
    <3>4. \A y \in I : x <= y
      BY <3>1, <3>3
    <3> QED BY <3>4
  <2>2. Min(I) \in I /\ \A y \in I : Min(I) <= y
    BY <2>1 DEF Min
  <2> QED BY <2>2, <1>1, <1>2, <1>4
<1> QED BY <1>3, <1>4

\* Remove of a task the queue holds keeps the type of the slice; Remove of the
\* head is the slice without its head.
LEMMA RemoveFacts ==
    ASSUME NEW S, NEW s \in Seq(S), NEW e
    PROVE  /\ RemoveFirst(s, e) \in Seq(S)
           /\ (s # << >> /\ s[1] = e) => RemoveFirst(s, e) = Tail(s)
<1>1. RemoveFirst(s, e) \in Seq(S)
  <2>1. CASE \E i \in 1..Len(s) : s[i] = e
    <3> DEFINE k == IndexOf(s, e)
    <3>1. k \in 1..Len(s) /\ RemoveFirst(s, e) = RemoveAt(s, k)
      BY <2>1, IndexFacts
    <3> HIDE DEF k
    <3>2. SubSeq(s, 1, k - 1) \in Seq(S) /\ SubSeq(s, k + 1, Len(s)) \in Seq(S)
      BY <3>1
    <3> QED BY <3>1, <3>2 DEF RemoveAt
  <2>2. CASE ~ \E i \in 1..Len(s) : s[i] = e
    BY <2>2, IndexFacts
  <2> QED BY <2>1, <2>2
<1>2. ASSUME s # << >>, s[1] = e
      PROVE  RemoveFirst(s, e) = Tail(s)
  <2>1. 1 \in 1..Len(s)
    BY <1>2
  <2>2. IndexOf(s, e) = 1
    BY <1>2, <2>1, IndexFacts
  <2>a. RemoveFirst(s, e) = RemoveAt(s, 1)
    BY <1>2, <2>1, <2>2, IndexFacts
  <2>3. RemoveAt(s, 1) = SubSeq(s, 1, 0) \o SubSeq(s, 2, Len(s))
    BY DEF RemoveAt
  <2>4. SubSeq(s, 1, 0) = << >>
    BY 1 \in Int, 0 \in Int, 0 < 1, SubSeqEmpty, Zenon
  <2>6. SubSeq(s, 2, Len(s)) = Tail(s)
    BY <1>2, TailIsSubSeq
  <2>5. Tail(s) \in Seq(S)
    BY <1>2
  <2> QED BY <2>a, <2>3, <2>4, <2>5, <2>6
<1> QED BY <1>1, <1>2

\* A slice with a gap cut out of it is a slice.
LEMMA SubSeqType ==
    ASSUME NEW S, NEW s \in Seq(S), NEW m \in 1..(Len(s) + 1), NEW n \in Nat, n <= Len(s)
    PROVE  SubSeq(s, m, n) \in Seq(S)
  OBVIOUS

-----------------------------------------------------------------------------
(* Type correctness, whoever calls whatever on the queue.                  *)

\* AddAfter is only under way for a task of the result.
TypeInv ==
    /\ TypeOK
    /\ pc \in {"copy", "assign"} => res.after # << >>

LEMMA ClientType == ASSUME TypeInv, Client PROVE TypeInv'
<1> USE TaskQueueAssumption
<1>1. CASE AddFirst
  BY <1>1, ConsFacts, SMTT(40) DEF AddFirst, TypeInv, TypeOK, history
<1>2. CASE AddLast
  BY <1>2 DEF AddLast, TypeInv, TypeOK, history
<1>3. CASE RemoveHead
  <2>1. Tail(items) \in Seq(0..MaxTasks) /\ Head(items) \in 0..MaxTasks
    BY <1>3, SMTT(40) DEF RemoveHead, TypeInv, TypeOK
  <2> QED BY <2>1, <1>3 DEF RemoveHead, TypeInv, TypeOK
<1>4. CASE RemoveLast
  <2>0. items \in Seq(0..MaxTasks) /\ items # << >>
    BY <1>4 DEF RemoveLast, TypeInv, TypeOK
  <2>1. Front(items) \in Seq(0..MaxTasks) /\ Last(items) \in 0..MaxTasks
    BY <2>0 DEF Front, Last
  <2> QED BY <2>1, <1>4 DEF RemoveLast, TypeInv, TypeOK
<1>5. ASSUME NEW t \in 1..MaxTasks, RemoveById(t) PROVE TypeInv'
  <2>1. RemoveFirst(items, t) \in Seq(0..MaxTasks)
    BY RemoveFacts DEF TypeInv, TypeOK
  <2>2. t \in 0..MaxTasks
    OBVIOUS
  <2>3. taken' \subseteq 0..MaxTasks
    BY <2>2, <1>5 DEF RemoveById, TypeInv, TypeOK
  <2> QED BY <2>1, <2>3, <1>5 DEF RemoveById, TypeInv, TypeOK
<1> QED BY <1>1, <1>2, <1>3, <1>4, <1>5 DEF Client

LEMMA WaitType ==
    ASSUME TypeInv, Stop \/ Start \/ EnterWait \/ Poll \/ SleepOver \/ SleepCancelled \/ GetHead
    PROVE  TypeInv'
<1> USE DEF TypeInv, TypeOK, qstate, history, Places
<1>1. CASE Stop BY <1>1 DEF Stop
<1>2. CASE Start BY <1>2 DEF Start
<1>3. CASE EnterWait BY <1>3 DEF EnterWait
<1>4. CASE Poll BY <1>4 DEF Poll
<1>5. CASE SleepOver BY <1>5 DEF SleepOver
<1>6. CASE SleepCancelled BY <1>6 DEF SleepCancelled
<1>7. CASE GetHead
  <2>1. GetFirst(items) \in 0..MaxTasks
    BY TaskQueueAssumption DEF GetFirst, Nil
  <2> QED BY <2>1, <1>7, SMTT(40) DEF GetHead
<1> QED BY <1>1, <1>2, <1>3, <1>4, <1>5, <1>6, <1>7

LEMMA HandlerType ==
    ASSUME TypeInv, (\E k \in 1..MaxTasks : Combine(k)) \/ HandlerReturns
    PROVE  TypeInv'
<1> USE TaskQueueAssumption
<1>1. ASSUME NEW k \in 1..MaxTasks, Combine(k) PROVE TypeInv'
  <2>1. k + 1 \in Nat /\ k + 1 <= Len(items) /\ items \in Seq(0..MaxTasks) /\ items # << >>
    BY <1>1 DEF Combine, TypeInv, TypeOK
  <2>2. SubSeq(items, k + 2, Len(items)) \in Seq(0..MaxTasks)
    BY <2>1
  <2>3. SubSeq(items, 2, k + 1) \in Seq(0..MaxTasks)
    BY <2>1
  <2>4. ToSet(SubSeq(items, 2, k + 1)) \subseteq 1..MaxTasks
    <3>1. \A i \in 1..k : SubSeq(items, 2, k + 1)[i] = items[i + 1]
      BY <2>1
    <3>2. Len(SubSeq(items, 2, k + 1)) = k
      BY <2>1
    <3>3. \A i \in 1..Len(items) : items[i] # Nil
      BY <1>1, <2>1 DEF Combine, ToSet
    <3>4. \A i \in 1..k : items[i + 1] \in 1..MaxTasks
      BY <2>1, <3>3 DEF Nil
    <3> QED BY <2>3, <3>1, <3>2, <3>4 DEF ToSet
  <2>5. <<items[1]>> \o SubSeq(items, k + 2, Len(items)) \in Seq(0..MaxTasks)
    BY <2>1, <2>2
  <2> QED BY <1>1, <2>4, <2>5 DEF Combine, TypeInv, TypeOK
<1>2. CASE HandlerReturnsLate
  BY <1>2 DEF HandlerReturnsLate, TypeInv, TypeOK, qstate, history, Places
<1>3. CASE HandlerFails
  <2>1. failureCount' \in [1..MaxTasks -> 0..MaxFailures]
    <3>1. failureCount \in [1..MaxTasks -> 0..MaxFailures]
      BY DEF TypeInv, TypeOK
    <3>2. \A n \in 0..MaxFailures : (IF n < MaxFailures THEN n + 1 ELSE n) \in 0..MaxFailures
      OBVIOUS
    <3> QED BY <1>3, <3>1, <3>2 DEF HandlerFails
  <2> QED BY <1>3, <2>1 DEF HandlerFails, TypeInv, TypeOK, history, Places
<1>4. CASE HandlerRepeats
  BY <1>4 DEF HandlerRepeats, TypeInv, TypeOK, qstate, history, Places
<1>5. ASSUME NEW a \in 0..MaxAfter, NEW l \in 0..MaxTail, NEW h \in 0..MaxHead,
             NEW delay \in BOOLEAN, HandlerSucceeds(a, l, h, delay)
      PROVE  TypeInv'
  <2>1. nextId \in 0..MaxTasks /\ nextId + a + l + h <= MaxTasks
    BY <1>5 DEF HandlerSucceeds, TypeInv, TypeOK
  <2>2. /\ NewTasks(nextId, a) \in Seq(1..MaxTasks)
        /\ NewTasks(nextId + a, l) \in Seq(1..MaxTasks)
        /\ NewTasks(nextId + a + l, h) \in Seq(1..MaxTasks)
    BY <2>1 DEF NewTasks
  <2>3. nextId' \in 0..MaxTasks
    BY <1>5, <2>1 DEF HandlerSucceeds
  <2> QED BY <1>5, <2>2, <2>3 DEF HandlerSucceeds, TypeInv, TypeOK, history, Places
<1> QED BY <1>1, <1>2, <1>3, <1>4, <1>5 DEF HandlerReturns, Success

LEMMA ApplyType == ASSUME TypeInv, Apply PROVE TypeInv'
<1> USE TaskQueueAssumption
<1>1. CASE AfterMake
  <2>1. newItems' \in Seq(0..MaxTasks)
    BY <1>1 DEF AfterMake, TypeInv, TypeOK, Nil
  <2> QED BY <1>1, <2>1 DEF AfterMake, TypeInv, TypeOK, history, Places
<1>2. CASE AfterCopy
  <2> DEFINE k == IndexOf(items, cur)
             copied == IF k = 0 THEN items ELSE InsertAt(items, k + 1, Last(res.after))
  <2>1. items \in Seq(0..MaxTasks) /\ newItems \in Seq(0..MaxTasks)
    BY DEF TypeInv, TypeOK
  <2>2. Last(res.after) \in 0..MaxTasks
    BY <1>2 DEF AfterCopy, TypeInv, TypeOK, Last
  <2>3. k \in 0..Len(items)
    BY <2>1, IndexFacts
  <2> HIDE DEF k
  <2>4. copied \in Seq(0..MaxTasks)
    <3>1. SubSeq(items, 1, k) \in Seq(0..MaxTasks)
      BY <2>1, <2>3
    <3>2. SubSeq(items, k + 1, Len(items)) \in Seq(0..MaxTasks)
      BY <2>1, <2>3
    <3>3. (k + 1) - 1 = k
      BY <2>3
    <3>4. InsertAt(items, k + 1, Last(res.after))
            = SubSeq(items, 1, k) \o <<Last(res.after)>> \o SubSeq(items, k + 1, Len(items))
      BY <3>3, Zenon DEF InsertAt
    <3>5. SubSeq(items, 1, k) \o <<Last(res.after)>> \in Seq(0..MaxTasks)
      BY <2>2, <3>1
    <3>6. InsertAt(items, k + 1, Last(res.after)) \in Seq(0..MaxTasks)
      BY <3>2, <3>4, <3>5, ConcatProperties, Zenon
    <3> QED BY <2>1, <3>6
  <2> HIDE DEF copied
  <2>5. [i \in 1..Len(newItems) |-> IF i <= Len(copied) THEN copied[i] ELSE Nil]
            \in Seq(0..MaxTasks)
    BY <2>1, <2>4 DEF Nil
  <2>6. newItems' \in Seq(0..MaxTasks) /\ pc' \in {"assign", "crashed"}
    BY <1>2, <2>1, <2>5 DEF AfterCopy, copied, k
  <2> QED BY <1>2, <2>6 DEF AfterCopy, TypeInv, TypeOK, history, Places
<1>3. CASE AfterAssign
  <2>1. Front(res.after) \in Seq(1..MaxTasks)
    BY SMTT(40) DEF TypeInv, TypeOK, Front
  <2>2. res' = [res EXCEPT !.after = Front(res.after)]
    BY <1>3 DEF AfterAssign
  <2>3. res' \in [after : Seq(1..MaxTasks), tail : Seq(1..MaxTasks),
                  head : Seq(1..MaxTasks), delay : BOOLEAN]
    BY <2>1, <2>2 DEF TypeInv, TypeOK
  <2> QED BY <1>3, <2>3 DEF AfterAssign, TypeInv, TypeOK, history, Places
<1>4. CASE ApplyTail
  <2>0. res.tail \in Seq(1..MaxTasks) /\ res.tail # << >>
    BY <1>4 DEF ApplyTail, TypeInv, TypeOK
  <2>1. Tail(res.tail) \in Seq(1..MaxTasks) /\ Head(res.tail) \in 1..MaxTasks
    BY <2>0, HeadTailProperties, Zenon
  <2>2. Append(items, Head(res.tail)) \in Seq(0..MaxTasks)
    BY <2>1 DEF TypeInv, TypeOK
  <2>3. res' \in [after : Seq(1..MaxTasks), tail : Seq(1..MaxTasks),
                  head : Seq(1..MaxTasks), delay : BOOLEAN]
    BY <1>4, <2>1 DEF ApplyTail, TypeInv, TypeOK
  <2> QED BY <1>4, <2>2, <2>3 DEF ApplyTail, TypeInv, TypeOK, history
<1>5. CASE ApplyRemove
  <2>1. RemoveFirst(items, cur) \in Seq(0..MaxTasks)
    BY RemoveFacts DEF TypeInv, TypeOK
  <2>2. CASE RemovePanics(items, cur)
    BY <1>5, <2>2 DEF ApplyRemove, TypeInv, TypeOK, Places
  <2>3. CASE ~RemovePanics(items, cur)
    <3>1. /\ items' = RemoveFirst(items, cur) /\ done' = done \union {cur}
          /\ cur' = Nil /\ pc' = "push"
          /\ UNCHANGED <<sleepDelay, res, newItems, failureCount, cancelled, nextId,
                         merged, taken, late>>
      BY <1>5, <2>3 DEF ApplyRemove
    <3>2. cur \in 1..MaxTasks
      BY <1>5 DEF ApplyRemove, TypeInv, TypeOK, Nil
    <3> QED BY <2>1, <3>1, <3>2, SMTT(40) DEF TypeInv, TypeOK, Places, Nil
  <2> QED BY <2>2, <2>3
<1>6. CASE ApplyHead
  <2>0. res.head \in Seq(1..MaxTasks) /\ res.head # << >>
    BY <1>6 DEF ApplyHead, TypeInv, TypeOK
  <2>1. Tail(res.head) \in Seq(1..MaxTasks) /\ Head(res.head) \in 1..MaxTasks
    BY <2>0, HeadTailProperties, Zenon
  <2>2. <<Head(res.head)>> \o items \in Seq(0..MaxTasks)
    BY <2>1 DEF TypeInv, TypeOK
  <2>3. res' \in [after : Seq(1..MaxTasks), tail : Seq(1..MaxTasks),
                  head : Seq(1..MaxTasks), delay : BOOLEAN]
    BY <1>6, <2>1 DEF ApplyHead, TypeInv, TypeOK
  <2> QED BY <1>6, <2>2, <2>3 DEF ApplyHead, TypeInv, TypeOK, history
<1>7. CASE ResultApplied
  <2>1. NoResult \in [after : Seq(1..MaxTasks), tail : Seq(1..MaxTasks),
                      head : Seq(1..MaxTasks), delay : BOOLEAN]
    BY DEF NoResult
  <2> QED BY <1>7, <2>1 DEF ResultApplied, TypeInv, TypeOK, qstate, history, Places
<1> QED BY <1>1, <1>2, <1>3, <1>4, <1>5, <1>6, <1>7 DEF Apply

LEMMA InitType == Init => TypeInv
<1>1. NoResult \in [after : Seq(1..MaxTasks), tail : Seq(1..MaxTasks),
                    head : Seq(1..MaxTasks), delay : BOOLEAN]
  BY DEF NoResult
<1>2. << >> \in Seq(0..MaxTasks)
  OBVIOUS
<1>3. [t \in 1..MaxTasks |-> 0] \in [1..MaxTasks -> 0..MaxFailures] /\ 0 \in 0..MaxTasks
  BY TaskQueueAssumption
<1> SUFFICES ASSUME Init PROVE TypeInv
  OBVIOUS
<1>4. sleepDelay \in BOOLEAN /\ cancelled \in BOOLEAN
  BY Zenon DEF Init
<1>5. pc \in Places /\ pc \notin {"handle", "apply", "copy", "assign"} /\ late \in Nat
  BY DEF Init, Places
<1>6. done \subseteq 1..MaxTasks /\ merged \subseteq 1..MaxTasks /\ taken \subseteq 0..MaxTasks
  BY DEF Init
<1>7. /\ items \in Seq(0..MaxTasks) /\ newItems \in Seq(0..MaxTasks)
      /\ cur \in 0..MaxTasks /\ nextId \in 0..MaxTasks
      /\ failureCount \in [1..MaxTasks -> 0..MaxFailures]
  BY <1>2, <1>3 DEF Init, Nil
<1>8. res \in [after : Seq(1..MaxTasks), tail : Seq(1..MaxTasks),
               head : Seq(1..MaxTasks), delay : BOOLEAN]
  BY <1>1 DEF Init
<1> QED BY <1>4, <1>5, <1>6, <1>7, <1>8 DEF TypeInv, TypeOK

\* Every variable of the queue keeps its type, whatever the other goroutines
\* call and whatever the handler returns: in particular the handler is called
\* with a task, also when the queue was emptied after IsEmpty or AddAfter has
\* left an unset element at its head.
THEOREM TypeCorrect == Spec => []TypeOK
<1>1. Init => TypeInv
  BY InitType
<1>2. TypeInv /\ [Next]_vars => TypeInv'
  <2> SUFFICES ASSUME TypeInv, [Next]_vars PROVE TypeInv'
    OBVIOUS
  <2>1. CASE UNCHANGED vars
    BY <2>1 DEF vars, TypeInv, TypeOK
  <2>2. CASE Next
    BY <2>2, ClientType, WaitType, HandlerType, ApplyType DEF Next, Worker
  <2> QED BY <2>1, <2>2
<1>3. TypeInv => TypeOK
  BY DEF TypeInv
<1> QED BY <1>1, <1>2, <1>3, PTL DEF Spec

-----------------------------------------------------------------------------
(* The late call.  Once a handler call has begun after the cancellation,   *)
(* the goroutine is in that call or has ended: the context is looked at    *)
(* when the handler returns, before the loop can take another task.        *)

LateInv ==
    /\ late \in Nat
    /\ late <= 1
    /\ late = 1 => cancelled /\ pc \in {"handle", "stopped"}

LEMMA LateStep == ASSUME LateInv, [Next]_vars PROVE LateInv'
<1>1. CASE UNCHANGED vars
  BY <1>1 DEF vars, LateInv
<1>2. CASE Client
  BY <1>2 DEF LateInv, Client, AddFirst, AddLast, RemoveHead, RemoveLast, RemoveById, history
<1>3. CASE Stop
  BY <1>3 DEF LateInv, Stop, history
<1>4. CASE Start \/ EnterWait \/ Poll \/ SleepOver \/ SleepCancelled
  BY <1>4 DEF LateInv, Start, EnterWait, Poll, SleepOver, SleepCancelled, history
<1>5. CASE GetHead
  BY <1>5 DEF LateInv, GetHead
<1>6. ASSUME NEW k, Combine(k) PROVE LateInv'
  BY <1>6 DEF LateInv, Combine
<1>7. CASE HandlerReturnsLate \/ HandlerFails \/ HandlerRepeats
  BY <1>7 DEF LateInv, HandlerReturnsLate, HandlerFails, HandlerRepeats, history
<1>8. ASSUME NEW a, NEW l, NEW h, NEW delay, HandlerSucceeds(a, l, h, delay) PROVE LateInv'
  BY <1>8 DEF LateInv, HandlerSucceeds, history
<1>9. CASE Apply
  BY <1>9 DEF LateInv, Apply, AfterMake, AfterCopy, AfterAssign, ApplyTail, ApplyRemove,
              ApplyHead, ResultApplied, history
<1> QED BY <1>1, <1>2, <1>3, <1>4, <1>5, <1>6, <1>7, <1>8, <1>9
        DEF Next, Worker, HandlerReturns, Success

\* Wherever the goroutine is when the queue is stopped, and whatever clients do
\* then, it begins at most one more handler call.
THEOREM AtMostOneLateCallAlways == Spec => []AtMostOneLateCall
<1>1. Init => LateInv
  BY DEF Init, LateInv
<1>2. LateInv => AtMostOneLateCall
  BY DEF LateInv, AtMostOneLateCall
<1> QED BY <1>1, <1>2, LateStep, PTL DEF Spec

-----------------------------------------------------------------------------
(***************************************************************************)
(* What holds of a TaskQueue that is used the way shell-operator uses its  *)
(* queues (SafeUse), for every number of tasks: no task is lost or run     *)
(* again after it ended, a failing task blocks the queue, and the          *)
(* goroutine ends only when it is stopped.                                 *)
(***************************************************************************)

Distinct(s) == \A i, j \in 1..Len(s) : i # j => s[i] # s[j]

(***************************************************************************)
(* The inductive invariant.  NothingLost, NothingTwice and HeadBlocks are  *)
(* about the slice; they are kept because the tasks of a result that are   *)
(* not in the slice yet are new, all different and not yet ended, because  *)
(* a result exists only while it is applied, and because between IsEmpty   *)
(* and GetFirst nobody removes a task.                                     *)
(***************************************************************************)
SafeInv ==
    /\ TypeInv
    /\ pc \notin {"copy", "assign", "crashed"}
    /\ res.after = << >>
    /\ pc \notin {"apply", "push"} => res.tail = << >> /\ res.head = << >>
    /\ pc = "push" => res.tail = << >> /\ cur = Nil
    /\ pc = "get" => items # << >>
    /\ pc \in {"handle", "apply"} => cur # Nil
    /\ cur # Nil => GetFirst(items) = cur
    /\ pc = "stopped" => cancelled
    /\ Len(res.head) <= MaxHead
    /\ Distinct(items) /\ Distinct(res.tail) /\ Distinct(res.head)
    /\ ToSet(items) \cap ToSet(res.tail) = {}
    /\ ToSet(items) \cap ToSet(res.head) = {}
    /\ ToSet(res.tail) \cap ToSet(res.head) = {}
    /\ Ended \cap (ToSet(items) \union ToSet(res.tail) \union ToSet(res.head)) = {}
    /\ ToSet(items) \union ToSet(res.tail) \union ToSet(res.head) \union Ended = 1..nextId

-----------------------------------------------------------------------------
(* Distinctness under the operations on the slice.                         *)

LEMMA ConsDistinct ==
    ASSUME NEW S, NEW s \in Seq(S), NEW e \in S, Distinct(s), e \notin ToSet(s)
    PROVE  Distinct(<<e>> \o s)
<1> DEFINE c == <<e>> \o s
<1>1. /\ c \in Seq(S) /\ Len(c) = Len(s) + 1 /\ c[1] = e
      /\ \A i \in 2..(Len(s) + 1) : c[i] = s[i - 1]
  BY ConsFacts
<1>2. \A i \in 1..Len(s) : s[i] # e
  BY DEF ToSet
<1> HIDE DEF c
<1>a. \A i \in 1..Len(c) : i = 1 \/ (i - 1 \in 1..Len(s) /\ c[i] = s[i - 1])
  BY <1>1
<1>3. Distinct(c)
  <2> SUFFICES ASSUME NEW i \in 1..Len(c), NEW j \in 1..Len(c), i # j PROVE c[i] # c[j]
    BY DEF Distinct
  <2>1. CASE i = 1 BY <2>1, <1>1, <1>2, <1>a
  <2>2. CASE j = 1 BY <2>2, <1>1, <1>2, <1>a
  <2>3. CASE i # 1 /\ j # 1
    <3>1. i - 1 # j - 1 BY <2>3
    <3> QED BY <2>3, <3>1, <1>a DEF Distinct
  <2> QED BY <2>1, <2>2, <2>3
<1> QED BY <1>3 DEF c

LEMMA AppendDistinct ==
    ASSUME NEW S, NEW s \in Seq(S), NEW e \in S, Distinct(s), e \notin ToSet(s)
    PROVE  Distinct(Append(s, e))
<1> DEFINE c == Append(s, e)
<1>1. /\ c \in Seq(S) /\ Len(c) = Len(s) + 1 /\ c[Len(s) + 1] = e
      /\ \A i \in 1..Len(s) : c[i] = s[i]
  BY AppendFacts
<1>2. \A i \in 1..Len(s) : s[i] # e
  BY DEF ToSet
<1> HIDE DEF c
<1>3. Distinct(c)
  BY <1>1, <1>2 DEF Distinct
<1> QED BY <1>3 DEF c

LEMMA TailDistinct ==
    ASSUME NEW S, NEW s \in Seq(S), s # << >>, Distinct(s)
    PROVE  /\ Distinct(Tail(s))
           /\ s[1] \notin ToSet(Tail(s))
           /\ ToSet(s) = {s[1]} \union ToSet(Tail(s))
<1> DEFINE c == Tail(s)
<1>1. /\ c \in Seq(S) /\ Len(c) = Len(s) - 1 /\ Len(s) >= 1
      /\ \A i \in 1..(Len(s) - 1) : c[i] = s[i + 1]
      /\ ToSet(s) = {s[1]} \union ToSet(c)
  BY TailFacts
<1> HIDE DEF c
<1>2. Distinct(c)
  BY <1>1 DEF Distinct
<1>3. s[1] \notin ToSet(c)
  BY <1>1 DEF Distinct, ToSet
<1> QED BY <1>1, <1>2, <1>3 DEF c

\* Filter in CombineBindingContextForHook: the head stays, k tasks go.
LEMMA CutFacts ==
    ASSUME NEW S, NEW s \in Seq(S), Distinct(s), NEW k \in Nat, k + 1 <= Len(s)
    PROVE  LET c == <<s[1]>> \o SubSeq(s, k + 2, Len(s))
               g == SubSeq(s, 2, k + 1)
           IN  /\ c \in Seq(S) /\ c # << >> /\ c[1] = s[1]
               /\ Distinct(c)
               /\ ToSet(s) = ToSet(c) \union ToSet(g)
               /\ ToSet(c) \cap ToSet(g) = {}
<1> DEFINE r == SubSeq(s, k + 2, Len(s))
           c == <<s[1]>> \o r
           g == SubSeq(s, 2, k + 1)
<1>1. /\ r \in Seq(S) /\ Len(r) = Len(s) - (k + 1)
      /\ \A i \in 1..(Len(s) - (k + 1)) : r[i] = s[i + k + 1]
  OBVIOUS
<1>2. g \in Seq(S) /\ Len(g) = k /\ \A i \in 1..k : g[i] = s[i + 1]
  OBVIOUS
<1>3. s[1] \in S
  OBVIOUS
<1> HIDE DEF r, g
<1>4. /\ c \in Seq(S) /\ c # << >> /\ Len(c) = Len(s) - k /\ c[1] = s[1]
      /\ \A i \in 2..(Len(s) - k) : c[i] = s[i + k]
  <2>1. /\ c \in Seq(S) /\ c # << >> /\ Len(c) = Len(r) + 1 /\ c[1] = s[1]
        /\ \A i \in 2..(Len(r) + 1) : c[i] = r[i - 1]
    BY <1>1, <1>3, ConsFacts
  <2> QED BY <1>1, <2>1
<1> HIDE DEF c
<1>5. Distinct(c)
  BY <1>4 DEF Distinct
<1>6. ToSet(c) \cap ToSet(g) = {}
  <2>1. ASSUME NEW i \in DOMAIN c, NEW j \in DOMAIN g PROVE c[i] # g[j]
    <3>1. j + 1 \in 1..Len(s) /\ g[j] = s[j + 1] /\ j + 1 <= k + 1
      BY <1>2
    <3>2. CASE i = 1
      <4>1. 1 \in 1..Len(s) /\ 1 # j + 1 /\ c[i] = s[1]
        BY <1>2, <1>4, <3>1, <3>2
      <4> QED BY <3>1, <4>1 DEF Distinct
    <3>3. CASE i # 1
      <4>1. i + k \in 1..Len(s) /\ c[i] = s[i + k] /\ i + k # j + 1
        BY <1>4, <3>1, <3>3
      <4> QED BY <3>1, <4>1 DEF Distinct
    <3> QED BY <3>2, <3>3
  <2> QED BY <2>1 DEF ToSet
<1>7. ToSet(c) \union ToSet(g) \subseteq ToSet(s)
  <2>1. \A i \in DOMAIN c : \E j \in DOMAIN s : c[i] = s[j]
    <3>1. \A i \in DOMAIN c : i = 1 \/ (i + k \in DOMAIN s /\ c[i] = s[i + k])
      BY <1>4
    <3> QED BY <1>4, <3>1
  <2>2. \A i \in DOMAIN g : i + 1 \in DOMAIN s /\ g[i] = s[i + 1]
    BY <1>2
  <2> QED BY <2>1, <2>2 DEF ToSet
<1>8. ToSet(s) \subseteq ToSet(c) \union ToSet(g)
  <2>1. \A i \in DOMAIN s : \/ i \in DOMAIN c /\ i = 1 /\ s[i] = c[i]
                            \/ i - 1 \in DOMAIN g /\ s[i] = g[i - 1]
                            \/ i - k \in DOMAIN c /\ s[i] = c[i - k]
    <3> SUFFICES ASSUME NEW i \in DOMAIN s
                 PROVE  \/ i \in DOMAIN c /\ i = 1 /\ s[i] = c[i]
                        \/ i - 1 \in DOMAIN g /\ s[i] = g[i - 1]
                        \/ i - k \in DOMAIN c /\ s[i] = c[i - k]
      OBVIOUS
    <3>1. CASE i = 1 BY <3>1, <1>4
    <3>2. CASE i \in 2..(k + 1) BY <3>2, <1>2
    <3>3. CASE i \in (k + 2)..Len(s) BY <3>3, <1>4
    <3> QED BY <3>1, <3>2, <3>3
  <2> QED BY <2>1 DEF ToSet
<1> QED BY <1>4, <1>5, <1>6, <1>7, <1>8 DEF c, r, g

\* The tasks of a result are new and all different.
LEMMA NewTasksFacts ==
    ASSUME NEW f \in Nat, NEW n \in Nat
    PROVE  /\ Distinct(NewTasks(f, n))
           /\ ToSet(NewTasks(f, n)) = (f + 1)..(f + n)
           /\ n = 0 => NewTasks(f, n) = << >>
<1> DEFINE c == NewTasks(f, n)
<1>1. DOMAIN c = 1..n /\ Len(c) = n /\ \A i \in 1..n : c[i] = f + i
  BY DEF NewTasks
<1> HIDE DEF c
<1>2. Distinct(c)
  BY <1>1 DEF Distinct
<1>3. \A x \in (f + 1)..(f + n) : x - f \in DOMAIN c /\ c[x - f] = x
  BY <1>1
<1>4. ToSet(c) = (f + 1)..(f + n)
  BY <1>1, <1>3 DEF ToSet
<1>5. c \in Seq(Nat)
  BY DEF c, NewTasks
<1>6. n = 0 => c = << >>
  BY <1>1, <1>5
<1> QED BY <1>2, <1>4, <1>6 DEF c

-----------------------------------------------------------------------------
(* Every action keeps the invariant.                                       *)

LEMMA NoUnsetTask == SafeInv => \A i \in 1..Len(items) : items[i] # Nil
<1> SUFFICES ASSUME SafeInv, NEW i \in 1..Len(items) PROVE items[i] # Nil
  OBVIOUS
<1>1. items[i] \in ToSet(items)
  BY DEF SafeInv, TypeInv, TypeOK, ToSet
<1>2. ToSet(items) \subseteq 1..nextId
  BY DEF SafeInv
<1> QED BY <1>1, <1>2 DEF Nil

LEMMA SafeClient == ASSUME SafeUse, SafeInv, Client PROVE SafeInv'
<1> USE TaskQueueAssumption
<1>1. AddLast
  BY DEF SafeUse, Client
<1>2. TypeInv'
  BY ClientType DEF SafeInv
<1> DEFINE t == nextId + 1
<1>3. /\ items \in Seq(0..MaxTasks) /\ nextId \in Nat /\ t \in 0..MaxTasks
      /\ items' = Append(items, t) /\ nextId' = t
      /\ UNCHANGED <<pc, sleepDelay, cur, res, newItems, failureCount, cancelled, history>>
  BY <1>1 DEF AddLast, SafeInv, TypeInv, TypeOK
<1>4. ToSet(items') = ToSet(items) \union {t}
  BY <1>3, AppendFacts
<1>5. t \notin 1..nextId /\ 1..t = 1..nextId \union {t}
  BY <1>3
<1>6. Distinct(items')
  BY <1>3, <1>5, AppendDistinct DEF SafeInv
<1>7. items # << >> => GetFirst(items') = GetFirst(items)
  BY <1>3 DEF GetFirst
<1>8. cur # Nil => GetFirst(items') = cur
  BY <1>7 DEF SafeInv, GetFirst
<1>9. items' # << >>
  BY <1>3
<1>10. UNCHANGED Ended
  BY <1>3 DEF history, Ended
<1> HIDE DEF t
<1> QED BY <1>2, <1>3, <1>4, <1>5, <1>6, <1>8, <1>9, <1>10 DEF SafeInv, history

\* The steps that leave the slice, the result and the history alone.
LEMMA SafeWait ==
    ASSUME SafeUse, SafeInv,
           Stop \/ Start \/ EnterWait \/ Poll \/ SleepOver \/ SleepCancelled \/ GetHead
    PROVE  SafeInv'
<1>1. TypeInv'
  BY WaitType DEF SafeInv
<1>2. UNCHANGED <<items, res, nextId, done, merged, taken>>
  BY DEF Stop, Start, EnterWait, Poll, SleepOver, SleepCancelled, GetHead, qstate, history
<1>3. UNCHANGED Ended
  BY <1>2 DEF Ended
<1>4. /\ \/ pc' = pc /\ cur' = cur
         \/ /\ pc' \notin {"apply", "push", "copy", "assign", "crashed"}
            /\ pc \notin {"apply", "push"}
      /\ pc' = "get" => items' # << >>
      /\ pc' \in {"handle", "apply"} => cur' # Nil
      /\ cur' # Nil => GetFirst(items') = cur'
      /\ pc' = "stopped" => cancelled'
  <2>1. CASE Stop BY <2>1, <1>2 DEF Stop, SafeInv
  <2>2. CASE Start BY <2>2, <1>2 DEF Start, SafeInv
  <2>3. CASE EnterWait BY <2>3, <1>2 DEF EnterWait, SafeInv
  <2>4. CASE Poll BY <2>4, <1>2 DEF Poll, SafeInv
  <2>5. CASE SleepOver BY <2>5, <1>2 DEF SleepOver, SafeInv
  <2>6. CASE SleepCancelled BY <2>6, <1>2 DEF SleepCancelled, SafeInv
  <2>7. CASE GetHead
    <3>2. GetFirst(items) # Nil
      BY <2>7, NoUnsetTask DEF GetHead, SafeInv, TypeInv, TypeOK, GetFirst
    <3> QED BY <2>7, <1>2, <3>2 DEF GetHead, SafeInv
  <2> QED BY <2>1, <2>2, <2>3, <2>4, <2>5, <2>6, <2>7
<1> QED BY <1>1, <1>2, <1>3, <1>4 DEF SafeInv

LEMMA SafeHandler ==
    ASSUME SafeUse, SafeInv, (\E k \in 1..MaxTasks : Combine(k)) \/ HandlerReturns
    PROVE  SafeInv'
<1> USE TaskQueueAssumption
<1>0. TypeInv'
  BY HandlerType DEF SafeInv
<1>1. ASSUME NEW k \in 1..MaxTasks, Combine(k) PROVE SafeInv'
  <2> DEFINE g == SubSeq(items, 2, k + 1)
  <2>1. /\ items \in Seq(0..MaxTasks) /\ Distinct(items) /\ k \in Nat /\ k + 1 <= Len(items)
        /\ pc = "handle" /\ items[1] = cur
        /\ items' = <<items[1]>> \o SubSeq(items, k + 2, Len(items))
        /\ merged' = merged \union ToSet(g)
        /\ UNCHANGED <<pc, cur, res, cancelled, nextId, done, taken>>
    BY <1>1 DEF Combine, SafeInv, TypeInv, TypeOK
  <2>2. /\ items' # << >> /\ items'[1] = items[1] /\ Distinct(items')
        /\ ToSet(items) = ToSet(items') \union ToSet(g)
        /\ ToSet(items') \cap ToSet(g) = {}
    BY <2>1, CutFacts
  <2>3. Ended' = Ended \union ToSet(g)
    BY <2>1 DEF Ended
  <2>4. GetFirst(items') = cur
    BY <2>1, <2>2 DEF GetFirst
  <2> HIDE DEF g
  <2> QED BY <1>0, <2>1, <2>2, <2>3, <2>4 DEF SafeInv
<1>2. CASE HandlerReturnsLate \/ HandlerFails \/ HandlerRepeats
  <2>1. /\ UNCHANGED <<items, res, cur, cancelled, nextId, done, merged, taken>>
        /\ pc = "handle" /\ pc' \in {"wait", "stopped"} /\ (pc' = "stopped" => cancelled)
    BY <1>2 DEF HandlerReturnsLate, HandlerFails, HandlerRepeats, qstate, history
  <2>2. UNCHANGED Ended
    BY <2>1 DEF Ended
  <2> QED BY <1>0, <2>1, <2>2 DEF SafeInv
<1>3. ASSUME NEW a \in 0..MaxAfter, NEW l \in 0..MaxTail, NEW h \in 0..MaxHead,
             NEW delay \in BOOLEAN, HandlerSucceeds(a, l, h, delay)
      PROVE  SafeInv'
  <2>1. a = 0
    BY DEF SafeUse
  <2>2. /\ nextId \in Nat /\ nextId' = nextId + l + h /\ pc = "handle" /\ pc' = "apply"
        /\ res' = [after |-> NewTasks(nextId, a), tail |-> NewTasks(nextId + a, l),
                   head |-> NewTasks(nextId + a + l, h), delay |-> delay]
        /\ UNCHANGED <<items, cur, cancelled, done, merged, taken>>
    BY <1>3, <2>1 DEF HandlerSucceeds, SafeInv, TypeInv, TypeOK, history
  <2>3. /\ res'.after = NewTasks(nextId, 0)
        /\ res'.tail = NewTasks(nextId, l) /\ res'.head = NewTasks(nextId + l, h)
    BY <2>1, <2>2
  <2>4. res'.after = << >>
    BY <2>2, <2>3, NewTasksFacts
  <2>a. l \in Nat /\ h \in Nat /\ nextId + l \in Nat
    BY <2>2
  <2>5. /\ Distinct(res'.tail) /\ ToSet(res'.tail) = (nextId + 1)..(nextId + l)
        /\ Distinct(res'.head) /\ ToSet(res'.head) = (nextId + l + 1)..(nextId + l + h)
    BY <2>2, <2>3, <2>a, NewTasksFacts
  <2>b. Len(res'.head) <= MaxHead
    BY <2>3, <2>a DEF NewTasks
  <2>6. /\ (1..nextId) \cap ToSet(res'.tail) = {} /\ (1..nextId) \cap ToSet(res'.head) = {}
        /\ ToSet(res'.tail) \cap ToSet(res'.head) = {}
        /\ (1..nextId) \union ToSet(res'.tail) \union ToSet(res'.head) = 1..nextId'
    BY <2>2, <2>5
  <2>7. UNCHANGED Ended
    BY <2>2 DEF Ended
  <2>8. ToSet(res.tail) = {} /\ ToSet(res.head) = {}
    BY <2>2 DEF SafeInv, ToSet
  <2>9. ToSet(items) \subseteq 1..nextId /\ Ended \subseteq 1..nextId /\ Ended \cap ToSet(items) = {}
        /\ ToSet(items) \union Ended = 1..nextId
    BY <2>8 DEF SafeInv
  <2> QED BY <1>0, <2>2, <2>4, <2>5, <2>b, <2>6, <2>7, <2>9 DEF SafeInv
<1> QED BY <1>1, <1>2, <1>3 DEF HandlerReturns, Success

LEMMA SafeApply == ASSUME SafeUse, SafeInv, Apply PROVE SafeInv'
<1> USE TaskQueueAssumption
<1>0. TypeInv'
  BY ApplyType DEF SafeInv
<1>1. ~AfterMake /\ ~AfterCopy /\ ~AfterAssign
  BY DEF SafeInv, AfterMake, AfterCopy, AfterAssign
<1>2. CASE ApplyTail
  <2> DEFINE t == Head(res.tail)
  <2>1. /\ items \in Seq(0..MaxTasks) /\ res.tail \in Seq(1..MaxTasks) /\ res.tail # << >>
        /\ pc = "apply" /\ items' = Append(items, t)
        /\ res' = [res EXCEPT !.tail = Tail(res.tail)]
        /\ UNCHANGED <<pc, cur, cancelled, nextId, done, merged, taken>>
    BY <1>2 DEF ApplyTail, SafeInv, TypeInv, TypeOK, history
  <2>2. /\ res'.after = res.after /\ res'.tail = Tail(res.tail) /\ res'.head = res.head
    BY <2>1 DEF SafeInv, TypeInv, TypeOK
  <2>3. t = res.tail[1] /\ t \in 1..MaxTasks
    BY <2>1, TailFacts
  <2>4. /\ Distinct(res'.tail) /\ t \notin ToSet(res'.tail)
        /\ ToSet(res.tail) = {t} \union ToSet(res'.tail)
    BY <2>1, <2>2, <2>3, TailDistinct DEF SafeInv
  <2>5. t \notin ToSet(items)
    BY <2>4 DEF SafeInv
  <2>6. t \in 0..MaxTasks
    BY <2>3
  <2>a. Distinct(items)
    BY DEF SafeInv
  <2>b. Distinct(Append(items, t))
    BY <2>1, <2>a, <2>5, <2>6, AppendDistinct
  <2>d. items \in Seq(0..MaxTasks)
    BY <2>1
  <2>c. ToSet(Append(items, t)) = ToSet(items) \union {t} /\ Append(items, t) # << >>
    BY <2>d, <2>6, AppendFacts
  <2> HIDE DEF t
  <2>7. Distinct(items') /\ ToSet(items') = ToSet(items) \union {t} /\ items' # << >>
    BY <2>1, <2>b, <2>c
  <2>e. items # << >> /\ items[1] = cur
    BY <2>1 DEF SafeInv, GetFirst
  <2>f. Append(items, t)[1] = items[1]
    BY <2>d, <2>6, <2>e
  <2>8. GetFirst(items') = cur
    BY <2>1, <2>7, <2>e, <2>f DEF GetFirst
  <2>9. UNCHANGED Ended
    BY <2>1 DEF Ended
  <2> QED BY <1>0, <2>1, <2>2, <2>4, <2>5, <2>7, <2>8, <2>9 DEF SafeInv
<1>3. CASE ApplyRemove
  <2>1. /\ items \in Seq(0..MaxTasks) /\ pc = "apply" /\ res.tail = << >> /\ cur # Nil
        /\ UNCHANGED <<res, cancelled, nextId, merged, taken>>
    BY <1>3 DEF ApplyRemove, SafeInv, TypeInv, TypeOK
  <2>2. items # << >> /\ items[1] = cur
    BY <2>1 DEF SafeInv, GetFirst
  <2>3. ~RemovePanics(items, cur)
    BY NoUnsetTask DEF RemovePanics
  <2>4. /\ items' = Tail(items) /\ done' = done \union {cur} /\ cur' = Nil /\ pc' = "push"
    BY <1>3, <2>1, <2>2, <2>3, RemoveFacts DEF ApplyRemove
  <2>5. /\ Distinct(items') /\ cur \notin ToSet(items')
        /\ ToSet(items) = {cur} \union ToSet(items')
    BY <2>1, <2>2, <2>4, TailDistinct DEF SafeInv
  <2>6. Ended' = Ended \union {cur}
    BY <2>1, <2>4 DEF Ended
  <2> QED BY <1>0, <2>1, <2>4, <2>5, <2>6 DEF SafeInv
<1>4. CASE ApplyHead
  <2> DEFINE t == Head(res.head)
  <2>1. /\ items \in Seq(0..MaxTasks) /\ res.head \in Seq(1..MaxTasks) /\ res.head # << >>
        /\ pc = "push" /\ items' = <<t>> \o items
        /\ res' = [res EXCEPT !.head = Tail(res.head)]
        /\ UNCHANGED <<pc, cur, cancelled, nextId, done, merged, taken>>
    BY <1>4 DEF ApplyHead, SafeInv, TypeInv, TypeOK, history
  <2>2. /\ res'.after = res.after /\ res'.tail = res.tail /\ res'.head = Tail(res.head)
    BY <2>1 DEF SafeInv, TypeInv, TypeOK
  <2>3. t = res.head[1] /\ t \in 1..MaxTasks
    BY <2>1, TailFacts
  <2>4. /\ Distinct(res'.head) /\ t \notin ToSet(res'.head)
        /\ ToSet(res.head) = {t} \union ToSet(res'.head)
    BY <2>1, <2>2, <2>3, TailDistinct DEF SafeInv
  <2>5. t \notin ToSet(items)
    BY <2>4 DEF SafeInv
  <2>6. t \in 0..MaxTasks
    BY <2>3
  <2>9. Len(res'.head) <= MaxHead
    <3>1. Len(Tail(res.head)) = Len(res.head) - 1 /\ Len(res.head) \in Nat
      BY <2>1, TailFacts
    <3>2. Len(res.head) <= MaxHead
      BY DEF SafeInv
    <3> QED BY <2>2, <3>1, <3>2
  <2> HIDE DEF t
  <2>7. Distinct(items') /\ ToSet(items') = ToSet(items) \union {t} /\ items' # << >>
    BY <2>1, <2>5, <2>6, ConsDistinct, ConsFacts DEF SafeInv
  <2>8. UNCHANGED Ended
    BY <2>1 DEF Ended
  <2> QED BY <1>0, <2>1, <2>2, <2>4, <2>5, <2>7, <2>8, <2>9 DEF SafeInv
<1>5. CASE ResultApplied
  <2>1. /\ UNCHANGED <<items, cur, cancelled, nextId, done, merged, taken>>
        /\ pc = "push" /\ pc' = "wait" /\ res.head = << >>
        /\ res'.after = << >> /\ res'.tail = << >> /\ res'.head = << >>
    BY <1>5 DEF ResultApplied, NoResult, qstate, history
  <2>2. UNCHANGED Ended
    BY <2>1 DEF Ended
  <2>3. res.tail = << >> /\ res.head = << >>
    BY <2>1 DEF SafeInv
  <2> QED BY <1>0, <2>1, <2>2, <2>3 DEF SafeInv
<1> QED BY <1>1, <1>2, <1>3, <1>4, <1>5 DEF Apply

LEMMA SafeInit == Init => SafeInv
<1> SUFFICES ASSUME Init PROVE SafeInv
  OBVIOUS
<1>1. TypeInv
  BY InitType
<1>2. /\ res.after = << >> /\ res.tail = << >> /\ res.head = << >> /\ items = << >>
      /\ Ended = {} /\ nextId = 0 /\ pc = "new" /\ cur = Nil
  BY DEF Init, NoResult, Ended
<1>3. Distinct(<< >>) /\ ToSet(<< >>) = {} /\ 1..0 = {} /\ Len(<< >>) <= MaxHead
  BY TaskQueueAssumption DEF Distinct, ToSet
<1> QED BY <1>1, <1>2, <1>3 DEF SafeInv

\* In shell-operator's use of the queue the invariant always holds.
LEMMA SafeAlways == ASSUME SafeUse PROVE Spec => []SafeInv
<1>1. SafeInv /\ [Next]_vars => SafeInv'
  <2> SUFFICES ASSUME SafeInv, [Next]_vars PROVE SafeInv'
    OBVIOUS
  <2>1. CASE UNCHANGED vars
    BY <2>1 DEF vars, SafeInv, TypeInv, TypeOK, Ended
  <2>2. CASE Next
    BY <2>2, SafeClient, SafeWait, SafeHandler, SafeApply DEF Next, Worker
  <2> QED BY <2>1, <2>2
<1> QED BY SafeInit, <1>1, PTL DEF Spec

\* However many goroutines add tasks while the worker applies a result, every
\* task that was added is in the slice, about to be put there, or ended.
THEOREM NothingLostAlways == ASSUME SafeUse PROVE Spec => []NothingLost
<1>1. SafeInv => NothingLost
  BY DEF SafeInv, NothingLost, Undelivered
<1> QED BY <1>1, SafeAlways, PTL

\* No task is in the slice twice, and none comes back after it ended.
THEOREM NothingTwiceAlways == ASSUME SafeUse PROVE Spec => []NothingTwice
<1>1. SafeInv => NothingTwice
  <2> SUFFICES ASSUME SafeInv PROVE NothingTwice
    OBVIOUS
  <2>1. ToSet(res.after) = {}
    BY DEF SafeInv, ToSet
  <2> QED BY <2>1 DEF SafeInv, NothingTwice, Undelivered, Distinct
<1> QED BY <1>1, SafeAlways, PTL

\* A failed task stays at the head: it is the next one handled.
THEOREM HeadBlocksAlways == ASSUME SafeUse PROVE Spec => []HeadBlocks
<1>1. SafeInv => HeadBlocks
  BY DEF SafeInv, HeadBlocks
<1> QED BY <1>1, SafeAlways, PTL

\* The goroutine does not end before the queue is stopped.
THEOREM EndsOnlyWhenCancelledAlways == ASSUME SafeUse PROVE Spec => []EndsOnlyWhenCancelled
<1>1. SafeInv => EndsOnlyWhenCancelled
  BY DEF SafeInv, EndsOnlyWhenCancelled
<1> QED BY <1>1, SafeAlways, PTL

-----------------------------------------------------------------------------
(* TaskQueue, used the way shell-operator uses it, implements              *)
(* SequentialQueue: every step of the goroutines is one step of the        *)
(* abstract queue or none.  The interesting ones are ApplyRemove, the step *)
(* at which a finished task is replaced by its HeadTasks, and the AddLast  *)
(* of another goroutine that falls between the AddFirst calls that follow: *)
(* it is a Submit behind HeadTasks that are not in the slice yet.          *)

Pend == IF pc = "push" THEN Reverse(res.head) \o items ELSE items
Run == IF pc \in {"handle", "apply", "copy", "assign"} THEN cur ELSE Nil
Halted == pc = "stopped"

LEMMA ReverseFacts ==
    ASSUME NEW S, NEW s \in Seq(S)
    PROVE  /\ Reverse(s) \in Seq(S) /\ Len(Reverse(s)) = Len(s)
           /\ ToSet(Reverse(s)) = ToSet(s)
<1> DEFINE r == Reverse(s)
<1>1. /\ r \in Seq(S) /\ Len(r) = Len(s)
      /\ \A i \in 1..Len(s) : r[i] = s[(Len(s) - i) + 1]
  BY DEF Reverse
<1> HIDE DEF r
<1>2. \A i \in DOMAIN r : (Len(s) - i) + 1 \in DOMAIN s /\ r[i] = s[(Len(s) - i) + 1]
  BY <1>1
<1>3. \A i \in DOMAIN s : (Len(s) - i) + 1 \in DOMAIN r /\ s[i] = r[(Len(s) - i) + 1]
  BY <1>1
<1>4. ToSet(r) \subseteq ToSet(s)
  BY <1>2 DEF ToSet
<1>5. ToSet(s) \subseteq ToSet(r)
  BY <1>3 DEF ToSet
<1> QED BY <1>1, <1>4, <1>5 DEF r

LEMMA HeadFacts ==
    ASSUME NEW S, NEW s \in Seq(S), s # << >>
    PROVE  Head(s) \in S /\ Head(s) \in ToSet(s)
<1>1. 1 \in DOMAIN s /\ Head(s) = s[1] /\ s[1] \in S
  OBVIOUS
<1> QED BY <1>1, Zenon DEF ToSet

\* One AddFirst of the HeadTasks moves a task from the result to the slice;
\* the line as a whole does not change.
LEMMA PushFacts ==
    ASSUME NEW S, NEW h \in Seq(S), h # << >>, NEW s \in Seq(S)
    PROVE  Reverse(Tail(h)) \o (<<Head(h)>> \o s) = Reverse(h) \o s
<1> DEFINE r == Reverse(h)
           q == Reverse(Tail(h))
           c == <<Head(h)>> \o s
<1>1. /\ Tail(h) \in Seq(S) /\ Len(Tail(h)) = Len(h) - 1 /\ Len(h) >= 1 /\ Head(h) = h[1]
      /\ \A i \in 1..(Len(h) - 1) : Tail(h)[i] = h[i + 1]
      /\ h[1] \in S
  BY TailFacts
<1>2. r \in Seq(S) /\ Len(r) = Len(h) /\ \A i \in 1..Len(h) : r[i] = h[(Len(h) - i) + 1]
  BY DEF Reverse
<1>3. /\ q \in Seq(S) /\ Len(q) = Len(h) - 1
      /\ \A i \in 1..(Len(h) - 1) : q[i] = h[(Len(h) - i) + 1]
  <2>1. /\ q \in Seq(S) /\ Len(q) = Len(h) - 1
        /\ \A i \in 1..(Len(h) - 1) : q[i] = Tail(h)[((Len(h) - 1) - i) + 1]
    BY <1>1 DEF Reverse
  <2>2. \A i \in 1..(Len(h) - 1) : Tail(h)[((Len(h) - 1) - i) + 1] = h[(Len(h) - i) + 1]
    BY <1>1
  <2> QED BY <2>1, <2>2
<1>4. /\ c \in Seq(S) /\ Len(c) = Len(s) + 1 /\ c[1] = h[1]
      /\ \A i \in 2..(Len(s) + 1) : c[i] = s[i - 1]
  BY <1>1, ConsFacts
<1> HIDE DEF r, q, c
<1>5. /\ q \o c \in Seq(S) /\ Len(q \o c) = Len(h) + Len(s)
      /\ \A i \in 1..(Len(h) + Len(s)) :
            (q \o c)[i] = IF i <= Len(h) - 1 THEN q[i] ELSE c[i - (Len(h) - 1)]
  <2>1. /\ q \o c \in Seq(S) /\ Len(q \o c) = Len(q) + Len(c)
        /\ \A i \in 1..(Len(q) + Len(c)) :
              (q \o c)[i] = IF i <= Len(q) THEN q[i] ELSE c[i - Len(q)]
    BY <1>3, <1>4, ConcatProperties, Zenon
  <2>2. Len(q) + Len(c) = Len(h) + Len(s) /\ Len(h) \in Nat /\ Len(s) \in Nat
    BY <1>3, <1>4
  <2> QED BY <1>3, <2>1, <2>2
<1>6. /\ r \o s \in Seq(S) /\ Len(r \o s) = Len(h) + Len(s)
      /\ \A i \in 1..(Len(h) + Len(s)) :
            (r \o s)[i] = IF i <= Len(h) THEN r[i] ELSE s[i - Len(h)]
  <2>1. /\ r \o s \in Seq(S) /\ Len(r \o s) = Len(r) + Len(s)
        /\ \A i \in 1..(Len(r) + Len(s)) :
              (r \o s)[i] = IF i <= Len(r) THEN r[i] ELSE s[i - Len(r)]
    BY <1>2, ConcatProperties, ZenonT(60)
  <2> QED BY <1>2, <2>1
<1>7. ASSUME NEW i \in 1..(Len(h) + Len(s)) PROVE (q \o c)[i] = (r \o s)[i]
  <2>1. CASE i <= Len(h) - 1 BY <2>1, <1>2, <1>3, <1>5, <1>6, SMTT(40)
  <2>2. CASE i = Len(h) BY <2>2, <1>1, <1>2, <1>4, <1>5, <1>6
  <2>3. CASE i > Len(h) BY <2>3, <1>1, <1>4, <1>5, <1>6
  <2>4. i <= Len(h) - 1 \/ i = Len(h) \/ i > Len(h)
    OBVIOUS
  <2> QED BY <2>1, <2>2, <2>3, <2>4, Zenon
<1>8. q \o c = r \o s
  BY <1>5, <1>6, <1>7, SeqEqual
<1> QED BY <1>8 DEF q, c, r

LEMMA AppendToConcat ==
    ASSUME NEW S, NEW h \in Seq(S), NEW s \in Seq(S), NEW t \in S
    PROVE  h \o Append(s, t) = Append(h \o s, t)
<1> DEFINE a == Append(s, t)
           c == h \o s
           l == h \o a
           r == Append(c, t)
<1>1. /\ a \in Seq(S) /\ Len(a) = Len(s) + 1 /\ a[Len(s) + 1] = t
      /\ \A i \in 1..Len(s) : a[i] = s[i]
  BY AppendFacts
<1>2. /\ c \in Seq(S) /\ Len(c) = Len(h) + Len(s)
      /\ \A i \in 1..(Len(h) + Len(s)) : c[i] = IF i <= Len(h) THEN h[i] ELSE s[i - Len(h)]
  BY ConcatProperties, Zenon
<1> HIDE DEF a, c
<1>3. /\ r \in Seq(S) /\ Len(r) = Len(c) + 1 /\ r[Len(c) + 1] = t
      /\ \A i \in 1..Len(c) : r[i] = c[i]
  <2>1. c \in Seq(S) /\ t \in S
    BY <1>2
  <2> QED BY <2>1, AppendFacts
<1>4. /\ l \in Seq(S) /\ Len(l) = Len(h) + Len(a)
      /\ \A i \in 1..(Len(h) + Len(a)) : l[i] = IF i <= Len(h) THEN h[i] ELSE a[i - Len(h)]
  BY <1>1, ConcatProperties, Zenon
<1> HIDE DEF l, r
<1>5. /\ Len(l) = Len(h) + Len(s) + 1 /\ Len(r) = Len(h) + Len(s) + 1
      /\ Len(h) \in Nat /\ Len(s) \in Nat
  BY <1>1, <1>2, <1>3, <1>4
<1>6. ASSUME NEW i \in 1..Len(l) PROVE l[i] = r[i]
  <2>1. Len(h) \in Nat /\ Len(s) \in Nat
    BY <1>5
  <2>2. CASE i <= Len(h)
    <3>1. i \in 1..Len(c) /\ i \in 1..(Len(h) + Len(s)) /\ i \in 1..(Len(h) + Len(a))
      BY <2>1, <2>2, <1>1, <1>2
    <3>2. l[i] = h[i]
      BY <2>2, <3>1, <1>4
    <3>3. r[i] = h[i]
      BY <2>2, <3>1, <1>2, <1>3
    <3> QED BY <3>2, <3>3
  <2>3. CASE i > Len(h) /\ i <= Len(h) + Len(s)
    <3>1. i - Len(h) \in 1..Len(s) /\ i \in 1..Len(c) /\ i \in 1..(Len(h) + Len(a))
      BY <2>1, <2>3, <1>1, <1>2
    <3>a. ~(i <= Len(h))
      BY <2>1, <2>3
    <3>2. l[i] = s[i - Len(h)]
      <4>1. l[i] = a[i - Len(h)]
        BY <3>1, <3>a, <1>4
      <4>2. a[i - Len(h)] = s[i - Len(h)]
        BY <3>1, <1>1
      <4> QED BY <4>1, <4>2
    <3>3. r[i] = s[i - Len(h)]
      <4>1. r[i] = c[i]
        BY <3>1, <1>3
      <4>2. c[i] = s[i - Len(h)]
        BY <3>1, <3>a, <1>2
      <4> QED BY <4>1, <4>2
    <3> QED BY <3>2, <3>3
  <2>4. CASE i = Len(h) + Len(s) + 1
    BY <2>1, <2>4, <1>1, <1>2, <1>3, <1>4
  <2>5. i <= Len(h) \/ (i > Len(h) /\ i <= Len(h) + Len(s)) \/ i = Len(h) + Len(s) + 1
    BY <1>5
  <2> QED BY <2>2, <2>3, <2>4, <2>5, Zenon
<1>7. l = r
  BY <1>3, <1>4, <1>5, <1>6, SeqEqual
<1> QED BY <1>7 DEF l, r, a, c

\* The abstract line is a sequence of tasks that all exist.
LEMMA PendFacts ==
    ASSUME SafeInv
    PROVE  /\ items \in Seq(0..MaxTasks)
           /\ Reverse(res.head) \in Seq(0..MaxTasks)
           /\ Pend \in Seq(0..MaxTasks)
           /\ ToSet(Pend) \subseteq ToSet(items) \union ToSet(res.head)
<1>1. items \in Seq(0..MaxTasks) /\ res.head \in Seq(0..MaxTasks)
  <2>1. items \in Seq(0..MaxTasks) /\ res.head \in Seq(1..MaxTasks)
    BY DEF SafeInv, TypeInv, TypeOK
  <2>2. 1..MaxTasks \subseteq 0..MaxTasks
    BY TaskQueueAssumption
  <2> QED BY <2>1, <2>2, SeqMonotonic
<1>2. Reverse(res.head) \in Seq(0..MaxTasks) /\ ToSet(Reverse(res.head)) = ToSet(res.head)
  BY <1>1, ReverseFacts
<1>3. /\ Reverse(res.head) \o items \in Seq(0..MaxTasks)
      /\ Range(Reverse(res.head) \o items) = Range(Reverse(res.head)) \union Range(items)
  BY <1>1, <1>2, ConcatProperties, RangeConcatenation, ZenonT(60)
<1>4. ToSet(Reverse(res.head) \o items) = ToSet(Reverse(res.head)) \union ToSet(items)
  BY <1>3, Zenon DEF ToSet, Range
<1> QED BY <1>1, <1>2, <1>3, <1>4 DEF Pend

-----------------------------------------------------------------------------
(* The steps of the goroutines as steps of the abstract queue.             *)

\* A task put behind the slice is put behind the line.
LEMMA SubmitStep ==
    ASSUME SafeInv, NEW t \in 1..MaxTasks, t \notin ToSet(items), t \notin ToSet(res.head),
           items' = Append(items, t), res'.head = res.head, UNCHANGED <<pc, cur>>
    PROVE  Executor!Next
<1>1. t \in 0..MaxTasks
  BY TaskQueueAssumption
<1>2. t \notin ToSet(Pend)
  BY PendFacts
<1>3. Pend' = Append(Pend, t)
  <2>1. CASE pc = "push"
    <3> DEFINE h == Reverse(res.head)
    <3>1. h \in Seq(0..MaxTasks) /\ items \in Seq(0..MaxTasks)
      BY PendFacts
    <3>2. Pend = h \o items /\ Pend' = h \o Append(items, t)
      BY <2>1 DEF Pend
    <3> HIDE DEF h
    <3> QED BY <1>1, <3>1, <3>2, AppendToConcat
  <2>2. CASE pc # "push"
    BY <2>2 DEF Pend
  <2> QED BY <2>1, <2>2
<1>4. Run' = Run /\ Halted' = Halted
  BY DEF Run, Halted
<1>5. Executor!Submit(t)
  BY <1>2, <1>3, <1>4 DEF Executor!Submit, Executor!ToSet, ToSet, Pend, Run, Halted
<1> QED BY <1>5 DEF Executor!Next

LEMMA ClientStep == ASSUME SafeUse, SafeInv, Client PROVE Executor!Next
<1>1. AddLast
  BY DEF SafeUse, Client
<1> DEFINE t == nextId + 1
<1>2. /\ t \in 1..MaxTasks /\ t \notin 1..nextId
      /\ items' = Append(items, t) /\ res'.head = res.head /\ UNCHANGED <<pc, cur>>
  BY <1>1, TaskQueueAssumption DEF AddLast, SafeInv, TypeInv, TypeOK
<1> HIDE DEF t
<1>3. t \notin ToSet(items) /\ t \notin ToSet(res.head)
  BY <1>2 DEF SafeInv
<1> QED BY <1>2, <1>3, SubmitStep

\* Steps nobody sees.
LEMMA InvisibleStep ==
    ASSUME Pend' = Pend, Run' = Run, Halted' = Halted
    PROVE  UNCHANGED Executor!qvars
  BY DEF Executor!qvars, Pend, Run, Halted

\* Steps that end the goroutine.
LEMMA HaltStep ==
    ASSUME pc # "stopped", pc # "push", pc' = "stopped", UNCHANGED items
    PROVE  Executor!Next
<1>1. Pend' = Pend /\ Run' = Nil /\ ~Halted /\ Halted' = TRUE
  BY DEF Pend, Run, Halted
<1>2. Executor!Halt
  BY <1>1 DEF Executor!Halt, Pend, Run, Halted
<1> QED BY <1>2 DEF Executor!Next

LEMMA WaitStep ==
    ASSUME SafeInv, Stop \/ Start \/ EnterWait \/ Poll \/ SleepOver \/ SleepCancelled \/ GetHead
    PROVE  [Executor!Next]_(Executor!qvars)
<1>1. UNCHANGED <<items, res>>
  BY DEF Stop, Start, EnterWait, Poll, SleepOver, SleepCancelled, GetHead, qstate, history
<1>2. CASE Stop
  <2>1. UNCHANGED <<pc, cur>>
    BY <1>2 DEF Stop
  <2> QED BY <1>1, <2>1, InvisibleStep DEF Pend, Run, Halted
<1>3. CASE Start \/ Poll \/ SleepOver \/ EnterWait \/ SleepCancelled
  <2>1. CASE pc' = "stopped"
    BY <1>1, <1>3, <2>1, HaltStep DEF Start, Poll, SleepOver, EnterWait, SleepCancelled
  <2>2. CASE pc' # "stopped"
    <3>1. /\ pc \in {"new", "wait", "poll", "sleep"}
          /\ pc' \in {"wait", "poll", "sleep", "get"}
      BY <1>3, <2>2 DEF Start, Poll, SleepOver, EnterWait, SleepCancelled
    <3> QED BY <1>1, <3>1, InvisibleStep DEF Pend, Run, Halted
  <2> QED BY <2>1, <2>2
<1>4. CASE GetHead
  <2>1. pc = "get" /\ items # << >> /\ items \in Seq(0..MaxTasks)
    BY <1>4 DEF GetHead, SafeInv, TypeInv, TypeOK
  <2>2. GetFirst(items) = Head(items) /\ GetFirst(items) # Nil
    BY <2>1, NoUnsetTask DEF GetFirst
  <2>3. pc' = "handle" /\ cur' = Head(items)
    BY <1>4, <2>2 DEF GetHead
  <2>4. Pend = items /\ Pend' = items /\ Run = Nil /\ Run' = Head(items) /\ ~Halted /\ ~Halted'
    BY <1>1, <2>1, <2>3 DEF Pend, Run, Halted
  <2>5. Executor!Begin
    BY <2>1, <2>4 DEF Executor!Begin, Pend, Run, Halted
  <2> QED BY <2>5 DEF Executor!Next
<1> QED BY <1>2, <1>3, <1>4

LEMMA HandlerStep ==
    ASSUME SafeInv, (\E k \in 1..MaxTasks : Combine(k)) \/ HandlerReturns
    PROVE  [Executor!Next]_(Executor!qvars)
<1>1. ASSUME NEW k \in 1..MaxTasks, Combine(k) PROVE Executor!Next
  <2>1. /\ pc = "handle" /\ k + 1 <= Len(items) /\ items \in Seq(0..MaxTasks)
        /\ items' = <<items[1]>> \o SubSeq(items, k + 2, Len(items))
        /\ UNCHANGED <<pc, cur>> /\ cur # Nil
    BY <1>1 DEF Combine, SafeInv, TypeInv, TypeOK
  <2>2. k \in 1..Len(items) /\ items # << >>
    BY <2>1, TaskQueueAssumption
  <2>3. items[1] = Head(items)
    BY <2>1, <2>2
  <2>4. /\ Pend = items /\ Pend' = <<Head(items)>> \o SubSeq(items, k + 2, Len(items))
        /\ Run = cur /\ Run' = cur /\ Halted' = Halted
    BY <2>1, <2>3 DEF Pend, Run, Halted
  <2>5. Executor!Absorb(k) /\ k \in 1..Len(Pend)
    BY <2>1, <2>2, <2>4 DEF Executor!Absorb, Executor!WithoutBehind, Pend, Run, Halted
  <2> QED BY <2>5 DEF Executor!Next, Pend
<1>2. CASE HandlerReturnsLate
  BY <1>2, HaltStep DEF HandlerReturnsLate, qstate
<1>3. CASE HandlerFails \/ HandlerRepeats
  <2>1. pc = "handle" /\ pc' = "wait" /\ UNCHANGED items /\ cur # Nil
    BY <1>3 DEF HandlerFails, HandlerRepeats, qstate, SafeInv
  <2>2. Pend = items /\ Pend' = items /\ Run # Nil /\ Run' = Nil /\ Halted' = Halted
    BY <2>1 DEF Pend, Run, Halted
  <2>3. Executor!Retry
    BY <2>2 DEF Executor!Retry, Pend, Run, Halted
  <2> QED BY <2>3 DEF Executor!Next
<1>4. CASE Success
  <2>1. pc = "handle" /\ pc' = "apply" /\ UNCHANGED <<items, cur>>
    BY <1>4 DEF Success, HandlerSucceeds
  <2> QED BY <2>1, InvisibleStep DEF Pend, Run, Halted
<1> QED BY <1>1, <1>2, <1>3, <1>4 DEF HandlerReturns

LEMMA BoundedReverse ==
    ASSUME NEW h \in Seq(1..MaxTasks), Len(h) <= MaxHead
    PROVE  Reverse(h) \in Executor!BoundedSeq(1..MaxTasks, MaxHead)
<1> DEFINE r == Reverse(h)
           n == Len(h)
<1>2. r \in [1..n -> 1..MaxTasks]
  <2>1. \A i \in 1..Len(h) : (Len(h) - i) + 1 \in 1..Len(h)
    OBVIOUS
  <2>2. \A j \in 1..Len(h) : h[j] \in 1..MaxTasks
    BY ElementOfSeq
  <2>3. \A i \in 1..Len(h) : h[(Len(h) - i) + 1] \in 1..MaxTasks
    BY <2>1, <2>2, Zenon
  <2> QED BY <2>3, Zenon DEF Reverse
<1> HIDE DEF r
<1>3. n \in 0..MaxHead
  BY TaskQueueAssumption
<1> HIDE DEF n
<1>4. r \in UNION {[1..m -> 1..MaxTasks] : m \in 0..MaxHead}
  BY <1>2, <1>3
<1> QED BY <1>4 DEF Executor!BoundedSeq, Executor!SeqOf, r

LEMMA ApplyStep ==
    ASSUME SafeInv, Apply
    PROVE  [Executor!Next]_(Executor!qvars)
<1>1. ~AfterMake /\ ~AfterCopy /\ ~AfterAssign
  BY DEF SafeInv, AfterMake, AfterCopy, AfterAssign
<1>2. /\ items \in Seq(0..MaxTasks) /\ res.tail \in Seq(1..MaxTasks)
      /\ res.head \in Seq(1..MaxTasks) /\ Len(res.head) <= MaxHead
  BY DEF SafeInv, TypeInv, TypeOK
<1>3. CASE ApplyTail
  <2> DEFINE t == Head(res.tail)
  <2>1. res.tail # << >> /\ items' = Append(items, t) /\ UNCHANGED <<pc, cur>>
    BY <1>3 DEF ApplyTail
  <2>2. res'.head = res.head
    BY <1>3 DEF ApplyTail, SafeInv, TypeInv, TypeOK
  <2>3. t \in 1..MaxTasks /\ t \in ToSet(res.tail)
    BY <1>2, <2>1, HeadFacts
  <2> HIDE DEF t
  <2>4. t \notin ToSet(items) /\ t \notin ToSet(res.head)
    BY <2>3 DEF SafeInv
  <2> QED BY <2>1, <2>2, <2>3, <2>4, SubmitStep
<1>4. CASE ApplyRemove
  <2>1. pc = "apply" /\ cur # Nil /\ GetFirst(items) = cur
    BY <1>4 DEF ApplyRemove, SafeInv
  <2>2. items # << >> /\ items[1] = cur
    BY <2>1 DEF GetFirst
  <2>3. ~RemovePanics(items, cur)
    BY NoUnsetTask DEF RemovePanics
  <2>4. items' = RemoveFirst(items, cur) /\ cur' = Nil /\ pc' = "push" /\ UNCHANGED res
    BY <1>4, <2>3 DEF ApplyRemove
  <2>5. items' = Tail(items)
    BY <1>2, <2>2, <2>4, RemoveFacts
  <2>6. /\ Pend = items /\ Pend' = Reverse(res.head) \o Tail(items)
        /\ Run = cur /\ Run' = Nil /\ Halted' = Halted
    BY <2>1, <2>4, <2>5 DEF Pend, Run, Halted
  <2>7. Executor!Finish(Reverse(res.head))
    BY <2>1, <2>6 DEF Executor!Finish, Pend, Run, Halted
  <2>8. Reverse(res.head) \in Executor!BoundedSeq(1..MaxTasks, MaxHead)
    BY <1>2, BoundedReverse
  <2> QED BY <2>7, <2>8 DEF Executor!Next
<1>5. CASE ApplyHead
  <2>1. /\ pc = "push" /\ pc' = "push" /\ res.head # << >> /\ UNCHANGED cur
        /\ items' = <<Head(res.head)>> \o items
    BY <1>5 DEF ApplyHead
  <2>2. res'.head = Tail(res.head)
    BY <1>5 DEF ApplyHead, SafeInv, TypeInv, TypeOK
  <2>3. Reverse(Tail(res.head)) \o (<<Head(res.head)>> \o items) = Reverse(res.head) \o items
    <3>1. 1..MaxTasks \subseteq 0..MaxTasks
      BY TaskQueueAssumption
    <3>2. res.head \in Seq(0..MaxTasks)
      BY <1>2, <3>1, SeqMonotonic
    <3> QED BY <1>2, <2>1, <3>2, PushFacts
  <2>4. Pend' = Pend /\ Run' = Run /\ Halted' = Halted
    BY <2>1, <2>2, <2>3 DEF Pend, Run, Halted
  <2> QED BY <2>4, InvisibleStep
<1>6. CASE ResultApplied
  <2>1. /\ pc = "push" /\ pc' = "wait" /\ res.head = << >> /\ UNCHANGED <<items, cur>>
    BY <1>6 DEF ResultApplied, qstate
  <2>2. Reverse(<< >>) \o items = items
    <3>1. Reverse(<< >>) = << >>
      BY DEF Reverse
    <3> QED BY <1>2, <3>1, ConcatSimplifications
  <2>3. Pend' = Pend /\ Run' = Run /\ Halted' = Halted
    BY <2>1, <2>2 DEF Pend, Run, Halted
  <2> QED BY <2>3, InvisibleStep
<1> QED BY <1>1, <1>3, <1>4, <1>5, <1>6 DEF Apply

\* A task queue to which other goroutines only add tasks with AddLast, and
\* whose handler returns no AfterTasks, is the sequential executor that the
\* rest of shell-operator takes it for: Start, waitForTask, the locks and the
\* step by step application of a TaskResult cannot be told from atomic steps.
THEOREM Implements == ASSUME SafeUse PROVE Spec => ImplementsSequentialQueue
<1>1. Init => Executor!Init
  <2> SUFFICES ASSUME Init PROVE Executor!Init
    OBVIOUS
  <2>1. items = << >> /\ pc = "new"
    BY DEF Init
  <2> QED BY <2>1 DEF Executor!Init
<1>2. SafeInv /\ [Next]_vars => [Executor!Next]_(Executor!qvars)
  <2> SUFFICES ASSUME SafeInv, [Next]_vars PROVE [Executor!Next]_(Executor!qvars)
    OBVIOUS
  <2>1. CASE UNCHANGED vars
    <3>1. UNCHANGED <<items, pc, cur, res>>
      BY <2>1 DEF vars
    <3> QED BY <3>1, InvisibleStep DEF Pend, Run, Halted
  <2>2. CASE Next
    BY <2>2, ClientStep, WaitStep, HandlerStep, ApplyStep DEF Next, Worker
  <2> QED BY <2>1, <2>2
<1> QED BY <1>1, <1>2, SafeAlways, PTL DEF Spec, ImplementsSequentialQueue
==============================================================================
