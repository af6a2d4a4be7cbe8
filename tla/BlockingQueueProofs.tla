------------------------ MODULE BlockingQueueProofs ------------------------
(***************************************************************************)
(* Theorems about BlockingQueue for every set of threads, every capacity   *)
(* and every bound on pushes.                                              *)
(***************************************************************************)
EXTENDS BlockingQueue, FiniteSetTheorems, SequenceTheorems, TLAPS

\* What push leaves in the buffer: one item more, or as many as before with
\* the oldest replaced.
LEMMA PushedItems ==
  ASSUME NEW s \in Seq(Nat), NEW x \in Nat, NEW full \in BOOLEAN,
         full => s # <<>>
  PROVE  LET r == Append(IF full THEN Tail(s) ELSE s, x) IN
           /\ r \in Seq(Nat)
           /\ Len(r) = IF full THEN Len(s) ELSE Len(s) + 1
           /\ \A i \in 1 .. Len(r) :
                r[i] = IF i = Len(r) THEN x ELSE IF full THEN s[i + 1] ELSE s[i]
<1> DEFINE b == IF full THEN Tail(s) ELSE s
           r == Append(b, x)
<1>1. /\ b \in Seq(Nat)
      /\ Len(b) = IF full THEN Len(s) - 1 ELSE Len(s)
      /\ \A i \in 1 .. Len(b) : b[i] = IF full THEN s[i + 1] ELSE s[i]
  BY HeadTailProperties, LenProperties
<1>2. /\ r \in Seq(Nat)
      /\ Len(r) = Len(b) + 1
      /\ \A i \in 1 .. Len(r) : r[i] = IF i = Len(r) THEN x ELSE b[i]
  <2> HIDE DEF b
  <2> QED BY <1>1
<1>3. Len(s) \in Nat /\ (full => Len(s) > 0)
  BY EmptySeq
<1> HIDE DEF b, r
<1>4. QED
  BY <1>1, <1>2, <1>3 DEF r, b

\* What remains after the front item was moved out.
LEMMA TakenItems ==
  ASSUME NEW s \in Seq(Nat), s # <<>>
  PROVE  /\ Head(s) = s[1]
         /\ Head(s) \in Nat
         /\ Tail(s) \in Seq(Nat)
         /\ Len(s) \in Nat \ {0}
         /\ Len(Tail(s)) = Len(s) - 1
         /\ \A i \in 1 .. Len(Tail(s)) : Tail(s)[i] = s[i + 1]
BY HeadTailProperties, EmptySeq

\* Capacity is positive, so a full queue has an item to evict.
LEMMA FullNotEmpty ==
  ASSUME NEW s \in Seq(Nat), Len(s) >= Capacity
  PROVE  s # <<>>
BY QueueAssumption, EmptySeq

LEMMA UnparkType ==
  ASSUME NEW p \in PcState
  PROVE  /\ Unpark(p) \in PcState
         /\ p \in Parked => Unpark(p) \in Woken
         /\ p \notin Parked => Unpark(p) = p
         /\ Unpark(p) \notin Parked
BY DEF PcState, Parked, Woken, Unpark

-----------------------------------------------------------------------------

\* Every step keeps the members and the positions in their types.
LEMMA TypeCorrectStep == TypeOK /\ [Next]_vars => TypeOK'
<1> SUFFICES ASSUME TypeOK, [Next]_vars PROVE TypeOK'
  OBVIOUS
<1> USE DEF TypeOK, Goto
<1>1. ASSUME NEW t \in Threads, Push(t) PROVE TypeOK'
  <2> DEFINE full == Len(items) >= Capacity
  <2>1. items' = Append(IF full THEN Tail(items) ELSE items, pushed + 1)
    BY <1>1 DEF Push
  <2>2. items' \in Seq(Nat)
    BY <2>1, PushedItems, FullNotEmpty
  <2>3. QED
    BY <1>1, <2>2 DEF Push, PcState
<1>2. ASSUME NEW t \in Threads, NotifyOne(t) PROVE TypeOK'
  <2>1. CASE Waiters = {} /\ Goto(t, "idle")
    BY <2>1, <1>2 DEF NotifyOne, PcState
  <2>2. ASSUME NEW w \in Waiters,
               pc' = [pc EXCEPT ![t] = "idle", ![w] = Unpark(pc[w])]
        PROVE  TypeOK'
    <3>1. w \in Threads /\ Unpark(pc[w]) \in PcState /\ "idle" \in PcState
      BY UnparkType DEF Waiters, PcState
    <3>2. pc' \in [Threads -> PcState]
      BY <2>2, <3>1
    <3>3. QED
      BY <1>2, <3>2 DEF NotifyOne
  <2>3. QED
    BY <1>2, <2>1, <2>2 DEF NotifyOne
<1>3. ASSUME NEW t \in Threads, Close(t) PROVE TypeOK'
  BY <1>3 DEF Close, PcState
<1>4. ASSUME NEW t \in Threads, NotifyAll(t) PROVE TypeOK'
  BY <1>4, UnparkType DEF NotifyAll, PcState
<1>5. ASSUME NEW t \in Threads, Take(t) PROVE TypeOK'
  BY <1>5, TakenItems DEF Take, PcState
<1>6. ASSUME NEW t \in Threads, Block(t) PROVE TypeOK'
  BY <1>6 DEF Block, PcState
<1>7. ASSUME NEW t \in Threads, SpuriousWake(t) PROVE TypeOK'
  BY <1>7, UnparkType DEF SpuriousWake, PcState
<1>8. ASSUME NEW t \in Threads, Expire(t) PROVE TypeOK'
  BY <1>8 DEF Expire, PcState, Woken
<1>9. ASSUME NEW t \in Threads, WaitAgain(t) PROVE TypeOK'
  BY <1>9 DEF WaitAgain, PcState, Parked
<1>10. ASSUME NEW t \in Threads, GiveUp(t) PROVE TypeOK'
  BY <1>10 DEF GiveUp, PcState
<1>11. CASE UNCHANGED vars
  BY <1>11 DEF vars
<1>12. QED
  BY <1>1, <1>2, <1>3, <1>4, <1>5, <1>6, <1>7, <1>8, <1>9, <1>10, <1>11
     DEF Next, Resume, Pop, Retake

\* Type correctness of the queue's members and of every thread's position.
THEOREM TypeCorrect == Spec => []TypeOK
<1>1. Init => TypeOK
  <2> SUFFICES ASSUME Init PROVE TypeOK
    OBVIOUS
  <2>1. pc \in [Threads -> PcState]
    BY DEF Init, PcState
  <2>2. out \in [Threads -> Nat]
    BY DEF Init
  <2>3. items \in Seq(Nat) /\ dropped \in Nat /\ pushed \in Nat /\ popped \in Nat
    BY DEF Init
  <2>4. QED
    BY <2>1, <2>2, <2>3 DEF Init, TypeOK
<1>2. QED
  BY <1>1, TypeCorrectStep, PTL DEF Spec

\* The queue holds exactly the newest items, in order, within capacity_, and
\* every accepted item is in the queue, popped, or counted in dropped_.
THEOREM AccountingHolds == Spec => []Accounting
<1>1. Init => Accounting
  <2> SUFFICES ASSUME Init PROVE Accounting
    OBVIOUS
  <2>1. Len(items) = 0 /\ popped = 0 /\ dropped = 0 /\ pushed = 0
    BY DEF Init
  <2>2. QED
    BY <2>1, QueueAssumption DEF Accounting
<1>2. TypeOK /\ Accounting /\ [Next]_vars => Accounting'
  <2> SUFFICES ASSUME TypeOK, Accounting, [Next]_vars PROVE Accounting'
    OBVIOUS
  <2> USE DEF TypeOK, Accounting
  <2>1. ASSUME NEW t \in Threads, Push(t) PROVE Accounting'
    <3> DEFINE full == Len(items) >= Capacity
    <3>1. /\ Len(items) \in Nat /\ Capacity \in Nat /\ Capacity > 0
          /\ full \in BOOLEAN
          /\ full => items # <<>>
      BY QueueAssumption, FullNotEmpty
    <3>2. /\ items' = Append(IF full THEN Tail(items) ELSE items, pushed + 1)
          /\ dropped' = IF full THEN dropped + 1 ELSE dropped
          /\ pushed' = pushed + 1
          /\ popped' = popped
      BY <2>1 DEF Push
    <3>3. /\ Len(items') = IF full THEN Len(items) ELSE Len(items) + 1
          /\ \A i \in 1 .. Len(items') :
               items'[i] = IF i = Len(items') THEN pushed + 1
                           ELSE IF full THEN items[i + 1] ELSE items[i]
      BY <3>1, <3>2, PushedItems, SMTT(30)
    <3>4. Len(items') <= Capacity
      BY <3>1, <3>3
    <3>5. pushed' = popped' + dropped' + Len(items')
      <4>1. CASE full
        <5>1. /\ dropped' = dropped + 1 /\ Len(items') = Len(items)
              /\ pushed' = pushed + 1 /\ popped' = popped
          BY <3>2, <3>3, <4>1
        <5>2. /\ pushed = popped + dropped + Len(items)
              /\ Len(items) \in Nat /\ popped \in Nat /\ dropped \in Nat
          BY <3>1
        <5> HIDE DEF TypeOK, Accounting
        <5>3. QED
          BY <5>1, <5>2
      <4>2. CASE ~full
        BY <3>1, <3>2, <3>3, <4>2
      <4>3. QED
        BY <4>1, <4>2
    <3>6. ASSUME NEW i \in 1 .. Len(items')
          PROVE  items'[i] = popped' + dropped' + i
      <4>1. CASE i = Len(items')
        BY <3>1, <3>2, <3>3, <4>1
      <4>2. CASE i # Len(items') /\ full
        <5>1. i + 1 \in 1 .. Len(items) /\ items'[i] = items[i + 1]
          BY <3>1, <3>3, <4>2
        <5>2. items[i + 1] = popped + dropped + (i + 1)
          BY <5>1
        <5>3. popped' = popped /\ dropped' = dropped + 1
          BY <3>2, <4>2
        <5>4. QED
          BY <5>1, <5>2, <5>3
      <4>3. CASE i # Len(items') /\ ~full
        BY <3>1, <3>2, <3>3, <4>3
      <4>4. QED
        BY <4>1, <4>2, <4>3
    <3>7. QED
      BY <3>4, <3>5, <3>6
  <2>2. ASSUME NEW t \in Threads, Take(t) PROVE Accounting'
    <3>1. /\ items' = Tail(items) /\ items # <<>>
          /\ popped' = popped + 1
          /\ dropped' = dropped /\ pushed' = pushed
      BY <2>2 DEF Take
    <3>2. /\ Len(items) \in Nat \ {0}
          /\ Len(items') = Len(items) - 1
          /\ \A i \in 1 .. Len(items') : items'[i] = items[i + 1]
      BY <3>1, TakenItems
    <3>3. QED
      BY <3>1, <3>2, QueueAssumption
  <2>3. ASSUME UNCHANGED <<items, dropped, pushed, popped>> PROVE Accounting'
    BY <2>3
  <2>4. QED
    BY <2>1, <2>2, <2>3
       DEF Next, Resume, Pop, Retake, NotifyOne, Close, NotifyAll, Block,
           SpuriousWake, Expire, WaitAgain, GiveUp, vars
<1>3. QED
  BY <1>1, <1>2, TypeCorrect, PTL DEF Spec

\* No item reaches two pops: a pop takes number popped + dropped + 1, beyond
\* every number handed out before.
THEOREM NoDoubleDeliveryHolds == Spec => []NoDoubleDelivery
<1>1. Init => NoDoubleDelivery
  BY DEF Init, NoDoubleDelivery
<1>2. TypeOK /\ Accounting /\ NoDoubleDelivery /\ [Next]_vars => NoDoubleDelivery'
  <2> SUFFICES ASSUME TypeOK, Accounting, NoDoubleDelivery, [Next]_vars
               PROVE  NoDoubleDelivery'
    OBVIOUS
  <2>1. ASSUME NEW t \in Threads, Take(t) PROVE NoDoubleDelivery'
    <3>1. /\ items # <<>> /\ out' = [out EXCEPT ![t] = Head(items)]
          /\ popped' = popped + 1 /\ dropped' = dropped
      BY <2>1 DEF Take
    <3>2. Head(items) = popped + dropped + 1
      <4>1. Head(items) = items[1] /\ 1 \in 1 .. Len(items)
        BY <3>1, TakenItems DEF TypeOK
      <4>2. QED
        BY <4>1 DEF TypeOK, Accounting
    <3>3. QED
      BY <3>1, <3>2 DEF TypeOK, NoDoubleDelivery
  <2>2. ASSUME NEW t \in Threads, Push(t) PROVE NoDoubleDelivery'
    <3>1. out' = out /\ popped' = popped /\ dropped' \in {dropped, dropped + 1}
      BY <2>2 DEF Push
    <3>2. QED
      BY <3>1 DEF TypeOK, NoDoubleDelivery
  <2>3. ASSUME UNCHANGED <<dropped, popped, out>> PROVE NoDoubleDelivery'
    BY <2>3 DEF NoDoubleDelivery
  <2>4. QED
    BY <2>1, <2>2, <2>3
       DEF Next, Resume, Pop, Retake, NotifyOne, Close, NotifyAll, Block,
           SpuriousWake, Expire, WaitAgain, GiveUp, vars
<1>3. QED
  BY <1>1, <1>2, TypeCorrect, AccountingHolds, PTL DEF Spec

-----------------------------------------------------------------------------

\* The sets the wakeup budget counts are finite.
LEMMA CountedSets ==
  /\ IsFiniteSet(Awake) /\ Cardinality(Awake) \in Nat
  /\ IsFiniteSet(Notifiers) /\ Cardinality(Notifiers) \in Nat
<1>1. Awake \subseteq Threads /\ Notifiers \subseteq Threads
  BY DEF Awake, Notifiers
<1>2. QED
  BY <1>1, QueueAssumption, FS_Subset, FS_CardinalityType

\* While a thread is parked, every queued item has a thread under way to it.
THEOREM WakeupBudgetHolds == Spec => []WakeupBudget
<1>1. Init => WakeupBudget
  BY DEF Init, WakeupBudget, Waiters, Parked
<1>2. TypeOK /\ WakeupBudget /\ [Next]_vars => WakeupBudget'
  <2> SUFFICES ASSUME TypeOK, WakeupBudget, [Next]_vars PROVE WakeupBudget'
    OBVIOUS
  <2>0. /\ Len(items) \in Nat
        /\ IsFiniteSet(Awake) /\ Cardinality(Awake) \in Nat
        /\ IsFiniteSet(Notifiers) /\ Cardinality(Notifiers) \in Nat
    BY CountedSets DEF TypeOK
  <2>1. ASSUME NEW t \in Threads, Push(t) PROVE WakeupBudget'
    <3>1. Waiters' = Waiters /\ Awake' = Awake
          /\ Notifiers' = Notifiers \cup {t} /\ t \notin Notifiers
      BY <2>1 DEF Push, Goto, TypeOK, Waiters, Awake, Notifiers, Parked, Woken
    <3>2. Len(items') <= Len(items) + 1
      <4> DEFINE full == Len(items) >= Capacity
      <4>1. items' = Append(IF full THEN Tail(items) ELSE items, pushed + 1)
        BY <2>1 DEF Push
      <4>2. full => items # <<>>
        BY FullNotEmpty DEF TypeOK
      <4>3. Len(items') = IF full THEN Len(items) ELSE Len(items) + 1
        BY <4>1, <4>2, PushedItems DEF TypeOK
      <4>4. QED
        BY <2>0, <4>3
    <3>3. Cardinality(Notifiers') = Cardinality(Notifiers) + 1
      BY <2>0, <3>1, FS_AddElement
    <3>4. Len(items') \in Nat
      BY TypeCorrectStep DEF TypeOK
    <3>5. QED
      BY <2>0, <3>1, <3>2, <3>3, <3>4 DEF WakeupBudget
  <2>2. ASSUME NEW t \in Threads, NotifyOne(t) PROVE WakeupBudget'
    <3>1. CASE Waiters = {} /\ Goto(t, "idle")
      <4>1. Waiters' = {}
        BY <3>1 DEF Goto, TypeOK, Waiters, Parked
      <4>2. QED
        BY <4>1 DEF WakeupBudget
    <3>2. ASSUME NEW w \in Waiters,
                 pc' = [pc EXCEPT ![t] = "idle", ![w] = Unpark(pc[w])]
          PROVE  WakeupBudget'
      <4>1. w \in Threads /\ w # t /\ Unpark(pc[w]) \in Woken
        BY <2>2, UnparkType DEF NotifyOne, Waiters, Parked, TypeOK
      <4>2. /\ w \notin Awake /\ Awake' = Awake \cup {w}
            /\ t \in Notifiers /\ Notifiers' = Notifiers \ {t}
        BY <2>2, <3>2, <4>1
           DEF NotifyOne, TypeOK, Waiters, Awake, Notifiers, Parked, Woken
      <4>3. /\ Cardinality(Awake') = Cardinality(Awake) + 1
            /\ Cardinality(Notifiers') = Cardinality(Notifiers) - 1
        BY <2>0, <4>2, FS_AddElement, FS_RemoveElement
      <4>4. items' = items
        BY <2>2 DEF NotifyOne
      <4>5. QED
        BY <2>0, <4>3, <4>4 DEF WakeupBudget
    <3>3. QED
      BY <2>2, <3>1, <3>2 DEF NotifyOne
  <2>3. ASSUME NEW t \in Threads, Close(t) PROVE WakeupBudget'
    <3>1. Waiters' = Waiters /\ Awake' = Awake /\ Notifiers' = Notifiers
      BY <2>3 DEF Close, Goto, TypeOK, Waiters, Awake, Notifiers, Parked, Woken
    <3>2. QED
      BY <2>3, <3>1 DEF Close, WakeupBudget
  <2>4. ASSUME NEW t \in Threads, NotifyAll(t) PROVE WakeupBudget'
    <3>1. Waiters' = {}
      BY <2>4, UnparkType DEF NotifyAll, TypeOK, Waiters, Parked
    <3>2. QED
      BY <3>1 DEF WakeupBudget
  <2>5. ASSUME NEW t \in Threads, Take(t), pc[t] = "idle" \/ pc[t] \in Woken
        PROVE  WakeupBudget'
    <3>1. /\ Len(items') = Len(items) - 1 /\ Len(items) > 0
      BY <2>5, TakenItems DEF Take, TypeOK
    <3>2. /\ Waiters' = Waiters /\ Notifiers' = Notifiers
          /\ Awake' = Awake \ {t}
      BY <2>5 DEF Take, Goto, TypeOK, Waiters, Awake, Notifiers, Parked, Woken
    <3>3. /\ Cardinality(Awake') \in Nat
          /\ Cardinality(Awake') >= Cardinality(Awake) - 1
      <4>1. CASE t \in Awake
        <5>1. /\ Cardinality(Awake') = Cardinality(Awake) - 1
              /\ Cardinality(Awake') \in Nat
          BY <2>0, <3>2, <4>1, FS_RemoveElement, FS_CardinalityType
        <5>2. QED
          BY <2>0, <5>1
      <4>2. CASE t \notin Awake
        <5>1. Awake' = Awake
          BY <3>2, <4>2
        <5>2. QED
          BY <2>0, <5>1
      <4>3. QED
        BY <4>1, <4>2
    <3>4. QED
      BY <2>0, <3>1, <3>2, <3>3 DEF WakeupBudget
  <2>6. ASSUME items = <<>>, items' = items PROVE WakeupBudget'
    <3>1. Len(items') = 0
      BY <2>6
    <3>2. Cardinality(Awake') \in Nat /\ Cardinality(Notifiers') \in Nat
      <4>1. Awake' \subseteq Threads /\ Notifiers' \subseteq Threads
        BY DEF Awake, Notifiers
      <4>2. QED
        BY <4>1, QueueAssumption, FS_Subset, FS_CardinalityType
    <3>3. QED
      BY <3>1, <3>2 DEF WakeupBudget
  <2>7. ASSUME NEW t \in Threads, SpuriousWake(t) \/ Expire(t)
        PROVE  WakeupBudget'
    <3>1. /\ pc[t] \in Parked \cup Woken
          /\ \E p \in Woken : Goto(t, p)
          /\ items' = items
      BY <2>7, UnparkType
         DEF SpuriousWake, Expire, Parked, Woken, PcState
    <3>2. /\ Waiters' \subseteq Waiters /\ Notifiers' = Notifiers
          /\ Awake' = Awake \cup {t}
      BY <3>1 DEF Goto, TypeOK, Waiters, Awake, Notifiers, Parked, Woken
    <3>3. /\ Cardinality(Awake') \in Nat
          /\ Cardinality(Awake') >= Cardinality(Awake)
      <4>1. CASE t \in Awake
        <5>1. Awake' = Awake
          BY <3>2, <4>1
        <5>2. QED
          BY <2>0, <5>1
      <4>2. CASE t \notin Awake
        <5>1. Cardinality(Awake') = Cardinality(Awake) + 1
          BY <2>0, <3>2, <4>2, FS_AddElement
        <5>2. QED
          BY <2>0, <5>1
      <4>3. QED
        BY <4>1, <4>2
    <3>4. QED
      BY <2>0, <3>1, <3>2, <3>3 DEF WakeupBudget
  <2>8. CASE UNCHANGED vars
    BY <2>8 DEF vars, WakeupBudget, Waiters, Awake, Notifiers
  <2>9. QED
    BY <2>1, <2>2, <2>3, <2>4, <2>5, <2>6, <2>7, <2>8
       DEF Next, Resume, Pop, Retake, Block, WaitAgain, GiveUp
<1>3. QED
  BY <1>1, <1>2, TypeCorrect, PTL DEF Spec

\* A parked thread and an item never coexist with nobody under way: the
\* budget bounds the items by zero.
THEOREM NoLostWakeupHolds == Spec => []NoLostWakeup
<1>1. TypeOK /\ WakeupBudget => NoLostWakeup
  <2> SUFFICES ASSUME TypeOK, WakeupBudget,
                      Awake = {}, Notifiers = {}, Waiters # {}
               PROVE  items = <<>>
    BY DEF NoLostWakeup
  <2>1. Cardinality(Awake) = 0 /\ Cardinality(Notifiers) = 0
    BY FS_EmptySet
  <2>2. Len(items) = 0
    BY <2>1 DEF TypeOK, WakeupBudget
  <2>3. QED
    BY <2>2, EmptySeq DEF TypeOK
<1>2. QED
  BY <1>1, TypeCorrect, WakeupBudgetHolds, PTL

\* While the queue is closed and a thread is parked, some close() is still to
\* run its notify_all.
THEOREM CloseReachesWaitersHolds == Spec => []CloseReachesWaiters
<1>1. Init => CloseReachesWaiters
  BY DEF Init, CloseReachesWaiters
<1>2. TypeOK /\ CloseReachesWaiters /\ [Next]_vars => CloseReachesWaiters'
  <2> SUFFICES ASSUME TypeOK, CloseReachesWaiters, [Next]_vars
               PROVE  CloseReachesWaiters'
    OBVIOUS
  \* A step that leaves closed_ alone, parks nobody and is not of a thread in
  \* notify_all keeps the pending notify_all.
  <2>1. ASSUME closed' = closed, Waiters' \subseteq Waiters,
               \A u \in Threads : pc[u] = "notifyAll" => pc'[u] = "notifyAll"
        PROVE  CloseReachesWaiters'
    BY <2>1 DEF CloseReachesWaiters
  <2>2. ASSUME NEW t \in Threads, Push(t) \/ Pop(t) \/ Retake(t)
        PROVE  CloseReachesWaiters'
    BY <2>1, <2>2
       DEF Push, Pop, Retake, Take, Goto, TypeOK, Waiters, Parked, Woken
  <2>3. ASSUME NEW t \in Threads, NotifyOne(t) PROVE CloseReachesWaiters'
    <3>1. CASE Waiters = {} /\ Goto(t, "idle")
      BY <2>1, <2>3, <3>1 DEF NotifyOne, Goto, TypeOK, Waiters, Parked
    <3>2. ASSUME NEW w \in Waiters,
                 pc' = [pc EXCEPT ![t] = "idle", ![w] = Unpark(pc[w])]
          PROVE  CloseReachesWaiters'
      <4>1. w \in Threads /\ w # t /\ Unpark(pc[w]) \in Woken
        BY <2>3, UnparkType DEF NotifyOne, Waiters, Parked, TypeOK
      <4>2. QED
        BY <2>1, <2>3, <3>2, <4>1
           DEF NotifyOne, TypeOK, Waiters, Parked, Woken
    <3>3. QED
      BY <2>3, <3>1, <3>2 DEF NotifyOne
  <2>4. ASSUME NEW t \in Threads, Close(t) PROVE CloseReachesWaiters'
    <3>1. pc'[t] = "notifyAll"
      BY <2>4 DEF Close, Goto, TypeOK
    <3>2. QED
      BY <3>1 DEF CloseReachesWaiters
  <2>5. ASSUME NEW t \in Threads, NotifyAll(t) PROVE CloseReachesWaiters'
    <3>1. Waiters' = {}
      BY <2>5, UnparkType DEF NotifyAll, TypeOK, Waiters, Parked
    <3>2. QED
      BY <3>1 DEF CloseReachesWaiters
  <2>6. ASSUME NEW t \in Threads, Block(t) \/ WaitAgain(t)
        PROVE  CloseReachesWaiters'
    BY <2>6 DEF Block, WaitAgain, CloseReachesWaiters
  <2>7. ASSUME NEW t \in Threads, SpuriousWake(t) \/ Expire(t) \/ GiveUp(t)
        PROVE  CloseReachesWaiters'
    <3>1. /\ pc[t] \in Parked \cup Woken
          /\ \E p \in {"idle"} \cup Woken : Goto(t, p)
          /\ closed' = closed
      BY <2>7, UnparkType
         DEF SpuriousWake, Expire, GiveUp, Parked, Woken, PcState
    <3>2. QED
      BY <2>1, <3>1 DEF Goto, TypeOK, Waiters, Parked, Woken
  <2>8. CASE UNCHANGED vars
    BY <2>8 DEF vars, Waiters, CloseReachesWaiters
  <2>9. QED
    BY <2>2, <2>3, <2>4, <2>5, <2>6, <2>7, <2>8 DEF Next, Resume
<1>3. QED
  BY <1>1, <1>2, TypeCorrect, PTL DEF Spec

-----------------------------------------------------------------------------

\* A pop that returns false saw an empty queue, and an untimed one saw it
\* closed as well, whatever the race between deadline, push and close.
THEOREM FailsOnlyWhenEmptyHolds == Spec => FailsOnlyWhenEmpty
<1>1. TypeOK /\ [Next]_vars =>
        [\A t \in Threads :
           PopFails(t) => items = <<>> /\ (pc[t] = "popWake" => closed)]_vars
  <2> SUFFICES ASSUME TypeOK, Next, NEW t \in Threads, PopFails(t)
               PROVE  items = <<>> /\ (pc[t] = "popWake" => closed)
    OBVIOUS
  <2>0. pc[t] \in Woken /\ pc'[t] = "idle" /\ popped' = popped
    BY DEF PopFails
  <2>1. PICK u \in Threads :
          \/ Push(u) \/ Close(u) \/ Pop(u) \/ Block(u)
          \/ SpuriousWake(u) \/ Expire(u) \/ Resume(u)
    BY DEF Next
  <2>2. CASE u # t
    <3>1. CASE NotifyOne(u)
      BY <2>0, <2>2, <3>1, UnparkType
         DEF NotifyOne, Goto, TypeOK, Waiters, Parked, Woken
    <3>2. CASE NotifyAll(u)
      BY <2>0, <2>2, <3>2, UnparkType
         DEF NotifyAll, TypeOK, Parked, Woken
    <3>3. CASE ~NotifyOne(u) /\ ~NotifyAll(u)
      <4>1. \E p \in PcState : Goto(u, p)
        BY <2>1, <3>3, UnparkType
           DEF Push, Close, Pop, Block, SpuriousWake, Expire, Resume, Retake,
               WaitAgain, GiveUp, Take, PcState, Parked, Woken, TypeOK
      <4>2. pc'[t] = pc[t]
        BY <2>2, <4>1 DEF Goto, TypeOK
      <4>3. QED
        BY <2>0, <4>2 DEF Woken
    <3>4. QED
      BY <3>1, <3>2, <3>3
  <2>3. CASE u = t
    <3>1. GiveUp(t)
      BY <2>0, <2>1, <2>3
         DEF Push, Close, Pop, Block, SpuriousWake, Expire, Resume, Retake,
             WaitAgain, Take, NotifyOne, NotifyAll, Goto, Parked, Woken, TypeOK
    <3>2. QED
      BY <3>1 DEF GiveUp
  <2>4. QED
    BY <2>2, <2>3
<1>2. QED
  BY <1>1, TypeCorrect, PTL DEF Spec, FailsOnlyWhenEmpty

\* Every behaviour of the queue is one of the sliding window: push accepts at
\* the upper edge and may lose the oldest, a pop delivers the oldest.
THEOREM ImplementsWindowHolds == Spec => ImplementsWindow
<1>1. Init => Window!Init
  BY DEF Init, Window!Init
<1>2. TypeOK /\ Accounting /\ [Next]_vars => [Window!Next]_(Window!vars)
  <2> SUFFICES ASSUME TypeOK, Accounting, [Next]_vars
               PROVE  [Window!Next]_(Window!vars)
    OBVIOUS
  <2>0. /\ popped \in Nat /\ dropped \in Nat /\ pushed \in Nat
        /\ Len(items) \in Nat
        /\ pushed = popped + dropped + Len(items)
    BY DEF TypeOK, Accounting
  <2>1. ASSUME NEW t \in Threads, Push(t) PROVE Window!Accept
    BY <2>0, <2>1 DEF Push, Window!Accept
  <2>2. ASSUME NEW t \in Threads, Take(t) PROVE Window!Deliver(t)
    <3>1. /\ items # <<>> /\ out' = [out EXCEPT ![t] = Head(items)]
          /\ popped' = popped + 1
          /\ UNCHANGED <<dropped, closed, pushed>>
      BY <2>2 DEF Take
    <3>2. /\ Head(items) = items[1] /\ Len(items) > 0
          /\ 1 \in 1 .. Len(items)
      BY <3>1, TakenItems DEF TypeOK
    <3>3. Head(items) = popped + dropped + 1
      BY <2>0, <3>2 DEF Accounting
    <3>4. popped' + dropped' = popped + dropped + 1
      BY <2>0, <3>1
    <3>5. QED
      <4>1. popped + dropped < pushed
        BY <2>0, <3>2
      <4>2. out' = [out EXCEPT ![t] = popped + dropped + 1]
        BY <3>1, <3>3
      <4>3. QED
        BY <3>1, <3>4, <4>1, <4>2 DEF Window!Deliver
  <2>3. ASSUME NEW t \in Threads, Close(t) PROVE Window!Shut
    BY <2>3 DEF Close, Window!Shut
  <2>4. ASSUME UNCHANGED <<items, dropped, closed, out, pushed, popped>>
        PROVE  UNCHANGED Window!vars
    BY <2>4 DEF Window!vars
  <2>5. QED
    BY <2>1, <2>2, <2>3, <2>4
       DEF Next, Resume, Pop, Retake, NotifyOne, NotifyAll, Block,
           SpuriousWake, Expire, WaitAgain, GiveUp, vars, Window!Next
<1>3. QED
  BY <1>1, <1>2, TypeCorrect, AccountingHolds, PTL
     DEF Spec, ImplementsWindow, Window!Spec
=============================================================================
