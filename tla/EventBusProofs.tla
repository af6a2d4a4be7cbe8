--------------------------- MODULE EventBusProofs ---------------------------
(***************************************************************************)
(* Theorems about EventBus for every set of threads, every set of event    *)
(* types, every capacity and every number of subscriptions and events.     *)
(***************************************************************************)
EXTENDS EventBus, SequenceTheorems, TLAPS

\* The calls by the operation they are in.
PublishCall == [op : {"publish"}, type : Types, event : Event, next : Nat \ {0}]
CloseCall   == [op : {"closeAll"}, next : Nat \ {0}]

\* What a thread does inside the bus tells what it remembers.
LEMMA CallKinds ==
  ASSUME NEW c \in Call
  PROVE  /\ c.op = "publish" => c \in PublishCall
         /\ c.op = "closeAll" => c \in CloseCall
         /\ c.op \notin {"publish", "closeAll"} => c = Idle
BY DEF Call, Idle, PublishCall, CloseCall

\* What a push leaves of a queue, and what it adds to it.
LEMMA PushedQueue ==
  ASSUME NEW q \in Queue, NEW e \in Event
  PROVE  /\ Pushed(q, e) \in Queue
         /\ Pushed(q, e).type = q.type /\ Pushed(q, e).since = q.since
         /\ Pushed(q, e).closed = q.closed /\ Pushed(q, e).taken = q.taken
         /\ Pushed(q, e).cap = q.cap
         /\ q.closed => Pushed(q, e) = q
         /\ ~ q.closed => Pushed(q, e).received = q.received + 1
<1> DEFINE full == Len(q.items) >= q.cap
<1>1. /\ q.items \in Seq(Event) /\ q.cap \in Nat \ {0} /\ q.dropped \in Nat
      /\ q.received \in Nat /\ Len(q.items) \in Nat
  BY DEF Queue
<1>2. full => q.items # <<>>
  BY <1>1, EmptySeq
<1>3. Append(IF full THEN Tail(q.items) ELSE q.items, e) \in Seq(Event)
  BY <1>1, <1>2
<1>4. CASE q.closed
  BY <1>4 DEF Pushed
<1>5. CASE ~ q.closed
  <2> DEFINE items   == Append(IF full THEN Tail(q.items) ELSE q.items, e)
             dropped == IF full THEN q.dropped + 1 ELSE q.dropped
  <2>1. Pushed(q, e) = [q EXCEPT !.items = items, !.dropped = dropped,
                                 !.received = q.received + 1]
    BY <1>5 DEF Pushed
  <2>2. dropped \in Nat /\ q.received + 1 \in Nat
    BY <1>1
  <2> HIDE DEF items, dropped
  <2>3. QED
    BY <1>3, <1>5, <2>1, <2>2 DEF Queue, items
<1>6. QED
  BY <1>4, <1>5

\* A publisher that goes on to its next subscriber, field by field.
LEMMA PublisherMoves ==
  ASSUME NEW t \in Threads, NEW C, call \in [Threads -> C], call[t] \in PublishCall,
         NEW a \in Nat \ {0}, NEW b \in BOOLEAN,
         call' = [call EXCEPT ![t].next = a, ![t].event.intact = b]
  PROVE  /\ call'[t] \in PublishCall /\ call'[t].type = call[t].type /\ call'[t].next = a
         /\ call'[t].event.n = call[t].event.n /\ call'[t].event.intact = b
         /\ \A u \in Threads \ {t} : call'[u] = call[u]
BY DEF PublishCall, Event

\* PublishPush, spelled out: one subscriber of the event's type gets it, and the
\* publisher moves on to the next.
LEMMA PushEffect ==
  ASSUME TypeOK, NEW t \in Threads, PublishPush(t)
  PROVE  LET c    == call[t]
             subs == subscribers[c.type]
             d    == call'[t]
         IN /\ c \in PublishCall /\ c.next \in 1 .. Len(subs)
            /\ owned' = [owned EXCEPT ![subs[c.next]] = Pushed(@, c.event)]
            /\ d \in PublishCall /\ d.type = c.type /\ d.next = c.next + 1
            /\ d.event.n = c.event.n /\ d.event.intact = (c.next < Len(subs))
            /\ call' \in [Threads -> Call]
            /\ \A u \in Threads \ {t} : call'[u] = call[u]
            /\ UNCHANGED <<holder, subscribers, published>>
<1> DEFINE c == call[t]
           subs == subscribers[c.type]
<1>1. c \in PublishCall
  BY CallKinds DEF TypeOK, PublishPush
<1>2. subs \in Seq(Nat) /\ Len(subs) \in Nat
  BY <1>1 DEF TypeOK, PublishCall
<1>3. c.next \in 1 .. Len(subs)
  BY <1>1, <1>2 DEF PublishPush, PublishCall
<1>4. /\ call'[t] \in PublishCall /\ call'[t].type = c.type /\ call'[t].next = c.next + 1
      /\ call'[t].event.n = c.event.n /\ call'[t].event.intact = (c.next < Len(subs))
      /\ \A u \in Threads \ {t} : call'[u] = call[u]
  <2>1. c.next + 1 \in Nat \ {0} /\ (c.next < Len(subs)) \in BOOLEAN
    BY <1>3
  <2>2. call' = [call EXCEPT ![t].next = c.next + 1, ![t].event.intact = c.next < Len(subs)]
    BY DEF PublishPush
  <2>3. QED
    BY <1>1, <2>1, <2>2, PublisherMoves DEF TypeOK
<1>5. call' \in [Threads -> Call]
  <2>1. call' = [u \in Threads |-> call'[u]]
    BY DEF TypeOK, PublishPush
  <2>2. \A u \in Threads : call'[u] \in Call
    BY <1>4 DEF TypeOK, Call, PublishCall
  <2>3. QED
    BY <2>1, <2>2
<1>6. QED
  BY <1>1, <1>3, <1>4, <1>5 DEF PublishPush

-----------------------------------------------------------------------------

\* Whoever is inside the bus holds registry_mu_.
Mutex == \A t \in Threads : call[t] # Idle <=> holder = t

\* subscribers lists every queue once, under its type.
Registry ==
  /\ \A ty \in Types : \A k \in 1 .. Len(subscribers[ty]) :
       /\ subscribers[ty][k] \in 1 .. Len(owned)
       /\ owned[subscribers[ty][k]].type = ty
       /\ \A j \in 1 .. Len(subscribers[ty]) :
            subscribers[ty][j] = subscribers[ty][k] => j = k
  /\ \A i \in 1 .. Len(owned) : \E k \in 1 .. Len(subscribers[owned[i].type]) :
       subscribers[owned[i].type][k] = i

\* subscribe registers a queue.
LEMMA NewQueueType ==
  ASSUME TypeOK, NEW ty \in Types, NEW cap \in Capacities
  PROVE  NewQueue(ty, cap) \in Queue
<1>1. <<>> \in Seq(Event) /\ cap \in Nat \ {0} /\ published[ty] \in Nat
  BY BusAssumption DEF TypeOK
<1>2. QED
  BY <1>1 DEF NewQueue, Queue

\* No queue stands twice in a list.
LEMMA ListedOnce ==
  ASSUME Registry, NEW ty \in Types,
         NEW j \in 1 .. Len(subscribers[ty]), NEW k \in 1 .. Len(subscribers[ty]),
         subscribers[ty][j] = subscribers[ty][k]
  PROVE  j = k
BY DEF Registry

\* A step that changes one queue.
LEMMA OneQueueChanges ==
  ASSUME owned \in Seq(Queue), NEW i \in 1 .. Len(owned), NEW q \in Queue,
         owned' = [owned EXCEPT ![i] = q]
  PROVE  /\ owned' \in Seq(Queue) /\ Len(owned') = Len(owned)
         /\ owned'[i] = q
         /\ \A j \in 1 .. Len(owned) : j # i => owned'[j] = owned[j]
BY ExceptSeq

\* Which queue a push, a step of close_all and a pop change, and how.
LEMMA PushedOwned ==
  ASSUME TypeOK, Registry, NEW t \in Threads, PublishPush(t)
  PROVE  LET c == call[t]  i == subscribers[c.type][c.next] IN
         /\ i \in 1 .. Len(owned) /\ owned[i] \in Queue /\ c.event \in Event
         /\ owned[i].type = c.type
         /\ owned' \in Seq(Queue) /\ Len(owned') = Len(owned)
         /\ owned'[i] = Pushed(owned[i], c.event)
         /\ \A j \in 1 .. Len(owned) : j # i => owned'[j] = owned[j]
<1> DEFINE c == call[t]
           i == subscribers[c.type][c.next]
<1>1. /\ c \in PublishCall /\ c.next \in 1 .. Len(subscribers[c.type])
      /\ owned' = [owned EXCEPT ![i] = Pushed(@, c.event)]
  BY PushEffect
<1>2. c.type \in Types /\ c.event \in Event
  BY <1>1 DEF PublishCall
<1>3. i \in 1 .. Len(owned) /\ owned[i].type = c.type
  BY <1>1, <1>2 DEF Registry
<1>4. owned \in Seq(Queue) /\ owned[i] \in Queue
  BY <1>3 DEF TypeOK
<1> DEFINE q == Pushed(owned[i], c.event)
<1>5. q \in Queue
  BY <1>2, <1>4, PushedQueue
<1>6. owned' = [owned EXCEPT ![i] = q]
  BY <1>1
<1> SUFFICES /\ owned' \in Seq(Queue) /\ Len(owned') = Len(owned)
             /\ owned'[i] = q
             /\ \A j \in 1 .. Len(owned) : j # i => owned'[j] = owned[j]
  BY <1>2, <1>3, <1>4
<1> HIDE DEF q, i
<1>7. QED
  BY <1>3, <1>4, <1>5, <1>6, OneQueueChanges

LEMMA ClosedOwned ==
  ASSUME TypeOK, NEW t \in Threads, CloseAllStep(t)
  PROVE  LET i == call[t].next IN
         /\ i \in 1 .. Len(owned) /\ owned[i] \in Queue
         /\ owned' \in Seq(Queue) /\ Len(owned') = Len(owned)
         /\ owned'[i] = [owned[i] EXCEPT !.closed = TRUE]
         /\ \A j \in 1 .. Len(owned) : j # i => owned'[j] = owned[j]
<1> DEFINE i == call[t].next
<1>1. call[t] \in CloseCall
  BY CallKinds DEF TypeOK, CloseAllStep
<1>2. i \in 1 .. Len(owned)
  BY <1>1 DEF CloseCall, CloseAllStep, TypeOK
<1>3. owned \in Seq(Queue) /\ owned[i] \in Queue
  BY <1>2 DEF TypeOK
<1> DEFINE q == [owned[i] EXCEPT !.closed = TRUE]
<1>4. q \in Queue
  BY <1>3 DEF Queue
<1>5. owned' = [owned EXCEPT ![i] = q]
  BY <1>2 DEF CloseAllStep, TypeOK
<1> SUFFICES /\ owned' \in Seq(Queue) /\ Len(owned') = Len(owned)
             /\ owned'[i] = q
             /\ \A j \in 1 .. Len(owned) : j # i => owned'[j] = owned[j]
  BY <1>2, <1>3
<1> HIDE DEF q
<1>6. QED
  BY <1>2, <1>3, <1>4, <1>5, OneQueueChanges

LEMMA PoppedOwned ==
  ASSUME TypeOK, NEW i \in 1 .. Len(owned), Pop(i)
  PROVE  /\ owned[i] \in Queue /\ owned[i].items # <<>>
         /\ owned' \in Seq(Queue) /\ Len(owned') = Len(owned)
         /\ owned'[i] = [owned[i] EXCEPT !.items = Tail(@), !.taken = @ + 1]
         /\ \A j \in 1 .. Len(owned) : j # i => owned'[j] = owned[j]
<1>1. owned \in Seq(Queue) /\ owned[i] \in Queue /\ owned[i].items # <<>>
  BY DEF TypeOK, Pop
<1>2. Tail(owned[i].items) \in Seq(Event) /\ owned[i].taken + 1 \in Nat
  <2>1. owned[i].items \in Seq(Event) /\ owned[i].taken \in Nat
    BY <1>1 DEF Queue
  <2>2. QED
    BY <1>1, <2>1
<1> DEFINE q == [owned[i] EXCEPT !.items = Tail(@), !.taken = @ + 1]
<1>3. q \in Queue
  BY <1>1, <1>2 DEF Queue
<1>4. owned' = [owned EXCEPT ![i] = q]
  BY <1>1 DEF Pop
<1> SUFFICES /\ owned' \in Seq(Queue) /\ Len(owned') = Len(owned)
             /\ owned'[i] = q
             /\ \A j \in 1 .. Len(owned) : j # i => owned'[j] = owned[j]
  BY <1>1
<1> HIDE DEF q
<1>5. QED
  BY <1>1, <1>3, <1>4, OneQueueChanges

-----------------------------------------------------------------------------

\* A step after which the same queues are listed in the same places.
KeepsQueues ==
  /\ Len(owned') = Len(owned) /\ subscribers' = subscribers
  /\ \A i \in 1 .. Len(owned) : owned'[i].type = owned[i].type

\* The types are kept while what the lists of subscribers name exists.
LEMMA TypeCorrectStep == TypeOK /\ Registry /\ [Next]_vars => TypeOK'
<1> SUFFICES ASSUME TypeOK, Registry, [Next]_vars PROVE TypeOK'
  OBVIOUS
<1>1. ASSUME NEW t \in Threads, NEW ty \in Types, NEW cap \in Capacities,
             Subscribe(t, ty, cap)
      PROVE  TypeOK'
  <2>1. owned' \in Seq(Queue)
    <3>1. NewQueue(ty, cap) \in Queue
      BY NewQueueType
    <3>2. QED
      BY <1>1, <3>1 DEF Subscribe, TypeOK
  <2>2. subscribers' \in [Types -> Seq(Nat)]
    <3>1. Append(subscribers[ty], Len(owned) + 1) \in Seq(Nat)
      BY DEF TypeOK
    <3>2. QED
      BY <1>1, <3>1 DEF Subscribe, TypeOK
  <2>3. QED
    BY <1>1, <2>1, <2>2 DEF Subscribe, TypeOK
<1>2. ASSUME NEW t \in Threads, NEW ty \in Types, PublishBegin(t, ty)
      PROVE  TypeOK'
  <2> DEFINE c == [op |-> "publish", type |-> ty, next |-> 1,
                   event |-> [n |-> published[ty] + 1, intact |-> TRUE]]
  <2>1. published[ty] + 1 \in Nat
    BY DEF TypeOK
  <2>2. c \in Call
    BY <2>1 DEF Call, Event
  <2>3. call' = [call EXCEPT ![t] = c]
    BY <1>2 DEF PublishBegin
  <2> HIDE DEF c
  <2>4. call' \in [Threads -> Call]
    BY <2>2, <2>3 DEF TypeOK
  <2>5. published' \in [Types -> Nat]
    BY <1>2, <2>1 DEF PublishBegin, TypeOK
  <2>6. QED
    BY <1>2, <2>4, <2>5 DEF PublishBegin, Lock, TypeOK
<1>3. ASSUME NEW t \in Threads, CloseAllBegin(t)
      PROVE  TypeOK'
  <2>1. [op |-> "closeAll", next |-> 1] \in Call
    BY DEF Call
  <2>2. QED
    BY <1>3, <2>1 DEF CloseAllBegin, Lock, TypeOK
<1>4. ASSUME NEW t \in Threads, PublishPush(t)
      PROVE  TypeOK'
  BY <1>4, PushEffect, PushedOwned DEF TypeOK
<1>5. ASSUME NEW t \in Threads, PublishEnd(t) \/ CloseAllEnd(t)
      PROVE  TypeOK'
  <2>1. Idle \in Call
    BY DEF Call
  <2>2. QED
    BY <1>5, <2>1 DEF PublishEnd, CloseAllEnd, Unlock, TypeOK
<1>6. ASSUME NEW t \in Threads, CloseAllStep(t)
      PROVE  TypeOK'
  <2>1. call[t] \in CloseCall
    BY <1>6, CallKinds DEF TypeOK, CloseAllStep
  <2>2. [call[t] EXCEPT !.next = @ + 1] \in Call
    BY <2>1 DEF CloseCall, Call
  <2>3. call' \in [Threads -> Call]
    BY <1>6, <2>2 DEF CloseAllStep, TypeOK
  <2>4. QED
    BY <1>6, <2>3, ClosedOwned DEF CloseAllStep, TypeOK
<1>7. ASSUME NEW i \in 1 .. Len(owned), Pop(i)
      PROVE  TypeOK'
  BY <1>7, PoppedOwned DEF Pop, TypeOK
<1>8. CASE UNCHANGED vars
  BY <1>8 DEF vars, TypeOK
<1>9. QED
  BY <1>1, <1>2, <1>3, <1>4, <1>5, <1>6, <1>7, <1>8 DEF Next, Progress

\* A queue, once listed, stays where it is listed; subscribe adds the next one.
LEMMA RegistryStep == TypeOK /\ Registry /\ [Next]_vars => Registry'
<1> SUFFICES ASSUME TypeOK, Registry, [Next]_vars PROVE Registry'
  OBVIOUS
<1>1. ASSUME KeepsQueues PROVE Registry'
  <2>1. /\ \A ty \in Types : subscribers'[ty] = subscribers[ty]
        /\ Len(owned') = Len(owned)
        /\ \A i \in 1 .. Len(owned) : owned'[i].type = owned[i].type
    BY <1>1 DEF KeepsQueues
  <2>2. ASSUME NEW ty \in Types, NEW k \in 1 .. Len(subscribers'[ty])
        PROVE  /\ subscribers'[ty][k] \in 1 .. Len(owned')
               /\ owned'[subscribers'[ty][k]].type = ty
               /\ \A j \in 1 .. Len(subscribers'[ty]) :
                    subscribers'[ty][j] = subscribers'[ty][k] => j = k
    <3>1. k \in 1 .. Len(subscribers[ty])
      BY <2>1
    <3>2. /\ subscribers[ty][k] \in 1 .. Len(owned)
          /\ owned[subscribers[ty][k]].type = ty
          /\ \A j \in 1 .. Len(subscribers[ty]) :
               subscribers[ty][j] = subscribers[ty][k] => j = k
      BY <3>1 DEF Registry
    <3>3. QED
      BY <2>1, <3>2
  <2>3. ASSUME NEW i \in 1 .. Len(owned')
        PROVE  \E k \in 1 .. Len(subscribers'[owned'[i].type]) :
                 subscribers'[owned'[i].type][k] = i
    <3>1. i \in 1 .. Len(owned) /\ owned'[i].type = owned[i].type
          /\ subscribers' = subscribers
      BY <1>1, <2>1 DEF KeepsQueues
    <3>2. \E k \in 1 .. Len(subscribers[owned[i].type]) :
            subscribers[owned[i].type][k] = i
      BY <3>1 DEF Registry
    <3>3. QED
      BY <3>1, <3>2
  <2>4. QED
    BY <2>2, <2>3 DEF Registry
<1>2. ASSUME NEW t \in Threads, NEW ty \in Types, NEW cap \in Capacities,
             Subscribe(t, ty, cap)
      PROVE  Registry'
  <2> DEFINE n == Len(owned)
             m == Len(subscribers[ty])
  <2>1. /\ owned \in Seq(Queue) /\ subscribers[ty] \in Seq(Nat) /\ n \in Nat /\ m \in Nat
        /\ \A x \in Types : subscribers[x] \in Seq(Nat)
        /\ NewQueue(ty, cap) \in Queue
    BY NewQueueType DEF TypeOK
  <2>2. /\ Len(owned') = n + 1 /\ owned'[n + 1].type = ty
        /\ \A i \in 1 .. n : owned'[i] = owned[i]
    BY <1>2, <2>1 DEF Subscribe, NewQueue
  <2>3. /\ Len(subscribers'[ty]) = m + 1 /\ subscribers'[ty][m + 1] = n + 1
        /\ \A k \in 1 .. m : subscribers'[ty][k] = subscribers[ty][k]
        /\ \A x \in Types \ {ty} : subscribers'[x] = subscribers[x]
    BY <1>2, <2>1 DEF Subscribe, TypeOK
  <2>4. \A x \in Types : \A k \in 1 .. Len(subscribers[x]) :
          /\ subscribers[x][k] \in 1 .. n
          /\ owned'[subscribers[x][k]].type = x
          /\ \A j \in 1 .. Len(subscribers[x]) :
               subscribers[x][j] = subscribers[x][k] => j = k
    BY <2>2 DEF Registry
  <2>5. ASSUME NEW x \in Types, NEW k \in 1 .. Len(subscribers'[x])
        PROVE  /\ subscribers'[x][k] \in 1 .. Len(owned')
               /\ owned'[subscribers'[x][k]].type = x
               /\ \A j \in 1 .. Len(subscribers'[x]) :
                    subscribers'[x][j] = subscribers'[x][k] => j = k
    <3>1. CASE x # ty
      <4>1. subscribers'[x] = subscribers[x]
        BY <2>3, <3>1
      <4>2. 1 .. n \subseteq 1 .. Len(owned')
        BY <2>1, <2>2
      <4>3. QED
        BY <2>4, <4>1, <4>2
    <3>2. CASE x = ty
      <4>1. \A j \in 1 .. m : /\ subscribers'[ty][j] \in 1 .. n
                              /\ owned'[subscribers'[ty][j]].type = ty
                              /\ \A h \in 1 .. m :
                                   subscribers'[ty][h] = subscribers'[ty][j] => h = j
        BY <2>3, <2>4, SMTT(30)
      <4>2. /\ subscribers'[ty][m + 1] = n + 1 /\ owned'[n + 1].type = ty
            /\ Len(subscribers'[ty]) = m + 1 /\ Len(owned') = n + 1
            /\ n \in Nat /\ m \in Nat
        BY <2>1, <2>2, <2>3
      <4> HIDE DEF n, m
      <4>3. \A j \in 1 .. m : subscribers'[ty][j] # n + 1
        BY <4>1, <4>2
      <4>4. \A j \in 1 .. m + 1 : j = m + 1 \/ j \in 1 .. m
        BY <4>2
      <4>5. k \in 1 .. m + 1
        BY <3>2, <4>2
      <4>6. subscribers'[ty][k] \in 1 .. n + 1 /\ owned'[subscribers'[ty][k]].type = ty
        BY <4>1, <4>2, <4>4, <4>5
      <4>7. \A j \in 1 .. m + 1 : subscribers'[ty][j] = subscribers'[ty][k] => j = k
        BY <4>1, <4>2, <4>3, <4>4, <4>5
      <4>8. QED
        BY <3>2, <4>2, <4>6, <4>7
    <3>3. QED
      BY <3>1, <3>2
  <2>6. ASSUME NEW i \in 1 .. Len(owned')
        PROVE  \E k \in 1 .. Len(subscribers'[owned'[i].type]) :
                 subscribers'[owned'[i].type][k] = i
    <3>1. CASE i = n + 1
      BY <2>1, <2>2, <2>3, <3>1
    <3>2. CASE i # n + 1
      <4>1. i \in 1 .. n /\ owned'[i] = owned[i]
        BY <2>1, <2>2, <3>2
      <4> DEFINE x == owned[i].type
      <4>2. x \in Types
        <5>1. owned[i] \in Queue
          BY <2>1, <4>1
        <5>2. QED
          BY <5>1 DEF Queue
      <4>3. PICK k \in 1 .. Len(subscribers[x]) : subscribers[x][k] = i
        BY <4>1 DEF Registry
      <4> HIDE DEF x
      <4>4. k \in 1 .. Len(subscribers'[x]) /\ subscribers'[x][k] = i
        <5>1. CASE x # ty
          BY <2>3, <4>2, <4>3, <5>1
        <5>2. CASE x = ty
          <6>1. 1 .. m \subseteq 1 .. m + 1
            BY <2>1
          <6>2. k \in 1 .. m
            BY <4>3, <5>2
          <6>3. QED
            BY <2>3, <4>3, <5>2, <6>1, <6>2
        <5>3. QED
          BY <5>1, <5>2
      <4>5. QED
        BY <4>1, <4>4 DEF x
    <3>3. QED
      BY <3>1, <3>2
  <2>7. QED
    BY <2>5, <2>6 DEF Registry
<1>3. ASSUME NEW t \in Threads, PublishPush(t)
      PROVE  KeepsQueues
  BY <1>3, PushEffect, PushedOwned, PushedQueue, SMTT(30) DEF KeepsQueues
<1>4. ASSUME NEW t \in Threads, CloseAllStep(t)
      PROVE  KeepsQueues
  BY <1>4, ClosedOwned DEF KeepsQueues, CloseAllStep, Queue
<1>5. ASSUME NEW i \in 1 .. Len(owned), Pop(i)
      PROVE  KeepsQueues
  <2>1. owned'[i].type = owned[i].type
    BY <1>5, PoppedOwned DEF Queue
  <2>2. QED
    BY <1>5, <2>1, PoppedOwned DEF KeepsQueues, Pop
<1>6. ASSUME NEW t \in Threads, NEW ty \in Types, PublishBegin(t, ty)
      PROVE  KeepsQueues
  BY <1>6 DEF KeepsQueues, PublishBegin
<1>7. ASSUME NEW t \in Threads, CloseAllBegin(t) \/ PublishEnd(t) \/ CloseAllEnd(t)
      PROVE  KeepsQueues
  BY <1>7 DEF KeepsQueues, CloseAllBegin, PublishEnd, CloseAllEnd
<1>8. CASE UNCHANGED vars
  BY <1>1, <1>8 DEF vars, KeepsQueues
<1>9. QED
  BY <1>1, <1>2, <1>3, <1>4, <1>5, <1>6, <1>7, <1>8 DEF Next, Progress

\* A call begins by taking a free registry_mu_ and ends by releasing it.
LEMMA MutexStep == TypeOK /\ Mutex /\ [Next]_vars => Mutex'
<1> SUFFICES ASSUME TypeOK, Mutex, [Next]_vars PROVE Mutex'
  OBVIOUS
<1>0. NoThread \notin Threads
  BY BusAssumption
<1>1. ASSUME NEW t \in Threads, NEW ty \in Types, NEW cap \in Capacities,
             Subscribe(t, ty, cap)
      PROVE  Mutex'
  BY <1>1 DEF Subscribe, Mutex
<1>2. ASSUME NEW t \in Threads, NEW c, c # Idle, Lock(t), call' = [call EXCEPT ![t] = c]
      PROVE  Mutex'
  BY <1>0, <1>2 DEF Lock, Mutex, TypeOK
<1>3. ASSUME NEW t \in Threads, PublishPush(t)
      PROVE  Mutex'
  <2>1. call'[t] \in PublishCall /\ call[t] \in PublishCall
    BY <1>3, PushEffect
  <2>2. call'[t] # Idle /\ call[t] # Idle
    BY <2>1 DEF PublishCall, Idle
  <2>3. QED
    BY <1>3, <2>2, PushEffect DEF Mutex
<1>4. ASSUME NEW t \in Threads, Unlock(t), call' = [call EXCEPT ![t] = Idle]
      PROVE  Mutex'
  BY <1>0, <1>4 DEF Unlock, Mutex, TypeOK
<1>5. ASSUME NEW t \in Threads, CloseAllStep(t)
      PROVE  Mutex'
  <2>1. call[t].op = "closeAll" /\ call'[t].op = "closeAll"
        /\ \A u \in Threads \ {t} : call'[u] = call[u]
    <3>1. call[t] \in CloseCall
      BY <1>5, CallKinds DEF TypeOK, CloseAllStep
    <3>2. QED
      BY <1>5, <3>1 DEF CloseAllStep, TypeOK, CloseCall
  <2>2. call'[t] # Idle /\ call[t] # Idle
    BY <2>1 DEF Idle
  <2>3. QED
    BY <1>5, <2>1, <2>2 DEF Mutex, CloseAllStep
<1>6. ASSUME NEW i \in 1 .. Len(owned), Pop(i)
      PROVE  Mutex'
  BY <1>6 DEF Pop, Mutex
<1>7. CASE UNCHANGED vars
  BY <1>7 DEF vars, Mutex
<1>8. ASSUME NEW t \in Threads, NEW ty \in Types, PublishBegin(t, ty)
      PROVE  Mutex'
  <2> DEFINE c == [op |-> "publish", type |-> ty, next |-> 1,
                   event |-> [n |-> published[ty] + 1, intact |-> TRUE]]
  <2>1. c # Idle /\ Lock(t) /\ call' = [call EXCEPT ![t] = c]
    BY <1>8 DEF PublishBegin, Idle
  <2> HIDE DEF c
  <2>2. QED
    BY <1>2, <2>1
<1>9. ASSUME NEW t \in Threads, CloseAllBegin(t)
      PROVE  Mutex'
  <2>1. [op |-> "closeAll", next |-> 1] # Idle
    BY DEF Idle
  <2>2. QED
    BY <1>2, <1>9, <2>1 DEF CloseAllBegin
<1>10. QED
  BY <1>1, <1>3, <1>4, <1>5, <1>6, <1>7, <1>8, <1>9
  DEF Next, Progress, PublishEnd, CloseAllEnd

-----------------------------------------------------------------------------

\* The event being fanned out is the newest of its type, and has not been
\* moved away while a subscriber is still to get it.
InFlight ==
  \A t \in Threads : call[t].op = "publish" =>
    /\ call[t].event.n = published[call[t].type]
    /\ call[t].next <= Len(subscribers[call[t].type]) => call[t].event.intact

\* While registry_mu_ is free, or held by thread t, nobody else publishes.
LEMMA OthersIdle ==
  ASSUME Mutex, NEW t \in Threads, holder \in {NoThread, t}
  PROVE  \A u \in Threads \ {t} : call[u] = Idle /\ call[u].op # "publish"
BY BusAssumption DEF Mutex, Idle

\* Whoever publishes or closes holds registry_mu_.
LEMMA HolderInside ==
  ASSUME Mutex, NEW t \in Threads, call[t].op \in {"publish", "closeAll"}
  PROVE  holder = t
BY DEF Mutex, Idle

\* An event enters the bus whole and numbered, and is moved with its last push.
LEMMA InFlightStep ==
  TypeOK /\ Mutex /\ InFlight /\ [Next]_vars => InFlight'
<1> SUFFICES ASSUME TypeOK, Mutex, InFlight, [Next]_vars PROVE InFlight'
  OBVIOUS
<1>1. ASSUME NEW t \in Threads, NEW ty \in Types, NEW cap \in Capacities,
             Subscribe(t, ty, cap)
      PROVE  InFlight'
  <2>1. \A u \in Threads : call'[u].op # "publish"
    BY <1>1, BusAssumption DEF Subscribe, Mutex, Idle
  <2>2. QED
    BY <2>1 DEF InFlight
<1>2. ASSUME NEW t \in Threads, NEW ty \in Types, PublishBegin(t, ty)
      PROVE  InFlight'
  <2> DEFINE c == [op |-> "publish", type |-> ty, next |-> 1,
                   event |-> [n |-> published[ty] + 1, intact |-> TRUE]]
  <2>1. /\ call' = [call EXCEPT ![t] = c] /\ published'[ty] = published[ty] + 1
        /\ holder = NoThread
    BY <1>2 DEF PublishBegin, Lock, TypeOK
  <2>2. /\ c.op = "publish" /\ c.type = ty /\ c.event.n = published[ty] + 1
        /\ c.event.intact
    OBVIOUS
  <2> HIDE DEF c
  <2>3. call'[t] = c /\ \A u \in Threads \ {t} : call'[u].op # "publish"
    BY <2>1, OthersIdle DEF TypeOK
  <2>4. QED
    BY <2>1, <2>2, <2>3 DEF InFlight
<1>3. ASSUME NEW t \in Threads, PublishPush(t)
      PROVE  InFlight'
  <2> DEFINE c == call[t]
             d == call'[t]
  <2>1. /\ c \in PublishCall /\ c.op = "publish" /\ d.type = c.type
        /\ d.next = c.next + 1 /\ d.event.n = c.event.n
        /\ d.event.intact = (c.next < Len(subscribers[c.type]))
        /\ subscribers' = subscribers /\ published' = published
        /\ \A u \in Threads \ {t} : call'[u] = call[u]
    BY <1>3, PushEffect DEF PublishPush
  <2>2. \A u \in Threads \ {t} : call'[u].op # "publish"
    BY <1>3, <2>1, OthersIdle, HolderInside
  <2>3. d.event.n = published[c.type]
    BY <2>1 DEF InFlight
  <2>4. c.next \in Nat /\ Len(subscribers[c.type]) \in Nat
    BY <2>1 DEF PublishCall, TypeOK
  <2>5. d.next <= Len(subscribers[c.type]) => d.event.intact
    <3>1. d.next <= Len(subscribers[c.type]) => c.next < Len(subscribers[c.type])
      BY <2>1, <2>4
    <3>2. QED
      BY <2>1, <3>1
  <2>6. QED
    BY <2>1, <2>2, <2>3, <2>5 DEF InFlight
<1>4. ASSUME NEW t \in Threads, NEW c, c.op # "publish", call' = [call EXCEPT ![t] = c],
             UNCHANGED <<subscribers, published>>
      PROVE  InFlight'
  BY <1>4 DEF InFlight, TypeOK
<1>5. ASSUME NEW t \in Threads, PublishEnd(t) \/ CloseAllEnd(t)
      PROVE  InFlight'
  BY <1>4, <1>5 DEF PublishEnd, CloseAllEnd, Idle
<1>6. ASSUME NEW t \in Threads, CloseAllBegin(t)
      PROVE  InFlight'
  BY <1>4, <1>6 DEF CloseAllBegin
<1>7. ASSUME NEW t \in Threads, CloseAllStep(t)
      PROVE  InFlight'
  <2> DEFINE c == [call[t] EXCEPT !.next = @ + 1]
  <2>1. call[t] \in CloseCall
    BY <1>7, CallKinds DEF TypeOK, CloseAllStep
  <2>2. c.op # "publish"
    BY <2>1 DEF CloseCall
  <2>3. call' = [call EXCEPT ![t] = c]
    BY <1>7 DEF CloseAllStep
  <2> HIDE DEF c
  <2>4. QED
    BY <1>4, <1>7, <2>2, <2>3 DEF CloseAllStep
<1>8. ASSUME NEW i \in 1 .. Len(owned), Pop(i)
      PROVE  InFlight'
  BY <1>8 DEF Pop, InFlight
<1>9. CASE UNCHANGED vars
  BY <1>9 DEF vars, InFlight
<1>10. QED
  BY <1>1, <1>2, <1>3, <1>5, <1>6, <1>7, <1>8, <1>9 DEF Next, Progress

-----------------------------------------------------------------------------

\* The queue i is still to get an event.
Waits(i) == \E t \in Threads : Pending(t, i)

\* FanOutComplete of one queue.
Fan(i) ==
  LET q == owned[i]
      here == q.since + q.received
  IN IF Waits(i) THEN here + 1 = published[q.type] \/ q.closed
                 ELSE here = published[q.type] \/ q.closed

\* FanOutComplete, queue by queue.
LEMMA FanOfEach == FanOutComplete <=> \A i \in 1 .. Len(owned) : Fan(i)
BY DEF FanOutComplete, Fan, Waits

\* Fan is kept by a step that keeps what it reads, but for closing queues.
LEMMA FanKept ==
  ASSUME NEW i, Fan(i), Waits(i)' <=> Waits(i),
         owned'[i].type = owned[i].type, owned'[i].since = owned[i].since,
         owned'[i].received = owned[i].received,
         owned[i].closed => owned'[i].closed,
         published'[owned[i].type] = published[owned[i].type]
  PROVE  Fan(i)'
BY DEF Fan

\* Publishing puts every queue of the type one event behind; each push brings
\* one of them back, and no other thread can come in between.
LEMMA FanOutStep ==
  TypeOK /\ Mutex /\ Registry /\ FanOutComplete /\ [Next]_vars => FanOutComplete'
<1> SUFFICES ASSUME TypeOK, Mutex, Registry, FanOutComplete, [Next]_vars,
                    NEW i \in 1 .. Len(owned')
             PROVE  Fan(i)'
  BY FanOfEach DEF FanOutComplete, Fan, Waits
<1>0. \A j \in 1 .. Len(owned) : Fan(j) /\ owned[j] \in Queue
  BY FanOfEach DEF TypeOK
<1>1. ASSUME NEW t \in Threads, NEW ty \in Types, NEW cap \in Capacities,
             Subscribe(t, ty, cap)
      PROVE  Fan(i)'
  <2>1. \A u \in Threads : call[u].op # "publish" /\ call'[u].op # "publish"
    BY <1>1, BusAssumption DEF Subscribe, Mutex, Idle
  <2>2. ~ Waits(i) /\ ~ Waits(i)'
    BY <2>1 DEF Waits, Pending
  <2>3. /\ owned \in Seq(Queue) /\ Len(owned) \in Nat /\ NewQueue(ty, cap) \in Queue
        /\ owned' = Append(owned, NewQueue(ty, cap)) /\ published' = published
    BY <1>1, NewQueueType DEF TypeOK, Subscribe
  <2>4. CASE i = Len(owned) + 1
    <3>1. owned'[i] = NewQueue(ty, cap)
      BY <2>3, <2>4
    <3>2. /\ owned'[i].type = ty /\ owned'[i].since = published[ty]
          /\ owned'[i].received = 0 /\ published[ty] \in Nat
      BY <3>1 DEF NewQueue, TypeOK
    <3>3. QED
      BY <2>2, <2>3, <3>2 DEF Fan
  <2>5. CASE i # Len(owned) + 1
    <3>1. i \in 1 .. Len(owned) /\ owned'[i] = owned[i]
      BY <2>3, <2>5
    <3>2. QED
      BY <1>0, <2>2, <2>3, <3>1, FanKept
  <2>6. QED
    BY <2>4, <2>5
<1>2. ASSUME NEW t \in Threads, NEW ty \in Types, PublishBegin(t, ty)
      PROVE  Fan(i)'
  <2> DEFINE c == [op |-> "publish", type |-> ty, next |-> 1,
                   event |-> [n |-> published[ty] + 1, intact |-> TRUE]]
  <2>1. /\ call' = [call EXCEPT ![t] = c] /\ published' = [published EXCEPT ![ty] = @ + 1]
        /\ holder = NoThread /\ owned' = owned /\ subscribers' = subscribers
        /\ call[t] = Idle
    BY <1>2 DEF PublishBegin, Lock
  <2>2. c.op = "publish" /\ c.type = ty /\ c.next = 1
    OBVIOUS
  <2> HIDE DEF c
  <2>3. call'[t] = c /\ \A u \in Threads \ {t} : call'[u].op # "publish"
    BY <2>1, OthersIdle DEF TypeOK
  <2>4. ~ Waits(i)
    BY <2>1, OthersIdle DEF Waits, Pending, Idle
  <2>5. /\ i \in 1 .. Len(owned) /\ Fan(i) /\ owned[i].type \in Types
        /\ owned[i].since + owned[i].received \in Nat
    BY <1>0, <2>1 DEF Queue
  <2>6. CASE owned[i].type = ty
    <3>1. PICK k \in 1 .. Len(subscribers[ty]) : subscribers[ty][k] = i
      BY <2>5, <2>6 DEF Registry
    <3>2. Pending(t, i)'
      BY <2>1, <2>2, <2>3, <2>6, <3>1 DEF Pending
    <3>3. published'[ty] = published[ty] + 1 /\ published[ty] \in Nat
      BY <2>1 DEF TypeOK
    <3>4. Waits(i)'
      BY <3>2 DEF Waits
    <3>5. owned[i].since + owned[i].received = published[ty] \/ owned[i].closed
      BY <2>4, <2>5, <2>6 DEF Fan
    <3>6. QED
      BY <2>1, <2>5, <2>6, <3>3, <3>4, <3>5 DEF Fan
  <2>7. CASE owned[i].type # ty
    <3>1. ~ Waits(i)'
      BY <2>1, <2>2, <2>3, <2>7 DEF Waits, Pending
    <3>2. published'[owned[i].type] = published[owned[i].type]
      BY <2>1, <2>5, <2>7 DEF TypeOK
    <3>3. QED
      BY <2>1, <2>4, <2>5, <3>1, <3>2, FanKept
  <2>8. QED
    BY <2>6, <2>7
<1>3. ASSUME NEW t \in Threads, PublishPush(t)
      PROVE  Fan(i)'
  <2> DEFINE c    == call[t]
             d    == call'[t]
             subs == subscribers[c.type]
             h    == subs[c.next]
  <2>1. /\ c \in PublishCall /\ c.next \in 1 .. Len(subs)
        /\ d \in PublishCall /\ d.type = c.type /\ d.next = c.next + 1
        /\ subscribers' = subscribers /\ published' = published
        /\ \A u \in Threads \ {t} : call'[u] = call[u]
    BY <1>3, PushEffect
  <2>2. c.op = "publish" /\ d.op = "publish" /\ c.type \in Types
    BY <2>1 DEF PublishCall
  <2>3. \A u \in Threads \ {t} : call[u].op # "publish" /\ call'[u].op # "publish"
    BY <2>1, <2>2, OthersIdle, HolderInside
  <2>4. /\ h \in 1 .. Len(owned) /\ owned[h].type = c.type /\ c.event \in Event
        /\ Len(owned') = Len(owned) /\ owned'[h] = Pushed(owned[h], c.event)
        /\ \A j \in 1 .. Len(owned) : j # h => owned'[j] = owned[j]
    BY <1>3, PushedOwned
  <2>5. \A j \in 1 .. Len(subs) : subs[j] = h => j = c.next
    BY <2>1, <2>2, ListedOnce
  <2>6. i \in 1 .. Len(owned) /\ Fan(i) /\ owned[i] \in Queue
    BY <1>0, <2>4
  <2>7. /\ Waits(i) <=> Pending(t, i)
        /\ Waits(i)' <=> Pending(t, i)'
    BY <2>3 DEF Waits, Pending
  <2>8. CASE i = h
    <3>1. Pending(t, i)
      <4>1. owned[i].type = c.type /\ i = subs[c.next]
        BY <2>4, <2>8
      <4>2. /\ c.next >= c.next /\ c.next \in 1 .. Len(subscribers[owned[i].type])
            /\ subscribers[owned[i].type][c.next] = i
        BY <2>1, <4>1
      <4>3. QED
        BY <2>2, <4>1, <4>2 DEF Pending
    <3>2. /\ owned'[i].type = c.type /\ owned'[i].since = owned[i].since
          /\ owned'[i].closed = owned[i].closed
          /\ ~ owned[i].closed => owned'[i].received = owned[i].received + 1
      <4>1. owned'[i] = Pushed(owned[i], c.event) /\ owned[i].type = c.type
        BY <2>4, <2>8
      <4> DEFINE p == Pushed(owned[i], c.event)
      <4>2. /\ p.type = owned[i].type /\ p.since = owned[i].since
            /\ p.closed = owned[i].closed
            /\ ~ owned[i].closed => p.received = owned[i].received + 1
        BY <2>4, <2>6, PushedQueue
      <4> HIDE DEF p
      <4>3. owned'[i] = p
        BY <4>1 DEF p
      <4>4. QED
        BY <4>1, <4>2, <4>3
    <3>3. ~ Pending(t, i)'
      <4>1. \A k \in 1 .. Len(subs) : subs[k] = i => ~ (k >= c.next + 1)
        BY <2>1, <2>5, <2>8
      <4>2. QED
        BY <2>1, <3>2, <4>1 DEF Pending
    <3>4. owned[i].since + owned[i].received + 1 = published[c.type] \/ owned[i].closed
      BY <2>4, <2>6, <2>7, <2>8, <3>1 DEF Fan
    <3>5. owned[i].since \in Nat /\ owned[i].received \in Nat
      BY <2>6 DEF Queue
    <3>6. owned'[i].since + owned'[i].received = published'[owned'[i].type] \/ owned'[i].closed
      BY <2>1, <3>2, <3>4, <3>5, SMTT(30)
    <3>7. QED
      BY <2>7, <3>3, <3>6 DEF Fan
  <2>9. CASE i # h
    <3>1. owned'[i] = owned[i]
      BY <2>4, <2>6, <2>9
    <3>2. CASE owned[i].type = c.type
      <4>1. \A k \in 1 .. Len(subs) :
              subs[k] = i => (k >= c.next <=> k >= c.next + 1)
        <5>1. c.next \in Nat
          BY <2>1
        <5>2. \A k \in 1 .. Len(subs) : subs[k] = i => k # c.next
          BY <2>9
        <5>3. QED
          BY <5>1, <5>2
      <4>2. Pending(t, i)' <=> Pending(t, i)
        BY <2>1, <2>2, <3>1, <3>2, <4>1 DEF Pending
      <4>3. QED
        BY <2>1, <2>6, <2>7, <3>1, <4>2, FanKept
    <3>3. CASE owned[i].type # c.type
      <4>1. ~ Pending(t, i)' /\ ~ Pending(t, i)
        BY <2>1, <3>1, <3>3 DEF Pending
      <4>2. QED
        BY <2>1, <2>6, <2>7, <3>1, <4>1, FanKept
    <3>4. QED
      BY <3>2, <3>3
  <2>10. QED
    BY <2>8, <2>9
<1>4. ASSUME NEW t \in Threads, PublishEnd(t)
      PROVE  Fan(i)'
  <2>1. /\ owned' = owned /\ published' = published /\ call' = [call EXCEPT ![t] = Idle]
        /\ call[t].op = "publish" /\ call[t].next > Len(subscribers[call[t].type])
    BY <1>4 DEF PublishEnd
  <2>2. \A u \in Threads \ {t} : call[u].op # "publish"
    BY <2>1, OthersIdle, HolderInside
  <2>3. \A u \in Threads : call'[u].op # "publish"
    BY <2>1, <2>2 DEF TypeOK, Idle
  <2>4. ~ Waits(i)'
    BY <2>3 DEF Waits, Pending
  <2>5. ~ Pending(t, i)
    <3>1. call[t] \in PublishCall
      BY <2>1, CallKinds DEF TypeOK
    <3>2. call[t].next \in Nat /\ Len(subscribers[call[t].type]) \in Nat
      BY <3>1 DEF PublishCall, TypeOK
    <3>3. \A k \in 1 .. Len(subscribers[call[t].type]) : ~ (k >= call[t].next)
      BY <2>1, <3>2
    <3>4. QED
      BY <3>3 DEF Pending
  <2>6. ~ Waits(i)
    BY <2>2, <2>5 DEF Waits, Pending
  <2>7. QED
    BY <1>0, <2>1, <2>4, <2>6, FanKept
<1>5. ASSUME NEW t \in Threads, NEW c, c.op # "publish", call[t].op # "publish",
             call' = [call EXCEPT ![t] = c], UNCHANGED subscribers,
             i \in 1 .. Len(owned), owned'[i].type = owned[i].type
      PROVE  Waits(i)' <=> Waits(i)
  <2>1. \A u \in Threads : call'[u] = call[u] \/ (call'[u].op # "publish" /\ call[u].op # "publish")
    BY <1>5 DEF TypeOK
  <2>2. QED
    BY <1>5, <2>1 DEF Waits, Pending
<1>6. ASSUME NEW t \in Threads, CloseAllBegin(t) \/ CloseAllEnd(t)
      PROVE  Fan(i)'
  <2>1. Waits(i)' <=> Waits(i)
    BY <1>5, <1>6 DEF CloseAllBegin, CloseAllEnd, Idle
  <2>2. QED
    BY <1>6, <1>0, <2>1, FanKept DEF CloseAllBegin, CloseAllEnd
<1>7. ASSUME NEW t \in Threads, CloseAllStep(t)
      PROVE  Fan(i)'
  <2> DEFINE c == [call[t] EXCEPT !.next = @ + 1]
  <2>1. call[t] \in CloseCall
    BY <1>7, CallKinds DEF TypeOK, CloseAllStep
  <2>2. c.op # "publish" /\ call[t].op # "publish"
    BY <2>1 DEF CloseCall
  <2>3. call' = [call EXCEPT ![t] = c] /\ subscribers' = subscribers /\ published' = published
    BY <1>7 DEF CloseAllStep
  <2> HIDE DEF c
  <2>4. /\ i \in 1 .. Len(owned)
        /\ owned'[i] = owned[i] \/ owned'[i] = [owned[i] EXCEPT !.closed = TRUE]
    BY <1>7, ClosedOwned
  <2>5. /\ owned'[i].type = owned[i].type /\ owned'[i].since = owned[i].since
        /\ owned'[i].received = owned[i].received
        /\ owned[i].closed => owned'[i].closed
    BY <1>0, <2>4 DEF Queue
  <2>6. QED
    BY <1>5, <1>0, <2>2, <2>3, <2>4, <2>5, FanKept
<1>8. ASSUME NEW h \in 1 .. Len(owned), Pop(h)
      PROVE  Fan(i)'
  <2>1. /\ i \in 1 .. Len(owned)
        /\ \/ owned'[i] = owned[i]
           \/ owned'[i] = [owned[i] EXCEPT !.items = Tail(@), !.taken = @ + 1]
    BY <1>8, PoppedOwned
  <2>2. /\ owned'[i].type = owned[i].type /\ owned'[i].since = owned[i].since
        /\ owned'[i].received = owned[i].received /\ owned'[i].closed = owned[i].closed
    BY <1>0, <2>1 DEF Queue
  <2>3. Waits(i)' <=> Waits(i)
    BY <1>8, <2>2 DEF Pop, Waits, Pending
  <2>4. QED
    BY <1>8, <1>0, <2>1, <2>2, <2>3, FanKept DEF Pop
<1>9. CASE UNCHANGED vars
  <2>1. Waits(i)' <=> Waits(i)
    BY <1>9 DEF vars, Waits, Pending
  <2>2. QED
    BY <1>9, <1>0, <2>1, FanKept DEF vars
<1>10. QED
  BY <1>1, <1>2, <1>3, <1>4, <1>6, <1>7, <1>8, <1>9 DEF Next, Progress

-----------------------------------------------------------------------------

\* OrderedWindow of one queue.
Window(q) ==
  /\ Len(q.items) <= q.cap
  /\ q.received = q.taken + q.dropped + Len(q.items)
  /\ \A k \in 1 .. Len(q.items) : q.items[k].n = q.since + q.taken + q.dropped + k

\* NoHollowEvent of one queue.
Intact(q) == \A k \in 1 .. Len(q.items) : q.items[k].intact

\* The counts of a window before and after a push.
LEMMA PushCounts ==
  ASSUME NEW q, NEW L \in Nat, q.cap \in Nat \ {0}, q.received \in Nat, q.taken \in Nat,
         q.dropped \in Nat, q.since \in Nat,
         L <= q.cap, q.received = q.taken + q.dropped + L
  PROVE  /\ L >= q.cap =>
              /\ L - 1 \in Nat /\ (L - 1) + 1 <= q.cap
              /\ \A k \in 1 .. L - 1 :
                   /\ k + 1 \in 1 .. L
                   /\ q.since + q.taken + q.dropped + (k + 1)
                        = q.since + q.taken + (q.dropped + 1) + k
              /\ q.since + q.received + 1
                   = q.since + q.taken + (q.dropped + 1) + ((L - 1) + 1)
              /\ q.received + 1 = q.taken + (q.dropped + 1) + ((L - 1) + 1)
         /\ ~ (L >= q.cap) =>
              /\ L + 1 <= q.cap
              /\ q.since + q.received + 1 = q.since + q.taken + q.dropped + (L + 1)
              /\ q.received + 1 = q.taken + q.dropped + (L + 1)
<1>1. L >= q.cap => L - 1 \in Nat /\ (L - 1) + 1 <= q.cap
  OBVIOUS
<1>2. \A k \in 1 .. L - 1 :
        /\ k + 1 \in 1 .. L
        /\ q.since + q.taken + q.dropped + (k + 1)
             = q.since + q.taken + (q.dropped + 1) + k
  OBVIOUS
<1>3. /\ q.since + q.received + 1
           = q.since + q.taken + (q.dropped + 1) + ((L - 1) + 1)
      /\ q.received + 1 = q.taken + (q.dropped + 1) + ((L - 1) + 1)
      /\ q.since + q.received + 1 = q.since + q.taken + q.dropped + (L + 1)
      /\ q.received + 1 = q.taken + q.dropped + (L + 1)
  OBVIOUS
<1>4. ~ (L >= q.cap) => L + 1 <= q.cap
  OBVIOUS
<1>5. QED
  BY <1>1, <1>2, <1>3, <1>4

\* The counts of a window before and after a pop.
LEMMA PopCounts ==
  ASSUME NEW q, NEW L \in Nat \ {0}, q.cap \in Nat, q.received \in Nat, q.taken \in Nat,
         q.dropped \in Nat, q.since \in Nat,
         L <= q.cap, q.received = q.taken + q.dropped + L
  PROVE  /\ L - 1 <= q.cap /\ q.received = (q.taken + 1) + q.dropped + (L - 1)
         /\ \A k \in 1 .. L - 1 :
              q.since + q.taken + q.dropped + (k + 1) = q.since + (q.taken + 1) + q.dropped + k
OBVIOUS

\* A push of the event that follows those received keeps the window: it drops
\* the oldest event of a full queue, and counts it.
LEMMA WindowPushed ==
  ASSUME NEW q \in Queue, NEW e \in Event, Window(q), Intact(q),
         ~ q.closed => e.n = q.since + q.received + 1 /\ e.intact
  PROVE  Window(Pushed(q, e)) /\ Intact(Pushed(q, e))
<1>1. CASE q.closed
  BY <1>1 DEF Pushed
<1>2. CASE ~ q.closed
  <2> DEFINE L       == Len(q.items)
             full    == L >= q.cap
             kept    == IF full THEN Tail(q.items) ELSE q.items
             dropped == IF full THEN q.dropped + 1 ELSE q.dropped
             base    == q.since + q.taken
             p       == Pushed(q, e)
  <2>1. /\ q.items \in Seq(Event) /\ q.cap \in Nat \ {0} /\ q.dropped \in Nat
        /\ q.received \in Nat /\ q.since \in Nat /\ q.taken \in Nat /\ L \in Nat
    BY DEF Queue
  <2>2. /\ L <= q.cap /\ q.received = q.taken + q.dropped + L
        /\ \A k \in 1 .. L : q.items[k].n = base + q.dropped + k
        /\ \A k \in 1 .. L : q.items[k].intact
    BY DEF Window, Intact
  <2>3. full => L # 0 /\ q.items # <<>>
    BY <2>1, EmptySeq
  <2>4. p = [q EXCEPT !.items = Append(kept, e), !.dropped = dropped,
                      !.received = q.received + 1]
    BY <1>2 DEF Pushed
  <2>5. /\ kept \in Seq(Event) /\ dropped \in Nat
        /\ Len(kept) = IF full THEN L - 1 ELSE L
        /\ \A k \in 1 .. Len(kept) : kept[k] = IF full THEN q.items[k + 1] ELSE q.items[k]
    BY <2>1, <2>3
  <2>6. /\ full => /\ Len(kept) = L - 1 /\ dropped = q.dropped + 1
                   /\ \A k \in 1 .. Len(kept) : kept[k] = q.items[k + 1]
        /\ ~ full => /\ Len(kept) = L /\ dropped = q.dropped
                     /\ \A k \in 1 .. Len(kept) : kept[k] = q.items[k]
    BY <2>5
  <2>7. /\ full =>
             /\ L - 1 \in Nat /\ (L - 1) + 1 <= q.cap
             /\ \A k \in 1 .. L - 1 :
                  /\ k + 1 \in 1 .. L
                  /\ base + q.dropped + (k + 1) = base + (q.dropped + 1) + k
             /\ q.since + q.received + 1 = base + (q.dropped + 1) + ((L - 1) + 1)
             /\ q.received + 1 = q.taken + (q.dropped + 1) + ((L - 1) + 1)
        /\ ~ full =>
             /\ L + 1 <= q.cap
             /\ q.since + q.received + 1 = base + q.dropped + (L + 1)
             /\ q.received + 1 = q.taken + q.dropped + (L + 1)
    <3>1. /\ q.cap \in Nat \ {0} /\ L \in Nat /\ q.received \in Nat /\ q.taken \in Nat
          /\ q.dropped \in Nat /\ q.since \in Nat
          /\ L <= q.cap /\ q.received = q.taken + q.dropped + L
      BY <2>1, <2>2
    <3> HIDE DEF L
    <3>2. QED
      BY <3>1, PushCounts
  <2> HIDE DEF kept, dropped, full, L
  <2>8. /\ Len(kept) \in Nat /\ Len(kept) + 1 <= q.cap
        /\ q.received + 1 = q.taken + dropped + (Len(kept) + 1)
        /\ e.n = base + dropped + (Len(kept) + 1)
    <3>1. CASE full
      BY <1>2, <2>6, <2>7, <3>1
    <3>2. CASE ~ full
      BY <1>2, <2>1, <2>6, <2>7, <3>2
    <3>3. QED
      BY <3>1, <3>2
  <2>9. \A k \in 1 .. Len(kept) : kept[k].n = base + dropped + k /\ kept[k].intact
    <3>1. CASE full
      <4>1. ASSUME NEW k \in 1 .. Len(kept)
            PROVE  kept[k].n = base + dropped + k /\ kept[k].intact
        <5>1. k + 1 \in 1 .. L /\ kept[k] = q.items[k + 1]
          BY <2>6, <2>7, <3>1
        <5>2. kept[k].n = base + q.dropped + (k + 1) /\ kept[k].intact
          BY <2>2, <5>1
        <5>3. base + q.dropped + (k + 1) = base + dropped + k
          BY <2>6, <2>7, <3>1
        <5>4. QED
          BY <5>2, <5>3
      <4>2. QED
        BY <4>1
    <3>2. CASE ~ full
      BY <2>2, <2>6, <3>2
    <3>3. QED
      BY <3>1, <3>2
  <2>10. /\ p.items = Append(kept, e) /\ p.dropped = dropped
         /\ p.received = q.received + 1 /\ p.taken = q.taken
         /\ p.since = q.since /\ p.cap = q.cap
    BY <2>4 DEF Queue
  <2>11. /\ Len(p.items) = Len(kept) + 1 /\ p.items[Len(kept) + 1] = e
         /\ \A k \in 1 .. Len(kept) : p.items[k] = kept[k]
    BY <2>5, <2>10
  <2> HIDE DEF p
  <2>12. \A k \in 1 .. Len(p.items) : k = Len(kept) + 1 \/ k \in 1 .. Len(kept)
    BY <2>8, <2>11
  <2>13. \A k \in 1 .. Len(p.items) : p.items[k].n = p.since + p.taken + p.dropped + k
    <3>1. ASSUME NEW k \in 1 .. Len(p.items)
          PROVE  p.items[k].n = base + dropped + k
      <4>1. CASE k = Len(kept) + 1
        BY <2>8, <2>11, <4>1
      <4>2. CASE k \in 1 .. Len(kept)
        BY <2>9, <2>11, <4>2
      <4>3. QED
        BY <2>12, <4>1, <4>2
    <3>2. QED
      BY <2>10, <3>1
  <2>14. \A k \in 1 .. Len(p.items) : p.items[k].intact
    BY <1>2, <2>9, <2>11, <2>12
  <2>15. Len(p.items) <= p.cap /\ p.received = p.taken + p.dropped + Len(p.items)
    BY <2>8, <2>10, <2>11
  <2>16. Window(p) /\ Intact(p)
    BY <2>13, <2>14, <2>15 DEF Window, Intact
  <2>17. QED
    BY <2>16 DEF p
<1>3. QED
  BY <1>1, <1>2

\* A pop keeps the window: it takes the oldest event, and counts it.
LEMMA WindowPopped ==
  ASSUME NEW q \in Queue, q.items # <<>>, Window(q), Intact(q),
         NEW p, p = [q EXCEPT !.items = Tail(@), !.taken = @ + 1]
  PROVE  Window(p) /\ Intact(p)
<1> DEFINE L == Len(q.items)
<1>1. /\ q.items \in Seq(Event) /\ q.dropped \in Nat /\ q.cap \in Nat
      /\ q.received \in Nat /\ q.since \in Nat /\ q.taken \in Nat /\ L \in Nat /\ L # 0
  BY EmptySeq DEF Queue
<1>2. /\ L <= q.cap /\ q.received = q.taken + q.dropped + L
      /\ \A k \in 1 .. L : q.items[k].n = q.since + q.taken + q.dropped + k
      /\ \A k \in 1 .. L : q.items[k].intact
  BY DEF Window, Intact
<1>3. /\ p.items = Tail(q.items) /\ p.taken = q.taken + 1 /\ p.dropped = q.dropped
      /\ p.received = q.received /\ p.since = q.since /\ p.cap = q.cap
  BY DEF Queue
<1>4. /\ Len(p.items) = L - 1
      /\ \A k \in 1 .. L - 1 : p.items[k] = q.items[k + 1]
  BY <1>1, <1>3
<1>5. \A k \in 1 .. L - 1 : k + 1 \in 1 .. L
  BY <1>1
<1>6. /\ L - 1 <= q.cap /\ q.received = (q.taken + 1) + q.dropped + (L - 1)
      /\ \A k \in 1 .. L - 1 :
           q.since + q.taken + q.dropped + (k + 1) = q.since + (q.taken + 1) + q.dropped + k
  <2>1. /\ q.cap \in Nat /\ L \in Nat \ {0} /\ q.received \in Nat /\ q.taken \in Nat
        /\ q.dropped \in Nat /\ q.since \in Nat
        /\ L <= q.cap /\ q.received = q.taken + q.dropped + L
    BY <1>1, <1>2
  <2> HIDE DEF L
  <2>2. QED
    BY <2>1, PopCounts
<1> HIDE DEF L
<1>7. \A k \in 1 .. L - 1 : p.items[k].n = p.since + p.taken + p.dropped + k
  BY <1>2, <1>3, <1>4, <1>5, <1>6
<1>8. \A k \in 1 .. L - 1 : p.items[k].intact
  BY <1>2, <1>4, <1>5
<1>9. Len(p.items) <= p.cap /\ p.received = p.taken + p.dropped + Len(p.items)
  BY <1>3, <1>4, <1>6
<1>10. QED
  BY <1>4, <1>7, <1>8, <1>9 DEF Window, Intact

\* OrderedWindow and NoHollowEvent together.
Windows == \A i \in 1 .. Len(owned) : Window(owned[i]) /\ Intact(owned[i])

\* Only a push adds to a queue, and the event it adds is the next one, whole.
LEMMA WindowStep ==
  TypeOK /\ Registry /\ InFlight /\ FanOutComplete /\ Windows /\ [Next]_vars => Windows'
<1> SUFFICES ASSUME TypeOK, Registry, InFlight, FanOutComplete, Windows, [Next]_vars,
                    NEW i \in 1 .. Len(owned')
             PROVE  Window(owned'[i]) /\ Intact(owned'[i])
  BY DEF Windows
<1>1. \A j \in 1 .. Len(owned) : /\ Window(owned[j]) /\ Intact(owned[j])
                                 /\ owned[j] \in Queue /\ Fan(j)
  BY FanOfEach DEF TypeOK, Windows
<1>2. ASSUME NEW t \in Threads, NEW ty \in Types, NEW cap \in Capacities,
             Subscribe(t, ty, cap)
      PROVE  Window(owned'[i]) /\ Intact(owned'[i])
  <2>1. /\ owned \in Seq(Queue) /\ Len(owned) \in Nat /\ NewQueue(ty, cap) \in Queue
        /\ owned' = Append(owned, NewQueue(ty, cap))
    BY <1>2, NewQueueType DEF TypeOK, Subscribe
  <2>2. \/ i \in 1 .. Len(owned) /\ owned'[i] = owned[i]
        \/ owned'[i] = NewQueue(ty, cap)
    BY <2>1
  <2>3. Window(NewQueue(ty, cap)) /\ Intact(NewQueue(ty, cap))
    <3>1. /\ NewQueue(ty, cap).items = <<>> /\ NewQueue(ty, cap).cap = cap
          /\ NewQueue(ty, cap).received = 0 /\ NewQueue(ty, cap).taken = 0
          /\ NewQueue(ty, cap).dropped = 0 /\ cap \in Nat
      BY BusAssumption DEF NewQueue
    <3>2. Len(<<>>) = 0
      OBVIOUS
    <3>3. QED
      BY <3>1, <3>2 DEF Window, Intact
  <2>4. QED
    BY <1>1, <2>2, <2>3
<1>3. ASSUME NEW t \in Threads, PublishPush(t)
      PROVE  Window(owned'[i]) /\ Intact(owned'[i])
  <2> DEFINE c == call[t]
             h == subscribers[c.type][c.next]
  <2>1. /\ h \in 1 .. Len(owned) /\ owned[h].type = c.type /\ c.event \in Event
        /\ Len(owned') = Len(owned) /\ owned'[h] = Pushed(owned[h], c.event)
        /\ \A j \in 1 .. Len(owned) : j # h => owned'[j] = owned[j]
    BY <1>3, PushedOwned
  <2>2. c \in PublishCall /\ c.next \in 1 .. Len(subscribers[c.type]) /\ c.op = "publish"
    BY <1>3, PushEffect DEF PublishPush
  <2>3. c.event.n = published[c.type] /\ c.event.intact
    <3>1. c.next <= Len(subscribers[c.type])
      BY <1>3 DEF PublishPush
    <3>2. QED
      BY <2>2, <3>1 DEF InFlight
  <2>4. Waits(h)
    <3>1. c.next >= c.next
      BY <2>2
    <3>2. Pending(t, h)
      BY <2>1, <2>2, <3>1 DEF Pending
    <3>3. QED
      BY <3>2 DEF Waits
  <2>5. owned[h].since + owned[h].received + 1 = published[c.type] \/ owned[h].closed
    BY <1>1, <2>1, <2>4 DEF Fan
  <2>6. ~ owned[h].closed => c.event.n = owned[h].since + owned[h].received + 1
                             /\ c.event.intact
    BY <2>3, <2>5
  <2>7. Window(Pushed(owned[h], c.event)) /\ Intact(Pushed(owned[h], c.event))
    BY <1>1, <2>1, <2>6, WindowPushed
  <2>8. QED
    BY <1>1, <2>1, <2>7
<1>4. ASSUME NEW t \in Threads, CloseAllStep(t)
      PROVE  Window(owned'[i]) /\ Intact(owned'[i])
  <2>1. /\ i \in 1 .. Len(owned)
        /\ owned'[i] = owned[i] \/ owned'[i] = [owned[i] EXCEPT !.closed = TRUE]
    BY <1>4, ClosedOwned
  <2>2. QED
    BY <1>1, <2>1 DEF Queue, Window, Intact
<1>5. ASSUME NEW h \in 1 .. Len(owned), Pop(h)
      PROVE  Window(owned'[i]) /\ Intact(owned'[i])
  <2>1. CASE i = h
    BY <1>1, <1>5, <2>1, PoppedOwned, WindowPopped
  <2>2. CASE i # h
    BY <1>1, <1>5, <2>2, PoppedOwned
  <2>3. QED
    BY <2>1, <2>2
<1>6. CASE owned' = owned
  BY <1>1, <1>6
<1>7. QED
  BY <1>2, <1>3, <1>4, <1>5, <1>6
  DEF Next, Progress, PublishBegin, CloseAllBegin, PublishEnd, CloseAllEnd, vars

-----------------------------------------------------------------------------

\* The bus is right one lock, one list and one count at a time: registry_mu_
\* lets one publisher in, the list names every queue once, so each push is of
\* the event that follows those its queue received.
BusInv == TypeOK /\ Registry /\ Mutex /\ InFlight /\ FanOutComplete /\ Windows

LEMMA BusInvInit == Init => BusInv
<1> SUFFICES ASSUME Init PROVE BusInv
  OBVIOUS
<1>1. Len(owned) = 0 /\ owned = <<>> /\ \A ty \in Types : Len(subscribers[ty]) = 0
  BY DEF Init
<1>2. TypeOK
  BY DEF Init, TypeOK, Call
<1>3. Registry /\ FanOutComplete /\ Windows
  BY <1>1 DEF Registry, FanOutComplete, Windows
<1>4. Mutex /\ InFlight
  BY BusAssumption DEF Init, Mutex, InFlight, Idle
<1>5. QED
  BY <1>2, <1>3, <1>4 DEF BusInv

LEMMA BusInvariant == Spec => []BusInv
<1>1. BusInv /\ [Next]_vars => BusInv'
  BY TypeCorrectStep, RegistryStep, MutexStep, InFlightStep, FanOutStep, WindowStep
  DEF BusInv
<1>2. QED
  BY BusInvInit, <1>1, PTL DEF Spec

\* Every state is well typed: in particular owned_ only ever holds queues, and
\* a publisher walks the subscribers of a type from the first on.
THEOREM TypeCorrect == Spec => []TypeOK
<1>1. BusInv => TypeOK
  BY DEF BusInv
<1>2. QED
  BY BusInvariant, <1>1, PTL

\* Every open queue received each event of its type published since it was
\* subscribed, once and in order, but for one that a publisher is fanning out:
\* publish() of include/event_bus.hpp neither skips a subscriber nor repeats.
THEOREM FanOutCompleteHolds == Spec => []FanOutComplete
<1>1. BusInv => FanOutComplete
  BY DEF BusInv
<1>2. QED
  BY BusInvariant, <1>1, PTL

\* A subscriber's queue is the window of the newest events it received, with
\* every older one popped or counted as dropped, whatever the others do.
THEOREM OrderedWindowHolds == Spec => []OrderedWindow
<1>1. BusInv => OrderedWindow
  BY DEF BusInv, Windows, Window, OrderedWindow
<1>2. QED
  BY BusInvariant, <1>1, PTL

\* publish() moves its event into the last queue only: no subscriber ever finds
\* a moved-from event.
THEOREM NoHollowEventHolds == Spec => []NoHollowEvent
<1>1. BusInv => NoHollowEvent
  BY DEF BusInv, Windows, Intact, NoHollowEvent
<1>2. QED
  BY BusInvariant, <1>1, PTL
=============================================================================
