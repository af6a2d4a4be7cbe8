------------------------------ MODULE EventBus ------------------------------
(***************************************************************************)
(* include/event_bus.hpp: publish/subscribe without a dispatcher thread.   *)
(* The publishing thread holds registry_mu_ and pushes the event into the  *)
(* queue of every subscriber of its type, copying it for all but the last  *)
(* and moving it into the last.  Consumers pop without that lock, between  *)
(* any two pushes.  Each push and pop is one step: BlockingQueue shows     *)
(* that a queue behaves as the window used here.                           *)
(***************************************************************************)
EXTENDS Naturals, Sequences

CONSTANTS
  Threads,      \* threads that call the bus
  NoThread,     \* nobody holds registry_mu_
  Types,        \* EventType
  Capacities,   \* capacities that subscribers ask for
  MaxQueues,    \* bound: subscriptions in a behaviour
  MaxEvents     \* bound: events published of each type

ASSUME BusAssumption ==
  /\ NoThread \notin Threads
  /\ Capacities \subseteq Nat \ {0}
  /\ MaxQueues \in Nat
  /\ MaxEvents \in Nat

VARIABLES
  holder,       \* owner of registry_mu_
  owned,        \* owned_: the queues, with history fields (see Queue)
  subscribers,  \* subscribers_[type]: indices into owned_
  call,         \* what each thread is doing inside the bus
  published     \* history: events of each type that entered publish()

vars == <<holder, owned, subscribers, call, published>>

\* An event is its number among those of its type; a moved-from one is hollow.
Event == [n : Nat, intact : BOOLEAN]

\* since: events of the type published before the subscription;
\* received, taken: events that entered the queue and that were popped.
Queue == [type : Types, cap : Nat \ {0}, items : Seq(Event), dropped : Nat,
          closed : BOOLEAN, since : Nat, received : Nat, taken : Nat]

Idle == [op |-> "none"]
Call == {Idle}
        \cup [op : {"publish"}, type : Types, event : Event, next : Nat \ {0}]
        \cup [op : {"closeAll"}, next : Nat \ {0}]

NewQueue(ty, cap) ==
  [type |-> ty, cap |-> cap, items |-> <<>>, dropped |-> 0, closed |-> FALSE,
   since |-> published[ty], received |-> 0, taken |-> 0]

\* Faulty variant of push: the drop counter runs backwards.
PushedMiscounts(q, e) ==
  LET full == Len(q.items) >= q.cap IN
  IF q.closed THEN q
  ELSE [q EXCEPT !.items    = Append(IF full THEN Tail(@) ELSE @, e),
                 !.dropped  = IF full THEN @ - 1 ELSE @,
                 !.received = @ + 1]

\* BlockingQueue::push on the queue q.
Pushed(q, e) ==
  LET full == Len(q.items) >= q.cap IN
  IF q.closed THEN q
  ELSE [q EXCEPT !.items    = Append(IF full THEN Tail(@) ELSE @, e),
                 !.dropped  = IF full THEN @ + 1 ELSE @,
                 !.received = @ + 1]

Init ==
  /\ holder = NoThread
  /\ owned = <<>>
  /\ subscribers = [ty \in Types |-> <<>>]
  /\ call = [t \in Threads |-> Idle]
  /\ published = [ty \in Types |-> 0]

Lock(t)   == holder = NoThread /\ holder' = t
Unlock(t) == holder = t /\ holder' = NoThread

----------------------------------------------------------------------------
(* Faulty variants of the operations below.                                *)

\* publish walks the subscribers without registry_mu_.
PublishBeginUnlocked(t, ty) ==
  /\ call[t] = Idle
  /\ published[ty] < MaxEvents
  /\ published' = [published EXCEPT ![ty] = @ + 1]
  /\ call' = [call EXCEPT ![t] =
       [op |-> "publish", type |-> ty, next |-> 1,
        event |-> [n |-> published[ty] + 1, intact |-> TRUE]]]
  /\ UNCHANGED <<holder, owned, subscribers>>

\* The event is moved into the first queue.
PublishPushMovesFirst(t) ==
  /\ call[t].op = "publish"
  /\ call[t].next <= Len(subscribers[call[t].type])
  /\ LET i == subscribers[call[t].type][call[t].next] IN
       owned' = [owned EXCEPT ![i] = Pushed(@, call[t].event)]
  /\ call' = [call EXCEPT ![t].next = @ + 1, ![t].event.intact = FALSE]
  /\ UNCHANGED <<holder, subscribers, published>>

\* push waits for room in a full queue.
PublishPushBlocks(t) ==
  /\ call[t].op = "publish"
  /\ call[t].next <= Len(subscribers[call[t].type])
  /\ LET i == subscribers[call[t].type][call[t].next] IN
       /\ Len(owned[i].items) < owned[i].cap
       /\ owned' = [owned EXCEPT ![i] = Pushed(@, call[t].event)]
  /\ call' = [call EXCEPT ![t].next = @ + 1]
  /\ UNCHANGED <<holder, subscribers, published>>

----------------------------------------------------------------------------
(* subscribe: nobody sees a state inside its critical section.             *)

Subscribe(t, ty, cap) ==
  /\ call[t] = Idle
  /\ holder = NoThread
  /\ Len(owned) < MaxQueues
  /\ owned' = Append(owned, NewQueue(ty, cap))
  /\ subscribers' = [subscribers EXCEPT ![ty] = Append(@, Len(owned) + 1)]
  /\ UNCHANGED <<holder, call, published>>

----------------------------------------------------------------------------
(* publish                                                                 *)

PublishBegin(t, ty) ==
  /\ call[t] = Idle
  /\ published[ty] < MaxEvents
  /\ Lock(t)
  /\ published' = [published EXCEPT ![ty] = @ + 1]
  /\ call' = [call EXCEPT ![t] =
       [op |-> "publish", type |-> ty, next |-> 1,
        event |-> [n |-> published[ty] + 1, intact |-> TRUE]]]
  /\ UNCHANGED <<owned, subscribers>>

PublishPush(t) ==
  /\ call[t].op = "publish"
  /\ LET c    == call[t]
         subs == subscribers[c.type]
     IN /\ c.next <= Len(subs)
        /\ owned' = [owned EXCEPT ![subs[c.next]] = Pushed(@, c.event)]
        /\ call' = [call EXCEPT ![t].next = c.next + 1,
                                ![t].event.intact = c.next < Len(subs)]
  /\ UNCHANGED <<holder, subscribers, published>>

PublishEnd(t) ==
  /\ call[t].op = "publish"
  /\ call[t].next > Len(subscribers[call[t].type])
  /\ Unlock(t)
  /\ call' = [call EXCEPT ![t] = Idle]
  /\ UNCHANGED <<owned, subscribers, published>>

----------------------------------------------------------------------------
(* close_all                                                               *)

CloseAllBegin(t) ==
  /\ call[t] = Idle
  /\ Lock(t)
  /\ call' = [call EXCEPT ![t] = [op |-> "closeAll", next |-> 1]]
  /\ UNCHANGED <<owned, subscribers, published>>

CloseAllStep(t) ==
  /\ call[t].op = "closeAll"
  /\ call[t].next <= Len(owned)
  /\ owned' = [owned EXCEPT ![call[t].next].closed = TRUE]
  /\ call' = [call EXCEPT ![t].next = @ + 1]
  /\ UNCHANGED <<holder, subscribers, published>>

CloseAllEnd(t) ==
  /\ call[t].op = "closeAll"
  /\ call[t].next > Len(owned)
  /\ Unlock(t)
  /\ call' = [call EXCEPT ![t] = Idle]
  /\ UNCHANGED <<owned, subscribers, published>>

----------------------------------------------------------------------------
(* A subscriber pops from its queue.                                       *)

Pop(i) ==
  /\ owned[i].items # <<>>
  /\ owned' = [owned EXCEPT ![i].items = Tail(@), ![i].taken = @ + 1]
  /\ UNCHANGED <<holder, subscribers, call, published>>

----------------------------------------------------------------------------

\* The steps of a thread that holds registry_mu_.
Progress(t) ==
  \/ PublishPush(t) \/ PublishEnd(t)
  \/ CloseAllStep(t) \/ CloseAllEnd(t)

Next ==
  \/ \E t \in Threads :
       \/ \E ty \in Types, cap \in Capacities : Subscribe(t, ty, cap)
       \/ \E ty \in Types : PublishBegin(t, ty)
       \/ CloseAllBegin(t)
       \/ Progress(t)
  \/ \E i \in 1 .. Len(owned) : Pop(i)

Spec == Init /\ [][Next]_vars

\* A thread inside the bus runs on.  Nothing obliges a consumer to pop.
FairSpec == Spec /\ \A t \in Threads : WF_vars(Progress(t))

----------------------------------------------------------------------------

TypeOK ==
  /\ holder \in Threads \cup {NoThread}
  /\ owned \in Seq(Queue)
  /\ subscribers \in [Types -> Seq(Nat)]
  /\ call \in [Threads -> Call]
  /\ published \in [Types -> Nat]

\* The publication of thread t is still to reach the queue i.
Pending(t, i) ==
  /\ call[t].op = "publish"
  /\ call[t].type = owned[i].type
  /\ \E k \in 1 .. Len(subscribers[owned[i].type]) :
       k >= call[t].next /\ subscribers[owned[i].type][k] = i

\* Every open queue received each event of its type published since it was
\* subscribed, once, but for the one a publisher is fanning out right now:
\* no event overtakes, skips or repeats itself on the way to a subscriber,
\* however threads publish, subscribe and close at the same time.
FanOutComplete ==
  \A i \in 1 .. Len(owned) :
    LET q == owned[i]
        here == q.since + q.received
    IN IF \E t \in Threads : Pending(t, i)
       THEN here + 1 = published[q.type] \/ q.closed
       ELSE here = published[q.type] \/ q.closed

\* A queue holds the newest events it received, in the order of publication;
\* the rest were popped or counted as dropped.  One slow subscriber costs
\* another subscriber of the type nothing.
OrderedWindow ==
  \A i \in 1 .. Len(owned) :
    LET q == owned[i] IN
      /\ Len(q.items) <= q.cap
      /\ q.received = q.taken + q.dropped + Len(q.items)
      /\ \A k \in 1 .. Len(q.items) :
           q.items[k].n = q.since + q.taken + q.dropped + k

\* No subscriber finds a moved-from event in its queue.
NoHollowEvent ==
  \A i \in 1 .. Len(owned) :
    \A k \in 1 .. Len(owned[i].items) : owned[i].items[k].intact

\* registry_mu_ is always released again although no consumer need ever pop:
\* a full queue does not hold up the publisher, and thereby all the others.
RegistryReleased == (holder # NoThread) ~> (holder = NoThread)
=============================================================================
