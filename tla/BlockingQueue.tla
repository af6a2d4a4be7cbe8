--------------------------- MODULE BlockingQueue ---------------------------
(***************************************************************************)
(* include/blocking_queue.hpp: the bounded queue that is the only channel  *)
(* between threads.  A critical section of mu_ is one step; notify_one and *)
(* notify_all run after the unlock and are steps of their own.  A thread   *)
(* parked in cv_.wait or cv_.wait_for leaves the wait set when notified,   *)
(* spuriously, or (wait_for) at its deadline, and then takes mu_ again to  *)
(* re-evaluate the predicate.  Items are their acceptance numbers.         *)
(***************************************************************************)
EXTENDS Naturals, Sequences, FiniteSets

CONSTANTS
  Threads,     \* threads that call the queue
  Capacity,    \* capacity_
  MaxPush      \* bound: items accepted in a behaviour

ASSUME QueueAssumption ==
  /\ IsFiniteSet(Threads)
  /\ Capacity \in Nat \ {0}
  /\ MaxPush \in Nat

VARIABLES
  items,       \* items_
  dropped,     \* dropped_
  closed,      \* closed_
  pc,          \* where each thread is in the queue's code
  out,         \* out[t]: the item t's last successful pop moved out, or 0
  pushed,      \* history: items accepted so far
  popped       \* history: items moved out so far

vars == <<items, dropped, closed, pc, out, pushed, popped>>

Parked  == {"popWait", "popForWait"}
Woken   == {"popWake", "popForWake", "popForExpired"}
PcState == {"idle", "notifyOne", "notifyAll"} \cup Parked \cup Woken

Waiters   == {t \in Threads : pc[t] \in Parked}
Awake     == {t \in Threads : pc[t] \in Woken}
Notifiers == {t \in Threads : pc[t] = "notifyOne"}

\* A notified or spuriously woken thread stays in its own call.
Unpark(p) == CASE p = "popWait"    -> "popWake"
               [] p = "popForWait" -> "popForWake"
               [] OTHER            -> p

Init ==
  /\ items = <<>>
  /\ dropped = 0
  /\ closed = FALSE
  /\ pc = [t \in Threads |-> "idle"]
  /\ out = [t \in Threads |-> 0]
  /\ pushed = 0
  /\ popped = 0

Goto(t, p) == pc' = [pc EXCEPT ![t] = p]

----------------------------------------------------------------------------
(* Faulty variants of the operations below, for the properties to reject.  *)

\* The drop counter runs backwards.
PushMiscounts(t) ==
  /\ pc[t] = "idle" /\ ~closed /\ pushed < MaxPush
  /\ LET full == Len(items) >= Capacity IN
       /\ items' = Append(IF full THEN Tail(items) ELSE items, pushed + 1)
       /\ dropped' = IF full THEN dropped - 1 ELSE dropped
  /\ pushed' = pushed + 1
  /\ Goto(t, "notifyOne")
  /\ UNCHANGED <<closed, out, popped>>

\* Sets closed_ and forgets to notify.
CloseSilently(t) ==
  /\ pc[t] = "idle"
  /\ closed' = TRUE
  /\ UNCHANGED <<items, dropped, pc, out, pushed, popped>>

\* Takes the newest element.
TakeNewest(t) ==
  /\ items # <<>>
  /\ out' = [out EXCEPT ![t] = items[Len(items)]]
  /\ items' = SubSeq(items, 1, Len(items) - 1)
  /\ popped' = popped + 1
  /\ Goto(t, "idle")
  /\ UNCHANGED <<dropped, closed, pushed>>

\* The deadline is restarted by every wake-up: a woken thread cannot expire.
ExpireOnlyParked(t) ==
  /\ pc[t] = "popForWait"
  /\ Goto(t, "popForExpired")
  /\ UNCHANGED <<items, dropped, closed, out, pushed, popped>>

\* The timeout is reported without evaluating the predicate once more.
GiveUpUnchecked(t) ==
  /\ pc[t] \in Woken
  /\ (items = <<>> /\ closed) \/ pc[t] = "popForExpired"
  /\ Goto(t, "idle")
  /\ UNCHANGED <<items, dropped, closed, out, pushed, popped>>

----------------------------------------------------------------------------
(* push: on a closed queue it returns at once and changes nothing.         *)

Push(t) ==
  /\ pc[t] = "idle"
  /\ ~closed
  /\ pushed < MaxPush
  /\ LET full == Len(items) >= Capacity IN
       /\ items' = Append(IF full THEN Tail(items) ELSE items, pushed + 1)
       /\ dropped' = IF full THEN dropped + 1 ELSE dropped
  /\ pushed' = pushed + 1
  /\ Goto(t, "notifyOne")
  /\ UNCHANGED <<closed, out, popped>>

NotifyOne(t) ==
  /\ pc[t] = "notifyOne"
  /\ \/ /\ Waiters = {}
        /\ Goto(t, "idle")
     \/ \E w \in Waiters :
          pc' = [pc EXCEPT ![t] = "idle", ![w] = Unpark(pc[w])]
  /\ UNCHANGED <<items, dropped, closed, out, pushed, popped>>

----------------------------------------------------------------------------
(* close                                                                   *)

Close(t) ==
  /\ pc[t] = "idle"
  /\ closed' = TRUE
  /\ Goto(t, "notifyAll")
  /\ UNCHANGED <<items, dropped, out, pushed, popped>>

NotifyAll(t) ==
  /\ pc[t] = "notifyAll"
  /\ pc' = [w \in Threads |-> IF w = t THEN "idle" ELSE Unpark(pc[w])]
  /\ UNCHANGED <<items, dropped, closed, out, pushed, popped>>

----------------------------------------------------------------------------
(* pop and pop_for: on an empty closed queue both return false at once.    *)

Take(t) ==
  /\ items # <<>>
  /\ out' = [out EXCEPT ![t] = Head(items)]
  /\ items' = Tail(items)
  /\ popped' = popped + 1
  /\ Goto(t, "idle")
  /\ UNCHANGED <<dropped, closed, pushed>>

Pop(t) == pc[t] = "idle" /\ Take(t)

Block(t) ==
  /\ pc[t] = "idle"
  /\ items = <<>>
  /\ ~closed
  /\ \E p \in Parked : Goto(t, p)
  /\ UNCHANGED <<items, dropped, closed, out, pushed, popped>>

SpuriousWake(t) ==
  /\ pc[t] \in Parked
  /\ Goto(t, Unpark(pc[t]))
  /\ UNCHANGED <<items, dropped, closed, out, pushed, popped>>

\* The deadline of pop_for passes, before or after a notification.
Expire(t) ==
  /\ pc[t] \in {"popForWait", "popForWake"}
  /\ Goto(t, "popForExpired")
  /\ UNCHANGED <<items, dropped, closed, out, pushed, popped>>

Retake(t) == pc[t] \in Woken /\ Take(t)

WaitAgain(t) ==
  /\ items = <<>>
  /\ ~closed
  /\ \/ pc[t] = "popWake"    /\ Goto(t, "popWait")
     \/ pc[t] = "popForWake" /\ Goto(t, "popForWait")
  /\ UNCHANGED <<items, dropped, closed, out, pushed, popped>>

\* Return false: the queue is drained and closed, or the deadline passed.
GiveUp(t) ==
  /\ pc[t] \in Woken
  /\ items = <<>>
  /\ closed \/ pc[t] = "popForExpired"
  /\ Goto(t, "idle")
  /\ UNCHANGED <<items, dropped, closed, out, pushed, popped>>

----------------------------------------------------------------------------

\* What a thread does once it is runnable inside a call.
Resume(t) ==
  NotifyOne(t) \/ NotifyAll(t) \/ Retake(t) \/ WaitAgain(t) \/ GiveUp(t)

Next ==
  \E t \in Threads :
    \/ Push(t) \/ Close(t) \/ Pop(t) \/ Block(t)
    \/ SpuriousWake(t) \/ Expire(t) \/ Resume(t)

Spec == Init /\ [][Next]_vars

\* A runnable thread gets the processor and mu_; deadlines pass.  Nobody is
\* obliged to call push, pop or close.
Fairness == \A t \in Threads : WF_vars(Resume(t)) /\ WF_vars(Expire(t))

FairSpec == Spec /\ Fairness

----------------------------------------------------------------------------

TypeOK ==
  /\ items \in Seq(Nat)
  /\ dropped \in Nat
  /\ closed \in BOOLEAN
  /\ pc \in [Threads -> PcState]
  /\ out \in [Threads -> Nat]
  /\ pushed \in Nat
  /\ popped \in Nat

\* The queue holds exactly the newest accepted items, oldest first, never
\* more than capacity_; every other accepted item was popped or is counted
\* in dropped_ (blocking_queue.hpp: "drop the oldest", dropped()).
Accounting ==
  /\ Len(items) <= Capacity
  /\ \A i \in 1 .. Len(items) : items[i] = popped + dropped + i
  /\ pushed = popped + dropped + Len(items)

\* What one thread got last no other thread got last, however their pops and
\* wake-ups interleave, and it has left the queue.  (ImplementsWindow has the
\* pops of all time: each takes the oldest item, once.)
NoDoubleDelivery ==
  /\ \A t \in Threads : out[t] <= popped + dropped
  /\ \A t, u \in Threads : t # u /\ out[t] = out[u] => out[t] = 0

\* While a thread is parked, each item in the queue is matched by a thread
\* that is on its way to take one: woken, or about to be notified.
WakeupBudget ==
  Waiters # {} => Len(items) <= Cardinality(Awake) + Cardinality(Notifiers)

\* A parked thread and an available item never coexist with nobody left to
\* bring them together: notify_one is never lost to a timeout, to a thief
\* that popped without waiting, or to a push that replaced the oldest item.
NoLostWakeup ==
  (Awake = {} /\ Notifiers = {} /\ Waiters # {}) => items = <<>>

\* After close() no thread stays parked once the closing thread has finished
\* notify_all.
CloseReachesWaiters ==
  (closed /\ Waiters # {}) => \E t \in Threads : pc[t] = "notifyAll"

\* pop and pop_for return false only on an empty queue, even when the
\* deadline and a push race; pop (untimed) only if it is also closed.
PopFails(t) == pc[t] \in Woken /\ pc'[t] = "idle" /\ popped' = popped
FailsOnlyWhenEmpty ==
  [][\A t \in Threads :
       PopFails(t) => items = <<>> /\ (pc[t] = "popWake" => closed)]_vars

\* An item that a parked thread could have is not left there: it leaves the
\* queue, or no thread is parked any more.
ItemReachesWaiter ==
  \A k \in 1 .. MaxPush :
    (pushed >= k /\ Waiters # {}) ~> (popped + dropped >= k \/ Waiters = {})

\* pop_for returns whatever the other threads do; after close(), so does pop.
PopsReturn ==
  \A t \in Threads :
    /\ (pc[t] \in {"popForWait", "popForWake", "popForExpired"}) ~> (pc[t] = "idle")
    /\ (closed /\ pc[t] \in {"popWait", "popWake"}) ~> (pc[t] = "idle")

\* The queue implements the sliding window of LossyWindow.
Window == INSTANCE LossyWindow
            WITH lo <- popped + dropped, hi <- pushed, shut <- closed
ImplementsWindow == Window!Spec
=============================================================================
