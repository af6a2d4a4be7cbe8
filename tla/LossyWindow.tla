---------------------------- MODULE LossyWindow ----------------------------
(***************************************************************************)
(* What a BlockingQueue promises its clients, free of mutexes, condition   *)
(* variables and buffers.  Accepted items are numbered 1, 2, 3, ...; the   *)
(* queue is a window lo+1 .. hi of the newest of them.  Accepting an item  *)
(* moves the upper edge; when the window is full the lower edge moves with *)
(* it and the oldest item is lost.  A delivery takes the oldest item.      *)
(***************************************************************************)
EXTENDS Naturals

CONSTANTS
  Threads,     \* the clients
  Capacity,    \* widest window
  MaxPush      \* bound on accepted items

VARIABLES
  lo, hi,      \* the queue holds the items lo+1 .. hi
  shut,        \* no item is accepted any more
  out          \* out[t]: the last item delivered to t, 0 before the first

vars == <<lo, hi, shut, out>>

Init ==
  /\ lo = 0
  /\ hi = 0
  /\ shut = FALSE
  /\ out = [t \in Threads |-> 0]

Accept ==
  /\ ~shut
  /\ hi < MaxPush
  /\ hi' = hi + 1
  /\ lo' = IF hi - lo >= Capacity THEN lo + 1 ELSE lo
  /\ UNCHANGED <<shut, out>>

Deliver(t) ==
  /\ lo < hi
  /\ lo' = lo + 1
  /\ out' = [out EXCEPT ![t] = lo + 1]
  /\ UNCHANGED <<hi, shut>>

Shut ==
  /\ shut' = TRUE
  /\ UNCHANGED <<lo, hi, out>>

Next == Accept \/ Shut \/ \E t \in Threads : Deliver(t)

Spec == Init /\ [][Next]_vars
=============================================================================
