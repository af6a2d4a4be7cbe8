------------------------------ MODULE LogLine -------------------------------
(***************************************************************************)
(* include/log.hpp: a log line is an object on the stack of the thread     *)
(* that logs.  Its constructor, each << and its destructor are one stdio   *)
(* call each; stdio locks stderr for the length of a call.                 *)
(***************************************************************************)
EXTENDS Naturals, Sequences

CONSTANTS
  Threads,     \* threads that log
  MaxLines     \* bound: lines begun

VARIABLES
  open,        \* the thread's LogLine exists
  stderr       \* what was written: by whom, and which part of a line

vars == <<open, stderr>>

Init == open = [t \in Threads |-> FALSE] /\ stderr = <<>>

Write(t, part) == stderr' = Append(stderr, [by |-> t, part |-> part])
Begun          == Len(SelectSeq(stderr, LAMBDA w : w.part = "prefix"))

Construct(t) ==
  /\ ~open[t] /\ Begun < MaxLines
  /\ open' = [open EXCEPT ![t] = TRUE]
  /\ Write(t, "prefix")

Put(t) ==
  /\ open[t] /\ Len(stderr) < 3 * MaxLines
  /\ Write(t, "text")
  /\ UNCHANGED open

Destruct(t) ==
  /\ open[t]
  /\ open' = [open EXCEPT ![t] = FALSE]
  /\ Write(t, "newline")

Next == \E t \in Threads : Construct(t) \/ Put(t) \/ Destruct(t)
Spec == Init /\ [][Next]_vars

\* log.hpp, comments: a line is written by one fprintf and is atomic.  In what is
\* written a line begins after the end of another and its parts follow one another.
LinesWhole ==
  \A i \in 2 .. Len(stderr) :
    IF stderr[i].part = "prefix" THEN stderr[i - 1].part = "newline"
                                 ELSE stderr[i - 1].by = stderr[i].by
=============================================================================
