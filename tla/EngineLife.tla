----------------------------- MODULE EngineLife -----------------------------
(***************************************************************************)
(* What main may rely on in an engine: the life of an object with start(), *)
(* stop() and a thread of its own that uses a resource (a device, models,  *)
(* an NPU handle).  AudioCapture, AsrEngine and RkllmEngine implement it;  *)
(* SoundRecv composes three of them.                                       *)
(***************************************************************************)
CONSTANTS
  SelfLoading,   \* the thread acquires the resource; start() waits for it
  MayGiveUp      \* the thread may end although nobody asked it to

VARIABLES
  phase,         \* of the object: "off" until start() returns
  thread,        \* "none", "running" or "exited"
  held           \* the resource is acquired

life == <<phase, thread, held>>

Init == phase = "off" /\ thread = "none" /\ held = FALSE

\* start() acquires the resource, then launches the thread.
Acquire ==
  /\ ~SelfLoading /\ phase = "off" /\ thread = "none"
  /\ held' = TRUE
  /\ UNCHANGED <<phase, thread>>

Launch ==
  /\ ~SelfLoading /\ phase = "off" /\ thread = "none"
  /\ thread' = "running" /\ phase' = "serving" /\ held' = TRUE

\* Or the thread is launched first and acquires it.
LaunchLoader ==
  /\ SelfLoading /\ phase = "off" /\ thread = "none"
  /\ thread' = "running"
  /\ UNCHANGED <<phase, held>>

Load ==
  /\ SelfLoading /\ phase = "off" /\ thread = "running" /\ ~held
  /\ held' = TRUE
  /\ UNCHANGED <<phase, thread>>

LoadFails ==
  /\ SelfLoading /\ phase = "off" /\ thread = "running" /\ ~held
  /\ thread' = "exited"
  /\ UNCHANGED <<phase, held>>

Loaded ==
  /\ SelfLoading /\ phase = "off" /\ thread = "running" /\ held
  /\ phase' = "serving"
  /\ UNCHANGED <<thread, held>>

\* start() returns false, with no thread and nothing held.
Fail ==
  /\ phase = "off" /\ thread # "running"
  /\ phase' = "failed" /\ held' = FALSE
  /\ UNCHANGED thread

GiveUp ==
  /\ MayGiveUp /\ phase \in {"serving", "stopping"} /\ thread = "running"
  /\ thread' = "exited"
  /\ UNCHANGED <<phase, held>>

RequestStop == phase = "serving" /\ phase' = "stopping" /\ UNCHANGED <<thread, held>>

\* The thread ends, and may release the resource itself.
Exit ==
  /\ phase = "stopping" /\ thread = "running"
  /\ thread' = "exited"
  /\ held' \in {held, FALSE}
  /\ UNCHANGED phase

\* stop() returns: the thread has ended, then the resource was released.
Stopped ==
  /\ phase = "stopping" /\ thread = "exited"
  /\ phase' = "stopped" /\ held' = FALSE
  /\ UNCHANGED thread

StartReturns == thread # "none" /\ (Loaded \/ LoadFails \/ Fail)

Next == \/ Acquire \/ Launch \/ LaunchLoader \/ Load \/ LoadFails \/ Loaded \/ Fail
        \/ GiveUp \/ RequestStop \/ Exit \/ Stopped

Spec == Init /\ [][Next]_life

\* A start() or stop() that waits for the thread returns.
FairSpec == Spec /\ WF_life(StartReturns) /\ WF_life(Exit) /\ WF_life(Stopped)
=============================================================================
