----------------------------- MODULE SoundRecv ------------------------------
(***************************************************************************)
(* src/main.cpp: the program.  main starts the engines, the slow ones      *)
(* first, waits for a signal or for --run-seconds, and stops them in the   *)
(* opposite order; with --test-prompt it starts the LLM alone, asks one    *)
(* question and waits for its end.  The engines run as EngineLife says     *)
(* and pass events on; what waits in a queue is counted.                   *)
(***************************************************************************)
EXTENDS Naturals, Sequences

CONSTANTS
  ChunkCapacity,   \* of AsrEngine::chunk_q_
  PromptCapacity,  \* of RkllmEngine::prompt_q_
  DoneCapacity,    \* of done_q
  MaxChunks        \* bound: chunks captured

ASSUME SoundAssumption ==
  /\ ChunkCapacity \in Nat \ {0} /\ PromptCapacity \in Nat \ {0}
  /\ DoneCapacity \in Nat \ {0} /\ MaxChunks \in Nat

VARIABLES
  cli,             \* the modes asked for
  main,            \* main's position
  status,          \* exit status, once decided
  to_stop,         \* engines whose stop() main has yet to call or finish
  phase,           \* of each engine: see EngineLife
  thread,
  held,
  signal,          \* SIGINT or SIGTERM is pending (they are blocked)
  g_auto_stop,
  chunk_q,
  heard,           \* the VAD holds speech that is not decoded
  prompt_q,
  answering,       \* rkllm_run is in progress
  subscribed,      \* done_q is registered
  done_q,
  chunks,          \* history: chunks captured
  outcome          \* history: how the last round ended

mainVars   == <<cli, main, status, to_stop>>
lifeVars   == <<phase, thread, held>>
signalVars == <<signal, g_auto_stop>>
asrVars    == <<chunk_q, heard, chunks>>
llmVars    == <<prompt_q, answering, subscribed, done_q, outcome>>
vars       == <<mainVars, lifeVars, signalVars, asrVars, llmVars>>

Engines == {"capture", "asr", "llm"}
CliArgs == [no_llm : BOOLEAN, test_prompt : BOOLEAN, run_seconds : BOOLEAN]

Init ==
  /\ cli = [no_llm |-> FALSE, test_prompt |-> FALSE, run_seconds |-> FALSE]
  /\ main = "parse_args" /\ status = 0 /\ to_stop = <<>>
  /\ phase = [e \in Engines |-> "off"]
  /\ thread = [e \in Engines |-> "none"]
  /\ held = [e \in Engines |-> FALSE]
  /\ signal = FALSE /\ g_auto_stop = FALSE
  /\ chunk_q = 0 /\ heard = FALSE /\ chunks = 0
  /\ prompt_q = 0 /\ answering = FALSE /\ outcome = "none"
  /\ subscribed = FALSE /\ done_q = 0

Goto(from, to) == main = from /\ main' = to

\* Faulty variant of the next definition: a queue that does not drop.
PushedUnbounded(q, capacity) == q + 1

\* Events in a queue after push(); a full one drops its oldest.
Pushed(q, capacity) == IF q = capacity THEN q ELSE q + 1

\* start() of e: it failed, or it returned true with a thread that serves.
Fails(e)  == phase' = [phase EXCEPT ![e] = "failed"] /\ UNCHANGED <<thread, held>>
Serves(e) == /\ phase' = [phase EXCEPT ![e] = "serving"]
             /\ thread' = [thread EXCEPT ![e] = "running"]
             /\ held' = [held EXCEPT ![e] = TRUE]

\* main calls stop() of the engines of order and returns st; the destructors of
\* its locals call stop() again, the last declared first.
Destructors == <<"llm", "asr", "capture">>
Leave(st, order) ==
  /\ main' = "stopping"
  /\ status' = st
  /\ to_stop' = order \o Destructors

----------------------------------------------------------------------------
(* Faulty variants of the steps below, for the properties to reject.       *)

\* The engines are stopped in the order in which they were started.
StopInStartOrder == <<"llm", "asr", "capture">>

\* sigwait in place of polling: g_auto_stop is not looked at.
PollSignalOnly ==
  /\ main = "poll" /\ signal
  /\ signal' = FALSE
  /\ Leave(0, <<"capture", "asr", "llm">>)
  /\ UNCHANGED <<cli, lifeVars, g_auto_stop, asrVars, llmVars>>

\* done_q is created, but not by bus.subscribe.
SubscribeDoneForgets ==
  /\ Goto("subscribe", "publish")
  /\ UNCHANGED <<cli, status, to_stop, lifeVars, signalVars, asrVars, llmVars>>

\* stop() does not wait for the thread.
JoinDetaches ==
  /\ main = "stopping" /\ to_stop # <<>>
  /\ LET e == Head(to_stop) IN
       /\ phase[e] = "stopping"
       /\ phase' = [phase EXCEPT ![e] = "stopped"]
       /\ held' = [held EXCEPT ![e] = FALSE]
  /\ to_stop' = Tail(to_stop)
  /\ UNCHANGED <<cli, main, status, thread, signalVars, asrVars, llmVars>>

\* The ASR thread ends without a flush.
AsrExitUnflushed ==
  /\ thread["asr"] = "running" /\ phase["asr"] = "stopping"
  /\ thread' = [thread EXCEPT !["asr"] = "exited"]
  /\ held' = [held EXCEPT !["asr"] = FALSE]
  /\ UNCHANGED <<mainVars, phase, signalVars, asrVars, llmVars>>

----------------------------------------------------------------------------
(* main: the command line                                                  *)

\* --help, an unknown option or a missing value.
UsageExits ==
  /\ Goto("parse_args", "exited")
  /\ status' \in {0, 2}
  /\ UNCHANGED <<cli, to_stop, lifeVars, signalVars, asrVars, llmVars>>

\* From here on the signals are blocked.
ParseArgs ==
  /\ Goto("parse_args", "start_llm")
  /\ cli' \in CliArgs
  /\ UNCHANGED <<status, to_stop, lifeVars, signalVars, asrVars, llmVars>>

RejectModes ==
  /\ main = "start_llm" /\ cli.test_prompt /\ cli.no_llm
  /\ Leave(2, <<>>)
  /\ UNCHANGED <<cli, lifeVars, signalVars, asrVars, llmVars>>

----------------------------------------------------------------------------
(* main: starting the engines                                              *)

SkipLlm ==
  /\ Goto("start_llm", "start_asr") /\ cli.no_llm /\ ~cli.test_prompt
  /\ UNCHANGED <<cli, status, to_stop, lifeVars, signalVars, asrVars, llmVars>>

StartLlm ==
  /\ main = "start_llm" /\ ~cli.no_llm
  /\ \/ /\ Serves("llm")
        /\ main' = IF cli.test_prompt THEN "subscribe" ELSE "start_asr"
        /\ UNCHANGED <<status, to_stop>>
     \/ Fails("llm") /\ Leave(1, <<>>)
  /\ UNCHANGED <<cli, signalVars, asrVars, llmVars>>

\* A model file is missing, or the thread is launched to load the models.
StartAsr ==
  /\ main = "start_asr"
  /\ \/ /\ thread' = [thread EXCEPT !["asr"] = "running"]
        /\ main' = "await_asr"
        /\ UNCHANGED <<phase, held, status, to_stop>>
     \/ Fails("asr") /\ Leave(1, <<"llm">>)
  /\ UNCHANGED <<cli, signalVars, asrVars, llmVars>>

AwaitAsr ==
  /\ main = "await_asr"
  /\ \/ /\ thread["asr"] = "running" /\ held["asr"] /\ Serves("asr")
        /\ main' = "start_capture"
        /\ UNCHANGED <<status, to_stop>>
     \/ thread["asr"] = "exited" /\ Fails("asr") /\ Leave(1, <<"llm">>)
  /\ UNCHANGED <<cli, signalVars, asrVars, llmVars>>

StartCapture ==
  /\ main = "start_capture"
  /\ \/ Serves("capture") /\ main' = "poll" /\ UNCHANGED <<status, to_stop>>
     \/ Fails("capture") /\ Leave(1, <<"asr", "llm">>)
  /\ UNCHANGED <<cli, signalVars, asrVars, llmVars>>

----------------------------------------------------------------------------
(* main: waiting, with a poll of the signals, and stopping                 *)

ShutdownOrder == <<"capture", "asr", "llm">>

\* A pending signal is consumed; one that comes after sigtimedwait is not.
Poll ==
  /\ main = "poll"
  /\ \/ signal /\ signal' = FALSE
     \/ g_auto_stop /\ UNCHANGED signal
  /\ Leave(0, ShutdownOrder)
  /\ UNCHANGED <<cli, lifeVars, g_auto_stop, asrVars, llmVars>>

\* stop() of the next engine: nothing to join, or set the flag and then join.
SkipStop ==
  /\ main = "stopping" /\ to_stop # <<>>
  /\ phase[Head(to_stop)] \notin {"serving", "stopping"}
  /\ to_stop' = Tail(to_stop)
  /\ UNCHANGED <<cli, main, status, lifeVars, signalVars, asrVars, llmVars>>

RequestStop ==
  /\ main = "stopping" /\ to_stop # <<>>
  /\ phase[Head(to_stop)] = "serving"
  /\ phase' = [phase EXCEPT ![Head(to_stop)] = "stopping"]
  /\ UNCHANGED <<mainVars, thread, held, signalVars, asrVars, llmVars>>

Join ==
  /\ main = "stopping" /\ to_stop # <<>>
  /\ LET e == Head(to_stop) IN
       /\ phase[e] = "stopping" /\ thread[e] = "exited"
       /\ phase' = [phase EXCEPT ![e] = "stopped"]
       /\ held' = [held EXCEPT ![e] = FALSE]
  /\ to_stop' = Tail(to_stop)
  /\ UNCHANGED <<cli, main, status, thread, signalVars, asrVars, llmVars>>

Return ==
  /\ Goto("stopping", "exited") /\ to_stop = <<>>
  /\ UNCHANGED <<cli, status, to_stop, lifeVars, signalVars, asrVars, llmVars>>

----------------------------------------------------------------------------
(* main: --test-prompt                                                     *)

SubscribeDone ==
  /\ Goto("subscribe", "publish")
  /\ subscribed' = TRUE
  /\ UNCHANGED <<cli, status, to_stop, lifeVars, signalVars, asrVars,
                 prompt_q, answering, done_q, outcome>>

PublishPrompt ==
  /\ Goto("publish", "await_done")
  /\ prompt_q' = Pushed(prompt_q, PromptCapacity)
  /\ UNCHANGED <<cli, status, to_stop, lifeVars, signalVars, asrVars,
                 answering, subscribed, done_q, outcome>>

\* done_q->pop_for, then sigtimedwait, each with a timeout.
AwaitDone ==
  /\ main = "await_done"
  /\ \/ done_q = 0 /\ main' = "await_signal" /\ UNCHANGED <<status, to_stop, done_q>>
     \/ done_q > 0 /\ Leave(0, <<"llm">>) /\ done_q' = done_q - 1
  /\ UNCHANGED <<cli, lifeVars, signalVars, asrVars, prompt_q, answering, subscribed, outcome>>

AwaitSignal ==
  /\ main = "await_signal"
  /\ \/ ~signal /\ main' = "await_done" /\ UNCHANGED <<status, to_stop, signal>>
     \/ signal /\ Leave(0, <<"llm">>) /\ signal' = FALSE
  /\ UNCHANGED <<cli, lifeVars, g_auto_stop, asrVars, llmVars>>

----------------------------------------------------------------------------
(* The engines' threads                                                    *)

Exits(e) ==
  /\ thread[e] = "running" /\ phase[e] = "stopping"
  /\ thread' = [thread EXCEPT ![e] = "exited"]

\* A chunk is read and published; the flag may already be set.
CaptureChunk ==
  /\ thread["capture"] = "running" /\ chunks < MaxChunks
  /\ chunks' = chunks + 1
  /\ chunk_q' = Pushed(chunk_q, ChunkCapacity)
  /\ UNCHANGED <<mainVars, lifeVars, signalVars, heard, llmVars>>

CaptureExits ==
  /\ Exits("capture")
  /\ UNCHANGED <<mainVars, phase, held, signalVars, asrVars, llmVars>>

\* Too many failures: Error is published, to which nobody subscribes.
CaptureGivesUp ==
  /\ thread["capture"] = "running"
  /\ thread' = [thread EXCEPT !["capture"] = "exited"]
  /\ UNCHANGED <<mainVars, phase, held, signalVars, asrVars, llmVars>>

AsrLoads ==
  /\ thread["asr"] = "running" /\ phase["asr"] = "off" /\ ~held["asr"]
  /\ \/ held' = [held EXCEPT !["asr"] = TRUE] /\ UNCHANGED thread
     \/ thread' = [thread EXCEPT !["asr"] = "exited"] /\ UNCHANGED held
  /\ UNCHANGED <<mainVars, phase, signalVars, asrVars, llmVars>>

AsrLoop == thread["asr"] = "running" /\ held["asr"]

\* A chunk of silence, or of speech.
Hear ==
  /\ AsrLoop /\ chunk_q > 0
  /\ chunk_q' = chunk_q - 1
  /\ heard' \in {heard, TRUE}
  /\ UNCHANGED <<mainVars, lifeVars, signalVars, chunks, llmVars>>

\* A segment, complete or flushed, goes through transcribe(); its text is published
\* unless it is empty, as it also is when no stream could be created.
Recognize ==
  /\ AsrLoop /\ heard
  /\ heard' = FALSE
  /\ prompt_q' \in {prompt_q, IF cli.no_llm THEN prompt_q
                              ELSE Pushed(prompt_q, PromptCapacity)}
  /\ UNCHANGED <<mainVars, lifeVars, signalVars, chunk_q, chunks,
                 answering, subscribed, done_q, outcome>>

\* What the VAD holds is flushed and decoded first.
AsrExits ==
  /\ Exits("asr") /\ ~heard
  /\ held' = [held EXCEPT !["asr"] = FALSE]
  /\ UNCHANGED <<mainVars, phase, signalVars, asrVars, llmVars>>

BeginAnswer ==
  /\ thread["llm"] = "running" /\ ~answering /\ prompt_q > 0
  /\ answering' = TRUE /\ prompt_q' = prompt_q - 1
  /\ UNCHANGED <<mainVars, lifeVars, signalVars, asrVars, subscribed, done_q, outcome>>

\* The round ends with LlmDone, or with Error, to which nobody subscribes.
EndAnswer ==
  /\ answering /\ answering' = FALSE
  /\ \/ outcome' = "done"
        /\ done_q' = IF subscribed THEN Pushed(done_q, DoneCapacity) ELSE done_q
     \/ outcome' = "error" /\ UNCHANGED done_q
  /\ UNCHANGED <<mainVars, lifeVars, signalVars, asrVars, prompt_q, subscribed>>

LlmExits ==
  /\ Exits("llm") /\ ~answering
  /\ UNCHANGED <<mainVars, phase, held, signalVars, asrVars, llmVars>>

----------------------------------------------------------------------------
(* The world outside                                                       *)

Signal ==
  /\ main \notin {"parse_args", "exited"}
  /\ signal' = TRUE
  /\ UNCHANGED <<mainVars, lifeVars, g_auto_stop, asrVars, llmVars>>

\* The detached thread that --run-seconds starts once all engines serve.
AutoStop ==
  /\ cli.run_seconds /\ phase["capture"] # "off" /\ phase["capture"] # "failed"
  /\ main # "exited"
  /\ g_auto_stop' = TRUE
  /\ UNCHANGED <<mainVars, lifeVars, signal, asrVars, llmVars>>

----------------------------------------------------------------------------

Main == \/ UsageExits \/ ParseArgs \/ RejectModes \/ SkipLlm \/ StartLlm \/ StartAsr
        \/ AwaitAsr \/ StartCapture \/ Poll \/ SkipStop \/ RequestStop \/ Join \/ Return
        \/ SubscribeDone \/ PublishPrompt \/ AwaitDone \/ AwaitSignal
Capture == CaptureChunk \/ CaptureExits \/ CaptureGivesUp
Asr     == AsrLoads \/ Hear \/ Recognize \/ AsrExits
Llm     == BeginAnswer \/ EndAnswer \/ LlmExits

Next == Main \/ Capture \/ Asr \/ Llm \/ Signal \/ AutoStop

Spec == Init /\ [][Next]_vars

\* main and the threads of the ASR and the LLM run; the timer of --run-seconds
\* expires.  Nobody need speak or send a signal.  Of the capture thread nothing
\* is assumed: it looks at the stop flag only when the device lets it.
FairSpec ==
  /\ Spec
  /\ WF_vars(Main) /\ WF_vars(Asr) /\ WF_vars(Llm)
  /\ WF_vars(AutoStop)

----------------------------------------------------------------------------

Positions == {"parse_args", "start_llm", "subscribe", "publish", "await_done",
              "await_signal", "start_asr", "await_asr", "start_capture", "poll",
              "stopping", "exited"}
Phases    == {"off", "serving", "stopping", "stopped", "failed"}

TypeOK ==
  /\ cli \in CliArgs /\ main \in Positions /\ status \in {0, 1, 2}
  /\ to_stop \in Seq(Engines)
  /\ phase \in [Engines -> Phases]
  /\ thread \in [Engines -> {"none", "running", "exited"}]
  /\ held \in [Engines -> BOOLEAN]
  /\ signal \in BOOLEAN /\ g_auto_stop \in BOOLEAN
  /\ heard \in BOOLEAN /\ answering \in BOOLEAN /\ subscribed \in BOOLEAN
  /\ chunk_q \in 0 .. ChunkCapacity /\ prompt_q \in 0 .. PromptCapacity
  /\ done_q \in 0 .. DoneCapacity /\ chunks \in Nat
  /\ outcome \in {"none", "done", "error"}

\* Whoever may still publish has a consumer that serves and was not asked to
\* stop: the microphone opens last and closes first, the LLM outlives the ASR,
\* on the way up, on every failure on the way, and on the way down.
ConsumersOutliveProducers ==
  /\ thread["capture"] = "running" => phase["asr"] = "serving" /\ AsrLoop
  /\ (AsrLoop /\ ~cli.no_llm) => phase["llm"] = "serving" /\ thread["llm"] = "running"

\* Whatever the VAD has heard went through transcribe() before the LLM is told to
\* stop: the ASR's flush is over by then.  Chunks still in chunk_q_ were not heard.
HeardIsDecodedFirst == phase["llm"] \in {"stopping", "stopped"} => ~heard

\* However main leaves, no thread is left and nothing is held, and the status
\* tells whether some engine failed to start.
ReturnsClean ==
  main = "exited" =>
    /\ \A e \in Engines : thread[e] # "running" /\ ~held[e]
    /\ status = 1 <=> \E e \in Engines : phase[e] = "failed"

\* main is in the join of capture.stop(), the flag set, the thread not out of its
\* loop: in a read, or in the resume of a suspended device, which has no exit.
AwaitsCapture ==
  /\ main = "stopping" /\ to_stop # <<>> /\ Head(to_stop) = "capture"
  /\ phase["capture"] = "stopping" /\ thread["capture"] = "running"

\* The program ends after a signal, whenever that comes (while models load, in
\* mid-answer, with a capture thread that gave up), and after --run-seconds,
\* unless the device never lets the capture thread go: main stays nowhere else.
SignalEndsProgram ==
  (signal \/ (cli.run_seconds /\ main = "poll"))
     ~> (main = "exited" \/ []AwaitsCapture)

\* main and the threads treat each engine as EngineLife says, which is what the
\* modules of the engines are shown to implement.
Life(e) == INSTANCE EngineLife WITH
             SelfLoading <- (e = "asr"), MayGiveUp <- (e = "capture"),
             phase <- phase[e], thread <- thread[e], held <- held[e]
EnginesUsedProperly ==
  /\ \A e \in Engines : Life(e)!Init
  /\ [][\A e \in Engines : Life(e)!Next \/ UNCHANGED <<phase[e], thread[e], held[e]>>]_lifeVars

\* With --test-prompt the end of the answer is never missed, however short the
\* answer: done_q is registered before the prompt is published.
DoneNotMissed ==
  (outcome = "done" /\ main \in {"await_done", "await_signal"}) => done_q > 0

\* main.cpp, help text and comment: with --test-prompt the program exits by
\* itself once generation has ended.  (main waits for LlmDone only.)
ExitsByItself == (cli.test_prompt /\ outcome # "none") ~> (main = "exited")
=============================================================================
