-------------------------- MODULE SoundRecvProofs ---------------------------
(***************************************************************************)
(* Theorems about SoundRecv for every capacity of the queues and every     *)
(* number of chunks.                                                       *)
(***************************************************************************)
EXTENDS SoundRecv, SequenceTheorems, TLAPS

\* The steps of the engines' threads and of the world outside, and what they
\* leave alone: the frame that the proofs below share.
Others == Capture \/ Asr \/ Llm \/ Signal \/ AutoStop

LEMMA OthersFrame == Others => UNCHANGED <<mainVars, phase>>
BY DEF Others, Capture, CaptureChunk, CaptureExits, CaptureGivesUp, Asr, AsrLoads, Hear,
       Recognize, AsrExits, Llm, BeginAnswer, EndAnswer, LlmExits, Signal, AutoStop,
       lifeVars

\* Of the steps of main only PublishPrompt and AwaitDone touch the queues.
LEMMA MainFrame ==
  Main => /\ UNCHANGED <<asrVars, answering, outcome, g_auto_stop>>
          /\ main' # "await_done" => UNCHANGED prompt_q
BY DEF Main, UsageExits, ParseArgs, RejectModes, SkipLlm, StartLlm, StartAsr, AwaitAsr,
       StartCapture, Poll, SkipStop, RequestStop, Join, Return, SubscribeDone,
       PublishPrompt, AwaitDone, AwaitSignal, Leave, Goto, asrVars, llmVars, signalVars

-----------------------------------------------------------------------------

\* A bounded queue stays within its capacity, and is not empty after a push.
LEMMA PushedType ==
  ASSUME NEW capacity \in Nat \ {0}, NEW q \in 0 .. capacity
  PROVE  Pushed(q, capacity) \in 0 .. capacity /\ Pushed(q, capacity) > 0
BY DEF Pushed

LEMMA LeaveType ==
  ASSUME NEW st \in {0, 1, 2}, NEW order \in Seq(Engines), Leave(st, order)
  PROVE  main' \in Positions /\ status' \in {0, 1, 2} /\ to_stop' \in Seq(Engines)
<1>1. Destructors \in Seq(Engines)
  BY DEF Destructors, Engines
<1>2. order \o Destructors \in Seq(Engines)
  BY <1>1
<1>3. QED
  BY <1>2 DEF Leave, Positions

LEMMA TypeCorrectStep == TypeOK /\ [Next]_vars => TypeOK'
<1> SUFFICES ASSUME TypeOK, [Next]_vars PROVE TypeOK'
  OBVIOUS
<1> USE DEF TypeOK
<1>0. /\ Pushed(chunk_q, ChunkCapacity) \in 0 .. ChunkCapacity
      /\ Pushed(prompt_q, PromptCapacity) \in 0 .. PromptCapacity
      /\ Pushed(done_q, DoneCapacity) \in 0 .. DoneCapacity
  <2>1. /\ ChunkCapacity \in Nat \ {0} /\ chunk_q \in 0 .. ChunkCapacity
        /\ PromptCapacity \in Nat \ {0} /\ prompt_q \in 0 .. PromptCapacity
        /\ DoneCapacity \in Nat \ {0} /\ done_q \in 0 .. DoneCapacity
    BY SoundAssumption
  <2>2. QED
    BY <2>1, PushedType
<1>1. CASE UsageExits \/ ParseArgs \/ SkipLlm \/ Return \/ SubscribeDone
  BY <1>1, ZenonT(40) DEF UsageExits, ParseArgs, SkipLlm, Return, SubscribeDone, Goto, Positions,
     lifeVars, signalVars, asrVars, llmVars
<1>2. CASE RejectModes \/ Poll \/ AwaitSignal
  <2>1. \/ main' = "await_done" /\ UNCHANGED <<status, to_stop>>
        \/ Leave(2, <<>>) \/ Leave(0, ShutdownOrder) \/ Leave(0, <<"llm">>)
    BY <1>2 DEF RejectModes, Poll, AwaitSignal
  <2>2. ShutdownOrder \in Seq(Engines) /\ <<"llm">> \in Seq(Engines) /\ <<>> \in Seq(Engines)
    BY DEF ShutdownOrder, Engines
  <2>3. main' \in Positions /\ status' \in {0, 1, 2} /\ to_stop' \in Seq(Engines)
    BY <2>1, <2>2, LeaveType DEF Positions
  <2>4. QED
    BY <1>2, <2>3 DEF RejectModes, Poll, AwaitSignal, lifeVars, signalVars, asrVars, llmVars
<1>3. CASE StartLlm \/ StartAsr \/ AwaitAsr \/ StartCapture
  <2>1. \/ main' \in Positions /\ UNCHANGED <<status, to_stop>>
        \/ Leave(1, <<>>) \/ Leave(1, <<"llm">>) \/ Leave(1, <<"asr", "llm">>)
    BY <1>3 DEF StartLlm, StartAsr, AwaitAsr, StartCapture, Positions
  <2>2. <<>> \in Seq(Engines) /\ <<"llm">> \in Seq(Engines) /\ <<"asr", "llm">> \in Seq(Engines)
    BY DEF Engines
  <2>3. main' \in Positions /\ status' \in {0, 1, 2} /\ to_stop' \in Seq(Engines)
    BY <2>1, <2>2, LeaveType
  <2>4. /\ phase' \in [Engines -> Phases]
        /\ thread' \in [Engines -> {"none", "running", "exited"}]
        /\ held' \in [Engines -> BOOLEAN]
    BY <1>3 DEF StartLlm, StartAsr, AwaitAsr, StartCapture, Serves, Fails, Phases
  <2>5. QED
    BY <1>3, <2>3, <2>4 DEF StartLlm, StartAsr, AwaitAsr, StartCapture, signalVars,
       asrVars, llmVars
<1>4. CASE SkipStop \/ RequestStop \/ Join
  <2>1. to_stop' \in Seq(Engines)
    <3>1. \/ to_stop' = to_stop
          \/ to_stop # <<>> /\ to_stop' = Tail(to_stop)
      BY <1>4 DEF SkipStop, RequestStop, Join, mainVars
    <3>2. QED
      BY <3>1
  <2>2. /\ phase' \in [Engines -> Phases]
        /\ thread' \in [Engines -> {"none", "running", "exited"}]
        /\ held' \in [Engines -> BOOLEAN]
    BY <1>4 DEF SkipStop, RequestStop, Join, Phases, lifeVars
  <2>3. QED
    BY <1>4, <2>1, <2>2 DEF SkipStop, RequestStop, Join, mainVars, signalVars, asrVars,
       llmVars
<1>5. CASE PublishPrompt
  BY <1>0, <1>5 DEF PublishPrompt, Goto, Positions, lifeVars,
     signalVars, asrVars
<1>6. CASE AwaitDone
  <2>1. \/ main' = "await_signal" /\ UNCHANGED <<status, to_stop, done_q>>
        \/ Leave(0, <<"llm">>) /\ done_q > 0 /\ done_q' = done_q - 1
    BY <1>6 DEF AwaitDone
  <2>2. <<"llm">> \in Seq(Engines)
    BY DEF Engines
  <2>3. main' \in Positions /\ status' \in {0, 1, 2} /\ to_stop' \in Seq(Engines)
    BY <2>1, <2>2, LeaveType DEF Positions
  <2>4. done_q' \in 0 .. DoneCapacity
    BY <2>1, SoundAssumption
  <2>5. QED
    BY <1>6, <2>3, <2>4 DEF AwaitDone, lifeVars, signalVars, asrVars
<1>7. CASE Capture
  <2>1. /\ thread' \in [Engines -> {"none", "running", "exited"}]
        /\ UNCHANGED <<mainVars, phase, held, signalVars, heard, llmVars>>
    BY <1>7 DEF Capture, CaptureChunk, CaptureExits, CaptureGivesUp, Exits, lifeVars,
       asrVars
  <2>2. /\ chunk_q' \in {chunk_q, Pushed(chunk_q, ChunkCapacity)}
        /\ chunks' \in {chunks, chunks + 1}
    BY <1>7 DEF Capture, CaptureChunk, CaptureExits, CaptureGivesUp, asrVars
  <2>3. QED
    BY <1>0, <2>1, <2>2 DEF mainVars, signalVars, llmVars
<1>8. CASE Asr
  <2>1. /\ thread' \in [Engines -> {"none", "running", "exited"}]
        /\ held' \in [Engines -> BOOLEAN] /\ phase' = phase
    BY <1>8 DEF Asr, AsrLoads, Hear, Recognize, AsrExits, Exits, lifeVars
  <2>2. heard' \in BOOLEAN /\ chunk_q' \in 0 .. ChunkCapacity /\ chunks' \in Nat
    <3>1. /\ chunks' = chunks
          /\ chunk_q' # chunk_q => chunk_q > 0 /\ chunk_q' = chunk_q - 1
      BY <1>8 DEF Asr, AsrLoads, Hear, Recognize, AsrExits, asrVars
    <3>2. heard' \in BOOLEAN
      BY <1>8 DEF Asr, AsrLoads, Hear, Recognize, AsrExits, asrVars
    <3>3. QED
      BY <3>1, <3>2, SoundAssumption
  <2>3. prompt_q' \in 0 .. PromptCapacity
    <3>1. prompt_q' \in {prompt_q, Pushed(prompt_q, PromptCapacity)}
      BY <1>8 DEF Asr, AsrLoads, Hear, Recognize, AsrExits, llmVars
    <3>2. QED
      BY <1>0, <3>1
  <2>4. UNCHANGED <<mainVars, signalVars, answering, subscribed, done_q, outcome>>
    BY <1>8 DEF Asr, AsrLoads, Hear, Recognize, AsrExits, llmVars
  <2>5. QED
    BY <2>1, <2>2, <2>3, <2>4 DEF mainVars, signalVars
<1>9. CASE Llm
  <2>1. /\ thread' \in [Engines -> {"none", "running", "exited"}]
        /\ UNCHANGED <<mainVars, phase, held, signalVars, asrVars, subscribed>>
    BY <1>9 DEF Llm, BeginAnswer, EndAnswer, LlmExits, Exits, lifeVars, llmVars
  <2>2. /\ prompt_q' \in 0 .. PromptCapacity /\ answering' \in BOOLEAN
        /\ outcome' \in {"none", "done", "error"}
    <3>1. /\ prompt_q' # prompt_q => prompt_q > 0 /\ prompt_q' = prompt_q - 1
          /\ outcome' \in {outcome, "done", "error"}
      BY <1>9 DEF Llm, BeginAnswer, EndAnswer, LlmExits, llmVars
    <3>2. answering' \in BOOLEAN
      BY <1>9 DEF Llm, BeginAnswer, EndAnswer, LlmExits, llmVars
    <3>3. QED
      BY <3>1, <3>2, SoundAssumption
  <2>3. done_q' \in 0 .. DoneCapacity
    <3>1. done_q' \in {done_q, Pushed(done_q, DoneCapacity)}
      BY <1>9 DEF Llm, BeginAnswer, EndAnswer, LlmExits, llmVars
    <3>2. QED
      BY <1>0, <3>1
  <2>4. QED
    BY <2>1, <2>2, <2>3 DEF mainVars, signalVars, asrVars
<1>10. CASE Signal \/ AutoStop \/ UNCHANGED vars
  BY <1>10, ZenonT(40) DEF Signal, AutoStop, vars, mainVars, lifeVars, signalVars, asrVars, llmVars
<1>11. QED
  BY <1>1, <1>2, <1>3, <1>4, <1>5, <1>6, <1>7, <1>8, <1>9, <1>10 DEF Next, Main

\* Type correctness: the positions of main, the life of each engine, the queues
\* within their capacities.
THEOREM TypeCorrect == Spec => []TypeOK
<1>1. Init => TypeOK
  <2> SUFFICES ASSUME Init PROVE TypeOK
    OBVIOUS
  <2>1. cli \in CliArgs /\ to_stop \in Seq(Engines)
    BY DEF Init, CliArgs
  <2>2. /\ phase \in [Engines -> Phases]
        /\ thread \in [Engines -> {"none", "running", "exited"}]
        /\ held \in [Engines -> BOOLEAN]
    BY DEF Init, Phases
  <2>3. chunk_q \in 0 .. ChunkCapacity /\ prompt_q \in 0 .. PromptCapacity
        /\ done_q \in 0 .. DoneCapacity /\ chunks \in Nat
    BY SoundAssumption DEF Init
  <2>4. QED
    BY <2>1, <2>2, <2>3 DEF Init, TypeOK, Positions
<1>2. QED
  BY <1>1, TypeCorrectStep, PTL DEF Spec

-----------------------------------------------------------------------------
(* The inductive invariant.  Each property relates engines only; what makes *)
(* it hold is how far main has come, on the way up and on the way down.     *)

Active(e) == phase[e] \in {"serving", "stopping"}
LlmUp     == phase["llm"] = IF cli.no_llm THEN "off" ELSE "serving"

\* How far main has come with starting and stopping the engines.
Progress ==
  /\ main \in {"parse_args", "start_llm"} => \A e \in Engines : phase[e] = "off"
  /\ main \in {"subscribe", "publish", "await_done", "await_signal"} =>
       /\ ~ cli.no_llm
       /\ phase["llm"] = "serving" /\ phase["asr"] = "off" /\ phase["capture"] = "off"
  /\ main \in {"start_asr", "await_asr"} =>
       LlmUp /\ phase["asr"] = "off" /\ phase["capture"] = "off"
  /\ main = "start_capture" =>
       LlmUp /\ phase["asr"] = "serving" /\ phase["capture"] = "off"
  /\ main = "poll" =>
       LlmUp /\ phase["asr"] = "serving" /\ phase["capture"] = "serving"
  /\ main = "stopping" =>
       \/ /\ to_stop = <<"capture", "asr", "llm", "llm", "asr", "capture">>
          /\ LlmUp /\ phase["asr"] = "serving" /\ Active("capture")
       \/ /\ to_stop = <<"asr", "llm", "llm", "asr", "capture">>
          /\ LlmUp /\ Active("asr") /\ ~ Active("capture")
       \/ /\ to_stop = <<"llm", "llm", "asr", "capture">>
          /\ ~ Active("asr") /\ ~ Active("capture")
       \/ /\ to_stop \in {<<"llm", "asr", "capture">>, <<"asr", "capture">>, <<"capture">>, <<>>}
          /\ \A e \in Engines : ~ Active(e)
  /\ main = "exited" => \A e \in Engines : ~ Active(e)

\* What the phase of an engine says of its thread and of what it holds.
Shape ==
  \A e \in Engines :
    /\ phase[e] = "off" =>
         IF e = "asr" /\ main = "await_asr"
           THEN thread[e] = "running" \/ (thread[e] = "exited" /\ ~ held[e])
           ELSE thread[e] = "none" /\ ~ held[e]
    /\ phase[e] = "serving" =>
         /\ held[e]
         /\ IF e = "capture" THEN thread[e] # "none" ELSE thread[e] = "running"
    /\ phase[e] = "stopping" => thread[e] = "exited" \/ (thread[e] = "running" /\ held[e])
    /\ phase[e] = "stopped"  => thread[e] = "exited"  /\ ~ held[e]
    /\ phase[e] = "failed"   => thread[e] # "running" /\ ~ held[e]

\* The exit status, once decided, tells whether an engine failed to start.
Verdict ==
  main \in {"stopping", "exited"} =>
    (status = 1 <=> \E e \in Engines : phase[e] = "failed")

\* What main has yet to stop when it leaves, and how the list shrinks.
LEMMA LeavingLlm ==
  <<"llm">> \o Destructors = <<"llm", "llm", "asr", "capture">>
<1> DEFINE s == <<"llm">> \o Destructors
           t == <<"llm", "llm", "asr", "capture">>
<1>1. s \in Seq(Engines) /\ t \in Seq(Engines) /\ Len(s) = 4 /\ Len(t) = 4
  BY DEF Destructors, Engines
<1>2. s[1] = t[1] /\ s[2] = t[2] /\ s[3] = t[3] /\ s[4] = t[4]
  BY DEF Destructors
<1> SUFFICES s = t
  OBVIOUS
<1> HIDE DEF s, t
<1>3. \A i \in 1 .. Len(s) : s[i] = t[i]
  BY <1>1, <1>2
<1>4. QED
  BY <1>1, <1>3, SeqEqual

LEMMA LeavingAsrLlm ==
  <<"asr", "llm">> \o Destructors = <<"asr", "llm", "llm", "asr", "capture">>
<1> DEFINE s == <<"asr", "llm">> \o Destructors
           t == <<"asr", "llm", "llm", "asr", "capture">>
<1>1. s \in Seq(Engines) /\ t \in Seq(Engines) /\ Len(s) = 5 /\ Len(t) = 5
  BY DEF Destructors, Engines
<1>2. s[1] = t[1] /\ s[2] = t[2] /\ s[3] = t[3] /\ s[4] = t[4] /\ s[5] = t[5]
  BY DEF Destructors
<1> SUFFICES s = t
  OBVIOUS
<1> HIDE DEF s, t
<1>3. \A i \in 1 .. Len(s) : s[i] = t[i]
  BY <1>1, <1>2
<1>4. QED
  BY <1>1, <1>3, SeqEqual

LEMMA LeavingAll ==
  <<"capture", "asr", "llm">> \o Destructors = <<"capture", "asr", "llm", "llm", "asr", "capture">>
<1> DEFINE s == <<"capture", "asr", "llm">> \o Destructors
           t == <<"capture", "asr", "llm", "llm", "asr", "capture">>
<1>1. s \in Seq(Engines) /\ t \in Seq(Engines) /\ Len(s) = 6 /\ Len(t) = 6
  BY DEF Destructors, Engines
<1>2. /\ s[1] = t[1] /\ s[2] = t[2] /\ s[3] = t[3]
      /\ s[4] = t[4] /\ s[5] = t[5] /\ s[6] = t[6]
  BY DEF Destructors
<1> SUFFICES s = t
  OBVIOUS
<1> HIDE DEF s, t
<1>3. \A i \in 1 .. Len(s) : s[i] = t[i]
  BY <1>1, <1>2
<1>4. QED
  BY <1>1, <1>3, SeqEqual

LEMMA DestructorsLeft ==
  ASSUME NEW s \in {<<"llm", "asr", "capture">>, <<"asr", "capture">>, <<"capture">>}
  PROVE  /\ s # <<"capture", "asr", "llm", "llm", "asr", "capture">>
         /\ s # <<"asr", "llm", "llm", "asr", "capture">>
         /\ s # <<"llm", "llm", "asr", "capture">>
         /\ Head(s) \in Engines
         /\ Tail(s) \in {<<"asr", "capture">>, <<"capture">>, <<>>}
<1>1. CASE s = <<"llm", "asr", "capture">>
  BY <1>1 DEF Engines
<1>2. CASE s = <<"asr", "capture">>
  BY <1>2 DEF Engines
<1>3. CASE s = <<"capture">>
  BY <1>3 DEF Engines
<1>4. QED
  BY <1>1, <1>2, <1>3

LEMMA ProgressStep == TypeOK /\ Progress /\ [Next]_vars => Progress'
<1> SUFFICES ASSUME TypeOK, Progress, [Next]_vars PROVE Progress'
  OBVIOUS
<1> USE DEF TypeOK, Progress, Active, LlmUp, Engines
<1>0. ASSUME main = "stopping",
             to_stop \in {<<"llm", "asr", "capture">>, <<"asr", "capture">>, <<"capture">>}
      PROVE  Head(to_stop) \in Engines /\ \A e \in Engines : ~ Active(e)
  <2>1. /\ to_stop # <<"capture", "asr", "llm", "llm", "asr", "capture">>
        /\ to_stop # <<"asr", "llm", "llm", "asr", "capture">>
        /\ to_stop # <<"llm", "llm", "asr", "capture">>
        /\ Head(to_stop) \in Engines
    BY <1>0, DestructorsLeft
  <2>2. QED
    BY <1>0, <2>1
<1>1. CASE UsageExits \/ ParseArgs \/ SkipLlm
  BY <1>1 DEF UsageExits, ParseArgs, SkipLlm, Goto, lifeVars
<1>2. CASE RejectModes
  <2>1. to_stop' = <<"llm", "asr", "capture">>
    BY <1>2 DEF RejectModes, Leave, Destructors
  <2>2. QED
    BY <1>2, <2>1 DEF RejectModes, Leave, lifeVars
<1>3. CASE StartLlm
  <2>1. CASE Serves("llm") /\ main' = IF cli.test_prompt THEN "subscribe" ELSE "start_asr"
    BY <1>3, <2>1 DEF StartLlm, Serves, Phases
  <2>2. CASE Fails("llm") /\ Leave(1, <<>>)
    <3>1. to_stop' = <<"llm", "asr", "capture">>
      BY <2>2 DEF Leave, Destructors
    <3>2. QED
      BY <1>3, <2>2, <3>1 DEF StartLlm, Fails, Leave, Phases
  <2>3. QED
    BY <1>3, <2>1, <2>2 DEF StartLlm
<1>4. CASE StartAsr
  <2>1. CASE main' = "await_asr" /\ UNCHANGED phase
    BY <1>4, <2>1 DEF StartAsr
  <2>2. CASE Fails("asr") /\ Leave(1, <<"llm">>)
    <3>1. to_stop' = <<"llm", "llm", "asr", "capture">>
      BY <2>2, LeavingLlm DEF Leave
    <3>2. QED
      BY <1>4, <2>2, <3>1 DEF StartAsr, Fails, Leave, Phases
  <2>3. QED
    BY <1>4, <2>1, <2>2 DEF StartAsr
<1>5. CASE AwaitAsr
  <2>1. CASE Serves("asr") /\ main' = "start_capture"
    BY <1>5, <2>1 DEF AwaitAsr, Serves, Phases
  <2>2. CASE Fails("asr") /\ Leave(1, <<"llm">>)
    <3>1. to_stop' = <<"llm", "llm", "asr", "capture">>
      BY <2>2, LeavingLlm DEF Leave
    <3>2. QED
      BY <1>5, <2>2, <3>1 DEF AwaitAsr, Fails, Leave, Phases
  <2>3. QED
    BY <1>5, <2>1, <2>2 DEF AwaitAsr
<1>6. CASE StartCapture
  <2>1. CASE Serves("capture") /\ main' = "poll"
    BY <1>6, <2>1 DEF StartCapture, Serves, Phases
  <2>2. CASE Fails("capture") /\ Leave(1, <<"asr", "llm">>)
    <3>1. to_stop' = <<"asr", "llm", "llm", "asr", "capture">>
      BY <2>2, LeavingAsrLlm DEF Leave
    <3>2. QED
      BY <1>6, <2>2, <3>1 DEF StartCapture, Fails, Leave, Phases
  <2>3. QED
    BY <1>6, <2>1, <2>2 DEF StartCapture
<1>7. CASE Poll
  <2>1. to_stop' = <<"capture", "asr", "llm", "llm", "asr", "capture">>
    BY <1>7, LeavingAll DEF Poll, Leave, ShutdownOrder
  <2>2. QED
    BY <1>7, <2>1 DEF Poll, Leave, lifeVars
<1>8. CASE SkipStop
  <2>1. CASE to_stop = <<"llm", "llm", "asr", "capture">>
    <3>1. to_stop' = <<"llm", "asr", "capture">> /\ ~ Active("llm")
      BY <1>8, <2>1 DEF SkipStop
    <3>2. QED
      BY <1>8, <2>1, <3>1 DEF SkipStop, lifeVars
  <2>2. CASE to_stop \in {<<"llm", "asr", "capture">>, <<"asr", "capture">>, <<"capture">>}
    <3>1. to_stop' \in {<<"asr", "capture">>, <<"capture">>, <<>>}
      BY <1>8, <2>2, DestructorsLeft DEF SkipStop
    <3>2. \A e \in Engines : ~ Active(e)
      BY <1>0, <1>8, <2>2 DEF SkipStop
    <3>3. QED
      BY <1>8, <3>1, <3>2 DEF SkipStop, lifeVars
  <2>3. ~ Active(Head(to_stop))
    BY <1>8 DEF SkipStop
  <2>4. QED
    BY <1>8, <2>1, <2>2, <2>3, SMTT(30) DEF SkipStop
<1>9. CASE RequestStop
  <2>1. to_stop' = to_stop /\ main' = main /\ cli' = cli
    BY <1>9 DEF RequestStop, mainVars
  <2>2. CASE to_stop = <<"capture", "asr", "llm", "llm", "asr", "capture">>
    BY <1>9, <2>1, <2>2 DEF RequestStop, Phases
  <2>3. CASE to_stop = <<"asr", "llm", "llm", "asr", "capture">>
    BY <1>9, <2>1, <2>3 DEF RequestStop, Phases
  <2>4. CASE to_stop = <<"llm", "llm", "asr", "capture">>
    BY <1>9, <2>1, <2>4 DEF RequestStop, Phases
  <2>5. CASE to_stop \in {<<"llm", "asr", "capture">>, <<"asr", "capture">>, <<"capture">>}
    BY <1>0, <1>9, <2>5 DEF RequestStop
  <2>6. QED
    BY <1>9, <2>2, <2>3, <2>4, <2>5 DEF RequestStop
<1>10. CASE Join
  <2>1. /\ main = "stopping" /\ to_stop # <<>> /\ main' = main /\ cli' = cli
        /\ phase[Head(to_stop)] = "stopping" /\ to_stop' = Tail(to_stop)
        /\ phase' = [phase EXCEPT ![Head(to_stop)] = "stopped"]
    BY <1>10 DEF Join
  <2>2. CASE to_stop = <<"capture", "asr", "llm", "llm", "asr", "capture">>
    <3>1. to_stop' = <<"asr", "llm", "llm", "asr", "capture">> /\ Head(to_stop) = "capture"
      BY <2>1, <2>2
    <3>2. QED
      BY <2>1, <2>2, <3>1 DEF Phases
  <2>3. CASE to_stop = <<"asr", "llm", "llm", "asr", "capture">>
    <3>1. to_stop' = <<"llm", "llm", "asr", "capture">> /\ Head(to_stop) = "asr"
      BY <2>1, <2>3
    <3>2. QED
      BY <2>1, <2>3, <3>1 DEF Phases
  <2>4. CASE to_stop = <<"llm", "llm", "asr", "capture">>
    <3>1. to_stop' = <<"llm", "asr", "capture">> /\ Head(to_stop) = "llm"
      BY <2>1, <2>4
    <3>2. QED
      BY <2>1, <2>4, <3>1 DEF Phases
  <2>5. CASE to_stop \in {<<"llm", "asr", "capture">>, <<"asr", "capture">>, <<"capture">>}
    BY <1>0, <2>1, <2>5
  <2>6. QED
    BY <2>1, <2>2, <2>3, <2>4, <2>5
<1>11. CASE Return
  BY <1>11 DEF Return, Goto, lifeVars
<1>12. CASE SubscribeDone \/ PublishPrompt
  BY <1>12 DEF SubscribeDone, PublishPrompt, Goto, lifeVars
<1>13. CASE AwaitDone \/ AwaitSignal
  <2>1. UNCHANGED <<cli, phase>>
    BY <1>13 DEF AwaitDone, AwaitSignal, lifeVars
  <2>2. main \in {"await_done", "await_signal"}
    BY <1>13 DEF AwaitDone, AwaitSignal
  <2>3. CASE main' \in {"await_done", "await_signal"}
    BY <2>1, <2>2, <2>3
  <2>4. CASE Leave(0, <<"llm">>)
    <3>1. main' = "stopping" /\ to_stop' = <<"llm", "llm", "asr", "capture">>
      BY <2>4, LeavingLlm DEF Leave
    <3>2. QED
      BY <2>1, <2>2, <3>1
  <2>5. QED
    BY <1>13, <2>3, <2>4 DEF AwaitDone, AwaitSignal
<1>14. CASE Others
  BY <1>14, OthersFrame DEF mainVars
<1>15. CASE UNCHANGED vars
  BY <1>15 DEF vars, mainVars, lifeVars
<1>16. QED
  BY <1>1, <1>2, <1>3, <1>4, <1>5, <1>6, <1>7, <1>8, <1>9, <1>10, <1>11, <1>12, <1>13,
     <1>14, <1>15 DEF Next, Main, Others

LEMMA ShapeStep == TypeOK /\ Progress /\ Shape /\ [Next]_vars => Shape'
<1> SUFFICES ASSUME TypeOK, Progress, Shape, [Next]_vars PROVE Shape'
  OBVIOUS
<1> USE DEF TypeOK, Shape, Engines, Phases
\* A step of main that moves no engine keeps "await_asr" out of it.
<1>1. CASE UsageExits \/ ParseArgs \/ RejectModes \/ SkipLlm \/ Poll \/ SkipStop \/ Return
  <2>1. UNCHANGED lifeVars /\ main # "await_asr" /\ main' # "await_asr"
    BY <1>1 DEF UsageExits, ParseArgs, RejectModes, SkipLlm, Poll, SkipStop, Return, Goto,
       Leave
  <2>2. QED
    BY <2>1 DEF lifeVars
<1>2. CASE SubscribeDone \/ PublishPrompt \/ AwaitDone \/ AwaitSignal
  <2>1. UNCHANGED lifeVars /\ main # "await_asr" /\ main' # "await_asr"
    BY <1>2 DEF SubscribeDone, PublishPrompt, AwaitDone, AwaitSignal, Goto, Leave
  <2>2. QED
    BY <2>1 DEF lifeVars
<1>3. CASE StartLlm
  <2>1. main = "start_llm" /\ main' # "await_asr" /\ phase["llm"] = "off"
    BY <1>3 DEF StartLlm, Leave, Progress
  <2>2. Serves("llm") \/ Fails("llm")
    BY <1>3 DEF StartLlm
  <2>3. QED
    BY <2>1, <2>2 DEF Serves, Fails
<1>4. CASE StartAsr
  <2>1. main = "start_asr" /\ phase["asr"] = "off"
    BY <1>4 DEF StartAsr, Progress
  <2>2. CASE /\ thread' = [thread EXCEPT !["asr"] = "running"]
             /\ main' = "await_asr" /\ UNCHANGED <<phase, held>>
    BY <2>1, <2>2
  <2>3. CASE Fails("asr") /\ main' = "stopping"
    BY <2>1, <2>3 DEF Fails
  <2>4. QED
    BY <1>4, <2>2, <2>3 DEF StartAsr, Leave
<1>5. CASE AwaitAsr
  <2>1. main = "await_asr" /\ phase["asr"] = "off"
    BY <1>5 DEF AwaitAsr, Progress
  <2>2. CASE Serves("asr") /\ main' = "start_capture"
    BY <2>1, <2>2 DEF Serves
  <2>3. CASE thread["asr"] = "exited" /\ Fails("asr") /\ main' = "stopping"
    BY <2>1, <2>3 DEF Fails
  <2>4. QED
    BY <1>5, <2>2, <2>3 DEF AwaitAsr, Leave
<1>6. CASE StartCapture
  <2>1. main = "start_capture" /\ main' # "await_asr" /\ phase["capture"] = "off"
    BY <1>6 DEF StartCapture, Leave, Progress
  <2>2. Serves("capture") \/ Fails("capture")
    BY <1>6 DEF StartCapture
  <2>3. QED
    BY <2>1, <2>2 DEF Serves, Fails
<1>7. CASE RequestStop
  <2>1. /\ main = "stopping" /\ main' = main /\ UNCHANGED <<thread, held>>
        /\ Head(to_stop) \in Engines
        /\ phase[Head(to_stop)] = "serving"
        /\ phase' = [phase EXCEPT ![Head(to_stop)] = "stopping"]
    BY <1>7 DEF RequestStop, mainVars
  <2>2. QED
    BY <2>1
<1>8. CASE Join
  <2> DEFINE e == Head(to_stop)
  <2>1. /\ main = "stopping" /\ main' = main /\ UNCHANGED thread
        /\ e \in Engines /\ thread[e] = "exited"
        /\ phase' = [phase EXCEPT ![e] = "stopped"]
        /\ held' = [held EXCEPT ![e] = FALSE]
    BY <1>8 DEF Join
  <2> HIDE DEF e
  <2>2. QED
    BY <2>1
<1>9. CASE Capture
  <2>1. UNCHANGED <<mainVars, phase, held>>
    BY <1>9 DEF Capture, CaptureChunk, CaptureExits, CaptureGivesUp, lifeVars
  <2>2. \/ thread' = thread
        \/ /\ thread["capture"] = "running"
           /\ thread' = [thread EXCEPT !["capture"] = "exited"]
    BY <1>9 DEF Capture, CaptureChunk, CaptureExits, CaptureGivesUp, Exits, lifeVars
  <2>3. QED
    BY <2>1, <2>2 DEF mainVars
<1>10. CASE Asr
  <2>1. UNCHANGED <<mainVars, phase>>
    BY <1>10 DEF Asr, AsrLoads, Hear, Recognize, AsrExits, lifeVars
  <2>2. CASE AsrLoads
    <3>1. /\ phase["asr"] = "off" /\ ~ held["asr"] /\ thread["asr"] = "running"
          /\ \/ held' = [held EXCEPT !["asr"] = TRUE] /\ UNCHANGED thread
             \/ thread' = [thread EXCEPT !["asr"] = "exited"] /\ UNCHANGED held
      BY <2>2 DEF AsrLoads
    <3>2. QED
      BY <2>1, <3>1 DEF mainVars
  <2>3. CASE Hear \/ Recognize
    BY <2>1, <2>3, ZenonT(40) DEF Hear, Recognize, mainVars, lifeVars
  <2>4. CASE AsrExits
    BY <2>1, <2>4 DEF AsrExits, Exits, mainVars
  <2>5. QED
    BY <1>10, <2>2, <2>3, <2>4 DEF Asr
<1>11. CASE Llm
  <2>1. UNCHANGED <<mainVars, phase, held>>
    BY <1>11 DEF Llm, BeginAnswer, EndAnswer, LlmExits, lifeVars
  <2>2. \/ thread' = thread
        \/ /\ phase["llm"] = "stopping"
           /\ thread' = [thread EXCEPT !["llm"] = "exited"]
    BY <1>11 DEF Llm, BeginAnswer, EndAnswer, LlmExits, Exits, lifeVars
  <2>3. QED
    BY <2>1, <2>2 DEF mainVars
<1>12. CASE Signal \/ AutoStop \/ UNCHANGED vars
  BY <1>12 DEF Signal, AutoStop, vars, mainVars, lifeVars
<1>13. QED
  BY <1>1, <1>2, <1>3, <1>4, <1>5, <1>6, <1>7, <1>8, <1>9, <1>10, <1>11, <1>12
     DEF Next, Main

LEMMA VerdictStep == TypeOK /\ Progress /\ Verdict /\ [Next]_vars => Verdict'
<1> SUFFICES ASSUME TypeOK, Progress, Verdict, [Next]_vars PROVE Verdict'
  OBVIOUS
<1> USE DEF TypeOK, Verdict, Engines, Phases
<1>1. CASE UsageExits \/ RejectModes
  BY <1>1 DEF UsageExits, RejectModes, Goto, Leave, lifeVars, Progress
<1>2. CASE ParseArgs \/ SkipLlm \/ SubscribeDone \/ PublishPrompt
  BY <1>2 DEF ParseArgs, SkipLlm, SubscribeDone, PublishPrompt, Goto
<1>3. CASE StartLlm \/ StartAsr \/ AwaitAsr \/ StartCapture
  <2>1. \/ main' \notin {"stopping", "exited"}
        \/ /\ main' = "stopping" /\ status' = 1
           /\ \E e \in Engines : phase' = [phase EXCEPT ![e] = "failed"]
    BY <1>3 DEF StartLlm, StartAsr, AwaitAsr, StartCapture, Leave, Fails
  <2>2. QED
    BY <2>1
<1>4. CASE Poll
  BY <1>4 DEF Poll, Leave, lifeVars, Progress, LlmUp
<1>5. CASE AwaitDone \/ AwaitSignal
  <2>1. /\ main \in {"await_done", "await_signal"} /\ UNCHANGED lifeVars
        /\ main' \notin {"stopping", "exited"} \/ status' = 0
    BY <1>5 DEF AwaitDone, AwaitSignal, Leave
  <2>2. QED
    BY <2>1 DEF lifeVars, Progress
<1>6. CASE SkipStop \/ RequestStop \/ Join
  <2>1. main = "stopping" /\ status' = status
    BY <1>6 DEF SkipStop, RequestStop, Join, mainVars
  <2>2. \A e \in Engines : phase'[e] = "failed" <=> phase[e] = "failed"
    BY <1>6 DEF SkipStop, RequestStop, Join, lifeVars
  <2>3. QED
    BY <2>1, <2>2
<1>7. CASE Return
  BY <1>7 DEF Return, Goto, lifeVars
<1>8. CASE Others
  BY <1>8, OthersFrame DEF mainVars
<1>9. CASE UNCHANGED vars
  BY <1>9 DEF vars, mainVars, lifeVars
<1>10. QED
  BY <1>1, <1>2, <1>3, <1>4, <1>5, <1>6, <1>7, <1>8, <1>9 DEF Next, Main, Others

LEMMA InvariantHolds == Spec => [](Progress /\ Shape /\ Verdict)
<1>1. Init => Progress /\ Shape /\ Verdict
  BY DEF Init, Progress, Shape, Verdict
<1>2. QED
  BY <1>1, ProgressStep, ShapeStep, VerdictStep, TypeCorrect, PTL DEF Spec

\* Whoever may still publish has a consumer that serves, on the way up, on every
\* failure on the way, and on the way down.
THEOREM ConsumersOutliveProducersHolds == Spec => []ConsumersOutliveProducers
<1>1. TypeOK /\ Progress /\ Shape => ConsumersOutliveProducers
  <2> SUFFICES ASSUME TypeOK, Progress, Shape PROVE ConsumersOutliveProducers
    OBVIOUS
  <2> USE DEF TypeOK, Engines, Phases
  <2>1. ASSUME thread["capture"] = "running"
        PROVE  phase["asr"] = "serving" /\ AsrLoop
    <3>1. Active("capture")
      BY <2>1 DEF Shape, Active
    <3>2. phase["asr"] = "serving"
      BY <3>1 DEF Progress, Active, Positions
    <3>3. QED
      BY <3>2 DEF Shape, AsrLoop
  <2>2. ASSUME AsrLoop, ~ cli.no_llm
        PROVE  phase["llm"] = "serving" /\ thread["llm"] = "running"
    <3>1. main = "await_asr" \/ Active("asr")
      BY <2>2 DEF Shape, Active, AsrLoop
    <3>2. LlmUp
      BY <3>1 DEF Progress, Active, Positions
    <3>3. QED
      BY <2>2, <3>2 DEF Shape, LlmUp
  <2>3. QED
    BY <2>1, <2>2 DEF ConsumersOutliveProducers
<1>2. QED
  BY <1>1, TypeCorrect, InvariantHolds, PTL

\* However main leaves, no thread is left and nothing is held, and the status
\* tells whether some engine failed to start.
THEOREM ReturnsCleanHolds == Spec => []ReturnsClean
<1>1. TypeOK /\ Progress /\ Shape /\ Verdict => ReturnsClean
  <2> SUFFICES ASSUME TypeOK, Progress, Shape, Verdict, main = "exited"
               PROVE  /\ \A e \in Engines : thread[e] # "running" /\ ~ held[e]
                      /\ status = 1 <=> \E e \in Engines : phase[e] = "failed"
    BY DEF ReturnsClean
  <2>1. \A e \in Engines : phase[e] \in {"off", "stopped", "failed"}
    BY DEF TypeOK, Progress, Active, Phases
  <2>2. \A e \in Engines : thread[e] # "running" /\ ~ held[e]
    BY <2>1 DEF Shape
  <2>3. QED
    BY <2>2 DEF Verdict
<1>2. QED
  BY <1>1, TypeCorrect, InvariantHolds, PTL

-----------------------------------------------------------------------------

\* The VAD holds speech only while the ASR thread is there to decode it.
HeardIsAttended == heard => AsrLoop

\* Nothing that the VAD heard is left undecoded when the LLM is told to stop.
THEOREM HeardIsDecodedFirstHolds == Spec => []HeardIsDecodedFirst
<1>1. Init => HeardIsAttended
  BY DEF Init, HeardIsAttended
<1>2. TypeOK /\ Progress /\ Shape /\ HeardIsAttended /\ [Next]_vars => HeardIsAttended'
  <2> SUFFICES ASSUME TypeOK, Progress, Shape, HeardIsAttended, [Next]_vars
               PROVE  HeardIsAttended'
    OBVIOUS
  <2> USE DEF TypeOK, HeardIsAttended, AsrLoop, Engines
  <2>1. CASE Main
    <3>1. heard' = heard
      BY <2>1, MainFrame DEF asrVars
    <3>2. CASE UNCHANGED lifeVars
      BY <3>1, <3>2 DEF lifeVars
    <3>3. CASE StartLlm \/ StartAsr \/ StartCapture
      BY <3>1, <3>3 DEF StartLlm, StartAsr, StartCapture, Serves, Fails
    <3>4. CASE AwaitAsr
      BY <3>1, <3>4 DEF AwaitAsr, Serves, Fails
    <3>5. CASE RequestStop
      BY <3>1, <3>5 DEF RequestStop
    <3>6. CASE Join
      <4>1. /\ thread' = thread /\ Head(to_stop) \in Engines
            /\ thread[Head(to_stop)] = "exited"
            /\ held' = [held EXCEPT ![Head(to_stop)] = FALSE]
        BY <3>6 DEF Join
      <4>2. QED
        BY <3>1, <4>1
    <3>7. QED
      BY <2>1, <3>2, <3>3, <3>4, <3>5, <3>6 DEF Main, UsageExits, ParseArgs, RejectModes,
         SkipLlm, Poll, SkipStop, Return, SubscribeDone, PublishPrompt, AwaitDone,
         AwaitSignal
  <2>2. CASE Capture
    BY <2>2 DEF Capture, CaptureChunk, CaptureExits, CaptureGivesUp, Exits, lifeVars,
       asrVars
  <2>3. CASE AsrLoads \/ Hear \/ Recognize \/ AsrExits
    BY <2>3 DEF AsrLoads, Hear, Recognize, AsrExits, Exits, lifeVars, asrVars
  <2>4. CASE Llm
    BY <2>4 DEF Llm, BeginAnswer, EndAnswer, LlmExits, Exits, lifeVars, asrVars
  <2>5. CASE Signal \/ AutoStop \/ UNCHANGED vars
    BY <2>5 DEF Signal, AutoStop, vars, lifeVars, asrVars
  <2>6. QED
    BY <2>1, <2>2, <2>3, <2>4, <2>5 DEF Next, Asr
<1>3. TypeOK /\ Progress /\ Shape /\ HeardIsAttended => HeardIsDecodedFirst
  <2> SUFFICES ASSUME TypeOK, Progress, Shape, AsrLoop
               PROVE  phase["llm"] \notin {"stopping", "stopped"}
    BY DEF HeardIsAttended, HeardIsDecodedFirst
  <2>1. main = "await_asr" \/ Active("asr")
    BY DEF TypeOK, Phases, Engines, Shape, Active, AsrLoop
  <2>2. LlmUp
    BY <2>1 DEF TypeOK, Progress, Active, Positions, Engines
  <2>3. QED
    BY <2>2 DEF LlmUp
<1>4. QED
  BY <1>1, <1>2, <1>3, TypeCorrect, InvariantHolds, PTL DEF Spec

-----------------------------------------------------------------------------

\* With --test-prompt nothing was asked before done_q was registered, and from
\* then on the end of a round that was done is in it.
AskedAfterSubscribing ==
  /\ main \in {"parse_args", "start_llm", "subscribe", "publish"} =>
       prompt_q = 0 /\ ~ answering /\ outcome = "none"
  /\ main \in {"publish", "await_done", "await_signal"} => subscribed
  /\ DoneNotMissed

\* The end of the answer is never missed, however short the answer.
THEOREM DoneNotMissedHolds == Spec => []DoneNotMissed
<1>1. Init => AskedAfterSubscribing
  BY DEF Init, AskedAfterSubscribing, DoneNotMissed
<1>2. /\ TypeOK /\ Progress /\ Shape /\ AskedAfterSubscribing /\ [Next]_vars
      => AskedAfterSubscribing'
  <2> SUFFICES ASSUME TypeOK, Progress, Shape, AskedAfterSubscribing, [Next]_vars
               PROVE  AskedAfterSubscribing'
    OBVIOUS
  <2> USE DEF TypeOK, AskedAfterSubscribing, DoneNotMissed
  <2>1. CASE \/ UsageExits \/ ParseArgs \/ RejectModes \/ SkipLlm \/ StartLlm \/ StartAsr
             \/ AwaitAsr \/ StartCapture \/ Poll \/ SkipStop \/ RequestStop \/ Join \/ Return
    <3>1. UNCHANGED llmVars
      BY <2>1 DEF UsageExits, ParseArgs, RejectModes, SkipLlm, StartLlm, StartAsr, AwaitAsr,
         StartCapture, Poll, SkipStop, RequestStop, Join, Return
    <3>2. \/ main' \in {"start_asr", "await_asr", "start_capture", "poll", "stopping", "exited"}
          \/ main \in {"parse_args", "start_llm"} /\ main' \in {"start_llm", "subscribe"}
      BY <2>1 DEF UsageExits, ParseArgs, RejectModes, SkipLlm, StartLlm, StartAsr, AwaitAsr,
         StartCapture, Poll, SkipStop, RequestStop, Join, Return, Goto, Leave, mainVars
    <3>3. QED
      BY <3>1, <3>2 DEF llmVars
  <2>2. CASE SubscribeDone
    BY <2>2 DEF SubscribeDone, Goto
  <2>3. CASE PublishPrompt
    BY <2>3 DEF PublishPrompt, Goto
  <2>4. CASE AwaitDone \/ AwaitSignal
    BY <2>4 DEF AwaitDone, AwaitSignal, Leave, llmVars
  <2>5. CASE Capture \/ Signal \/ AutoStop
    BY <2>5 DEF Capture, CaptureChunk, CaptureExits, CaptureGivesUp, Signal, AutoStop,
       mainVars, llmVars
  <2>6. CASE Asr
    <3>1. UNCHANGED <<main, answering, subscribed, done_q, outcome>>
      BY <2>6 DEF Asr, AsrLoads, Hear, Recognize, AsrExits, mainVars, llmVars
    <3>2. prompt_q' = prompt_q \/ AsrLoop
      BY <2>6 DEF Asr, AsrLoads, Hear, Recognize, AsrExits, llmVars
    <3>3. AsrLoop => main \notin {"parse_args", "start_llm", "subscribe", "publish"}
      BY DEF AsrLoop, Progress, Shape, Engines
    <3>4. QED
      BY <3>1, <3>2, <3>3
  <2>7. CASE BeginAnswer
    BY <2>7 DEF BeginAnswer, mainVars
  <2>8. CASE EndAnswer
    <3>1. answering /\ UNCHANGED <<main, prompt_q, subscribed>> /\ answering' = FALSE
      BY <2>8 DEF EndAnswer, mainVars
    <3>2. outcome' = "done" /\ subscribed => done_q' > 0
      <4>1. Pushed(done_q, DoneCapacity) > 0
        BY PushedType, SoundAssumption
      <4>2. QED
        BY <2>8, <4>1 DEF EndAnswer
    <3>3. QED
      BY <3>1, <3>2
  <2>9. CASE LlmExits \/ UNCHANGED vars
    BY <2>9 DEF LlmExits, vars, mainVars, llmVars
  <2>10. QED
    BY <2>1, <2>2, <2>3, <2>4, <2>5, <2>6, <2>7, <2>8, <2>9 DEF Next, Main, Llm
<1>3. AskedAfterSubscribing => DoneNotMissed
  BY DEF AskedAfterSubscribing
<1>4. QED
  BY <1>1, <1>2, <1>3, TypeCorrect, InvariantHolds, PTL DEF Spec

-----------------------------------------------------------------------------

\* A step of main or of the threads moves at most one engine, and that engine as
\* EngineLife says.
LEMMA EnginesStep ==
  TypeOK /\ Progress /\ Shape /\ [Next]_vars =>
    \A e \in Engines : Life(e)!Next \/ UNCHANGED <<phase[e], thread[e], held[e]>>
<1> SUFFICES ASSUME TypeOK, Progress, Shape, [Next]_vars, NEW e \in Engines
             PROVE  Life(e)!Next \/ UNCHANGED <<phase[e], thread[e], held[e]>>
  OBVIOUS
<1> USE DEF TypeOK, Engines, Phases
<1>1. CASE UNCHANGED lifeVars
  BY <1>1 DEF lifeVars
<1>2. CASE StartLlm
  <2>1. phase["llm"] = "off" /\ thread["llm"] = "none" /\ ~ held["llm"]
    BY <1>2 DEF StartLlm, Progress, Shape
  <2>2. CASE Serves("llm")
    BY <2>1, <2>2 DEF Serves, Life!Next, Life!Launch
  <2>3. CASE Fails("llm")
    BY <2>1, <2>3 DEF Fails, Life!Next, Life!Fail
  <2>4. QED
    BY <1>2, <2>2, <2>3 DEF StartLlm
<1>3. CASE StartAsr
  <2>1. phase["asr"] = "off" /\ thread["asr"] = "none" /\ ~ held["asr"]
    BY <1>3 DEF StartAsr, Progress, Shape
  <2>2. CASE thread' = [thread EXCEPT !["asr"] = "running"] /\ UNCHANGED <<phase, held>>
    BY <2>1, <2>2 DEF Life!Next, Life!LaunchLoader
  <2>3. CASE Fails("asr")
    BY <2>1, <2>3 DEF Fails, Life!Next, Life!Fail
  <2>4. QED
    BY <1>3, <2>2, <2>3 DEF StartAsr
<1>4. CASE AwaitAsr
  <2>1. phase["asr"] = "off"
    BY <1>4 DEF AwaitAsr, Progress
  <2>2. CASE thread["asr"] = "running" /\ held["asr"] /\ Serves("asr")
    BY <2>1, <2>2 DEF Serves, Life!Next, Life!Loaded
  <2>3. CASE thread["asr"] = "exited" /\ Fails("asr")
    <3>1. main = "await_asr" /\ ~ held["asr"]
      BY <1>4, <2>1, <2>3 DEF AwaitAsr, Shape
    <3>2. QED
      BY <2>1, <2>3, <3>1 DEF Fails, Life!Next, Life!Fail
  <2>4. QED
    BY <1>4, <2>2, <2>3 DEF AwaitAsr
<1>5. CASE StartCapture
  <2>1. phase["capture"] = "off" /\ thread["capture"] = "none" /\ ~ held["capture"]
    BY <1>5 DEF StartCapture, Progress, Shape
  <2>2. CASE Serves("capture")
    BY <2>1, <2>2 DEF Serves, Life!Next, Life!Launch
  <2>3. CASE Fails("capture")
    BY <2>1, <2>3 DEF Fails, Life!Next, Life!Fail
  <2>4. QED
    BY <1>5, <2>2, <2>3 DEF StartCapture
<1>6. CASE RequestStop
  BY <1>6 DEF RequestStop, Life!Next, Life!RequestStop
<1>7. CASE Join
  <2>1. /\ Head(to_stop) \in Engines /\ thread' = thread
        /\ phase[Head(to_stop)] = "stopping" /\ thread[Head(to_stop)] = "exited"
        /\ phase' = [phase EXCEPT ![Head(to_stop)] = "stopped"]
        /\ held' = [held EXCEPT ![Head(to_stop)] = FALSE]
    BY <1>7 DEF Join
  <2>2. QED
    BY <2>1 DEF Life!Next, Life!Stopped
<1>8. CASE CaptureExits
  BY <1>8 DEF CaptureExits, Exits, Life!Next, Life!Exit
<1>9. CASE CaptureGivesUp
  <2>1. thread["capture"] = "running" /\ phase["capture"] \in {"serving", "stopping"}
    BY <1>9 DEF CaptureGivesUp, Shape
  <2>2. QED
    BY <1>9, <2>1 DEF CaptureGivesUp, Life!Next, Life!GiveUp
<1>10. CASE AsrLoads
  BY <1>10 DEF AsrLoads, Life!Next, Life!Load, Life!LoadFails
<1>11. CASE AsrExits
  BY <1>11 DEF AsrExits, Exits, Life!Next, Life!Exit
<1>12. CASE LlmExits
  BY <1>12 DEF LlmExits, Exits, Life!Next, Life!Exit
<1>13. QED
  BY <1>1, <1>2, <1>3, <1>4, <1>5, <1>6, <1>7, <1>8, <1>9, <1>10, <1>11, <1>12
     DEF Next, Main, UsageExits, ParseArgs, RejectModes, SkipLlm, Poll, SkipStop, Return,
     SubscribeDone, PublishPrompt, AwaitDone, AwaitSignal, Capture, CaptureChunk, Asr,
     Hear, Recognize, Llm, BeginAnswer, EndAnswer, Signal, AutoStop, vars

\* main and the threads treat each engine as EngineLife says, which is what the
\* modules of the engines are proved to implement.
THEOREM EnginesUsedProperlyHolds == Spec => EnginesUsedProperly
<1>1. Init => \A e \in Engines : Life(e)!Init
  BY DEF Init, Life!Init
<1>2. TypeOK /\ Progress /\ Shape /\ [Next]_vars
        => [\A e \in Engines : Life(e)!Next \/ UNCHANGED <<phase[e], thread[e], held[e]>>]_lifeVars
  BY EnginesStep
<1>3. QED
  BY <1>1, <1>2, TypeCorrect, InvariantHolds, PTL DEF Spec, EnginesUsedProperly
=============================================================================
