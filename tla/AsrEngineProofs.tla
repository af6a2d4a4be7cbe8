-------------------------- MODULE AsrEngineProofs ---------------------------
(***************************************************************************)
(* Theorems about AsrEngine for every capacity of the queue, every number  *)
(* of chunks and every choice of the chunks that contain speech.           *)
(***************************************************************************)
EXTENDS AsrEngine, SequenceTheorems, TLAPS

\* What a step of the owner or of the thread may change: the frame that the
\* proofs below share.
LEMMA OwnerFrame ==
  Main => /\ UNCHANGED <<queueVars, modelVars, vadVars, outVars>>
          /\ ~ Launch => UNCHANGED <<worker, init_result_, speech_active_>>
BY DEF Main, StartRejected, SubscribeChunks, Launch, StartSucceeds, StartFails,
       RequestStop, Join, runVars

LEMMA CaptureFrame ==
  Capture => UNCHANGED <<ownerVars, init_result_, worker, speech_active_, voiced,
                         modelVars, vadVars, outVars>>
BY DEF Capture

LEMMA WorkerFrame ==
  Worker => UNCHANGED <<ownerVars, captured, voiced>>
BY DEF Worker, CreateVad, CreateRecognizer, CheckStop, PopTimeout, PopAndFeed, CreateStream,
       StreamRefused, Decode, PopSegment, Drained, FlushVad, DestroyModels, runVars,
       queueVars

-----------------------------------------------------------------------------

\* The library's answer to a chunk keeps the VAD's state in its types.
LEMMA AcceptType ==
  ASSUME TypeOK, NEW c \in Nat, Accept(c)
  PROVE  /\ speech' \in Seq(Nat) /\ segments' \in Seq(Seq(Nat)) /\ fed' \in Seq(Nat)
         /\ utterances' \in Nat
<1>1. CASE c \in voiced
  <2>1. fed' = Append(fed, c) /\ speech' = Append(speech, c) /\ segments' = segments
        /\ utterances' \in {utterances, utterances + 1}
    BY <1>1 DEF Accept
  <2>2. QED
    BY <2>1 DEF TypeOK
<1>2. CASE c \notin voiced
  <2>1. /\ fed' = fed /\ utterances' = utterances
        /\ \/ speech' = <<>> /\ segments' = Append(segments, speech)
           \/ speech' = speech /\ segments' = segments
    BY <1>2 DEF Accept, vadVars
  <2>2. Append(segments, speech) \in Seq(Seq(Nat)) /\ <<>> \in Seq(Nat)
    BY DEF TypeOK
  <2>3. QED
    BY <2>1, <2>2 DEF TypeOK
<1>3. QED
  BY <1>1, <1>2

LEMMA TypeCorrectStep == TypeOK /\ [Next]_vars => TypeOK'
<1> SUFFICES ASSUME TypeOK, [Next]_vars PROVE TypeOK'
  OBVIOUS
<1> USE DEF TypeOK
<1>1. CASE Main
  BY <1>1 DEF Main, StartRejected, SubscribeChunks, Launch, StartSucceeds, StartFails,
     RequestStop, Join, Owner, runVars, queueVars, modelVars, vadVars, outVars,
     textVars
<1>2. CASE Capture
  <2>1. Len(chunk_q) >= ChunkCapacity => chunk_q # <<>>
    BY AsrAssumption, EmptySeq
  <2>2. chunk_q' \in Seq(Nat) /\ captured' \in Nat
    BY <1>2, <2>1 DEF Capture
  <2>3. QED
    BY <1>2, <2>2 DEF Capture, ownerVars, modelVars, vadVars, outVars, textVars
<1>3. CASE CreateVad \/ CreateRecognizer
  BY <1>3 DEF CreateVad, CreateRecognizer, Thread, ownerVars, queueVars, modelVars,
     vadVars, outVars, textVars
<1>4. CASE CheckStop \/ PopTimeout \/ CreateStream \/ Drained
  BY <1>4 DEF CheckStop, PopTimeout, CreateStream, Drained, Thread, ownerVars, runVars,
     queueVars, modelVars, vadVars, outVars, textVars
<1>5. CASE PopAndFeed
  <2>1. chunk_q # <<>> /\ Accept(Head(chunk_q)) /\ chunk_q' = Tail(chunk_q)
    BY <1>5 DEF PopAndFeed
  <2>2. Head(chunk_q) \in Nat /\ chunk_q' \in Seq(Nat)
    BY <2>1
  <2>3. /\ speech' \in Seq(Nat) /\ segments' \in Seq(Seq(Nat)) /\ fed' \in Seq(Nat)
        /\ utterances' \in Nat
    BY <2>1, <2>2, AcceptType
  <2>4. starts' \in Nat /\ speech_active_' \in BOOLEAN
    BY <1>5 DEF PopAndFeed
  <2>5. QED
    BY <1>5, <2>2, <2>3, <2>4 DEF PopAndFeed, Thread, ownerVars, modelVars,
       textVars
<1>6. CASE StreamRefused \/ Decode
  <2>1. PopSegment /\ worker' \in {worker, "drain", "drainLast"}
    BY <1>6 DEF StreamRefused, Decode, Thread
  <2>2. Head(segments) \in Seq(Nat) /\ segments' \in Seq(Seq(Nat))
    BY <2>1 DEF PopSegment
  <2>3. transcribed' \in Seq(Nat)
    BY <2>1, <2>2 DEF PopSegment
  <2>4. ToSet(Head(segments)) \subseteq Nat
    BY <2>2 DEF ToSet
  <2>5. decoded' \subseteq Nat /\ refused' \subseteq Nat
    BY <1>6, <2>4 DEF StreamRefused, Decode
  <2>6. QED
    BY <2>1, <2>2, <2>3, <2>5 DEF PopSegment, ownerVars, queueVars, modelVars
<1>7. CASE FlushVad
  <2>1. segments' \in Seq(Seq(Nat)) /\ speech' \in Seq(Nat)
    BY <1>7 DEF FlushVad
  <2>2. QED
    BY <1>7, <2>1 DEF FlushVad, Thread, ownerVars, queueVars, modelVars, outVars,
       textVars
<1>8. CASE DestroyModels
  BY <1>8 DEF DestroyModels, Thread, ownerVars, queueVars, vadVars, outVars, textVars
<1>9. CASE UNCHANGED vars
  BY <1>9 DEF vars, ownerVars, runVars, queueVars, modelVars, vadVars, outVars,
     textVars
<1>10. QED
  BY <1>1, <1>2, <1>3, <1>4, <1>5, <1>6, <1>7, <1>8, <1>9 DEF Next, Worker

\* Type correctness of the members, of the VAD's state and of the history.
THEOREM TypeCorrect == Spec => []TypeOK
<1>1. Init => TypeOK
  <2> SUFFICES ASSUME Init PROVE TypeOK
    OBVIOUS
  <2>1. /\ chunk_q \in Seq(Nat) /\ speech \in Seq(Nat) /\ segments \in Seq(Seq(Nat))
        /\ fed \in Seq(Nat) /\ transcribed \in Seq(Nat)
    BY DEF Init
  <2>2. voiced \subseteq Nat
    BY AsrAssumption DEF Init
  <2>3. QED
    BY <2>1, <2>2 DEF Init, TypeOK
<1>2. QED
  BY <1>1, TypeCorrectStep, PTL DEF Spec

-----------------------------------------------------------------------------

\* The positions of the thread in its loop, where both models exist.
InLoop == {"check", "wait", "drain", "decode", "flush", "drainLast", "decodeLast"}

\* How the owner's position, the thread's, the promise and the models go
\* together.  Neither the models' lifetime nor what start() learns is inductive
\* without it: the owner looks at the promise only.
Lifetime ==
  /\ worker = "none" <=> ctl \in {"off", "rejected", "subscribed"}
  /\ worker \in {"none", "createVad", "exited"} => vad_ = "null"
  /\ worker \in {"none", "createVad", "createRecognizer", "exited"} => recognizer_ = "null"
  /\ worker = "createRecognizer" => vad_ = "live"
  /\ worker \in InLoop => vad_ = "live" /\ recognizer_ = "live"
  /\ worker \in {"none", "createVad", "createRecognizer"} => init_result_ = "none"
  /\ worker \in InLoop => init_result_ = "ok"
  /\ worker = "exited" => stop_flag_ \/ init_result_ = "error"
  /\ worker \in {"flush", "drainLast", "decodeLast"} => stop_flag_
  /\ stop_flag_ <=> ctl \in {"joining", "stopped"}
  /\ ctl \in {"started", "joining", "stopped"} => init_result_ = "ok"
  /\ ctl \in {"failed", "stopped"} => worker = "exited"

LEMMA LifetimeStep == TypeOK /\ Lifetime /\ [Next]_vars => Lifetime'
<1> SUFFICES ASSUME TypeOK, Lifetime, [Next]_vars PROVE Lifetime'
  OBVIOUS
<1> USE DEF TypeOK, Lifetime, InLoop
<1>1. CASE Main
  BY <1>1, OwnerFrame DEF Main, StartRejected, SubscribeChunks, Launch, StartSucceeds,
     StartFails, RequestStop, Join, Owner, modelVars
<1>2. CASE Capture
  BY <1>2, CaptureFrame DEF ownerVars, modelVars
<1>3. CASE CreateVad \/ CreateRecognizer
  BY <1>3 DEF CreateVad, CreateRecognizer, Thread, ownerVars
<1>4. CASE CheckStop \/ PopTimeout \/ CreateStream \/ Drained
  BY <1>4 DEF CheckStop, PopTimeout, CreateStream, Drained, Thread, ownerVars, runVars,
     modelVars
<1>5. CASE PopAndFeed \/ StreamRefused \/ Decode \/ FlushVad \/ DestroyModels
  <2>1. UNCHANGED <<ownerVars, init_result_>>
    BY <1>5 DEF PopAndFeed, StreamRefused, Decode, PopSegment, FlushVad, DestroyModels
  <2>2. CASE PopAndFeed \/ StreamRefused \/ Decode \/ FlushVad
    <3>1. /\ UNCHANGED modelVars
          /\ \/ worker \in {"wait", "decode"} /\ worker' = "drain"
             \/ worker' = worker
             \/ worker \in {"flush", "decodeLast"} /\ worker' = "drainLast"
      BY <2>2 DEF PopAndFeed, StreamRefused, Decode, PopSegment, FlushVad, Thread
    <3>2. QED
      BY <2>1, <3>1 DEF ownerVars, modelVars
  <2>3. CASE DestroyModels
    BY <2>1, <2>3 DEF DestroyModels, Thread, ownerVars
  <2>4. QED
    BY <1>5, <2>2, <2>3
<1>6. CASE UNCHANGED vars
  BY <1>6 DEF vars, ownerVars, runVars, modelVars
<1>7. QED
  BY <1>1, <1>2, <1>3, <1>4, <1>5, <1>6 DEF Next, Worker

LEMMA LifetimeHolds == Spec => []Lifetime
<1>1. Init => Lifetime
  BY DEF Init, Lifetime, InLoop
<1>2. QED
  BY <1>1, LifetimeStep, TypeCorrect, PTL DEF Spec

-----------------------------------------------------------------------------
(* The segments of the VAD, flattened.                                     *)

\* Whoever has spoken a chunk is speaking.
LEMMA AppendNotEmpty == \A s \in Seq(Nat), x \in Nat : Append(s, x) # <<>>
<1> SUFFICES ASSUME NEW s \in Seq(Nat), NEW x \in Nat PROVE Append(s, x) # <<>>
  OBVIOUS
<1>1. Len(Append(s, x)) = Len(s) + 1 /\ Len(s) \in Nat
  OBVIOUS
<1>2. Len(<<>>) = 0
  OBVIOUS
<1>3. QED
  BY <1>1, <1>2

LEMMA AppendOfConcat ==
  ASSUME NEW s \in Seq(Nat), NEW t \in Seq(Nat), NEW c \in Nat
  PROVE  Append(s \o t, c) = s \o Append(t, c)
<1>1. s \o t \in Seq(Nat) /\ <<c>> \in Seq(Nat)
  OBVIOUS
<1>2. Append(s \o t, c) = (s \o t) \o <<c>> /\ Append(t, c) = t \o <<c>>
  BY <1>1, AppendIsConcat
<1>3. (s \o t) \o <<c>> = s \o (t \o <<c>>)
  BY <1>1, ConcatAssociative, SMTT(30)
<1>4. QED
  BY <1>2, <1>3

LEMMA FlattenNone == FlattenSeq(<<>>) = <<>>
BY EmptySeq DEF FlattenSeq

LEMMA FlattenOne ==
  ASSUME NEW s
  PROVE  FlattenSeq(<<s>>) = s
<1> DEFINE one     == <<s>>
           Rec(f)  == f = [i \in 1 .. Len(one) |->
                             IF i = 1 THEN one[i] ELSE f[i - 1] \o one[i]]
           flatten == CHOOSE f : Rec(f)
<1>1. Len(one) = 1 /\ one[1] = s
  OBVIOUS
<1>2. Rec([i \in 1 .. Len(one) |-> s])
  BY <1>1
<1>3. Rec(flatten)
  <2> HIDE DEF Rec
  <2>1. QED
    BY <1>2
<1>4. flatten[1] = s
  BY <1>1, <1>3
<1>5. FlattenSeq(one) = flatten[1]
  <2> HIDE DEF one
  <2>1. QED
    BY <1>1 DEF FlattenSeq
<1>6. QED
  BY <1>4, <1>5

\* SpeechConserved strengthened by where speech can be at each position of the
\* thread: the drain that follows every chunk leaves no completed segment behind,
\* so the VAD holds at most one, and the flush leaves nothing being spoken.
Pipeline ==
  /\ worker \notin {"drain", "decode", "drainLast", "decodeLast"} => segments = <<>>
  /\ segments = <<>> \/ \E s \in Seq(Nat) : segments = <<s>>
  /\ worker \notin {"check", "wait", "drain", "decode", "flush"} => speech = <<>>
  /\ fed = transcribed \o FlattenSeq(segments) \o speech

LEMMA PipelineStep ==
  TypeOK /\ Lifetime /\ Pipeline /\ [Next]_vars => Pipeline'
<1> SUFFICES ASSUME TypeOK, Lifetime, Pipeline, [Next]_vars PROVE Pipeline'
  OBVIOUS
<1> USE DEF Pipeline
<1>1. CASE Main
  <2>1. UNCHANGED <<speech, segments, fed, transcribed>>
    BY <1>1, OwnerFrame DEF vadVars, outVars, textVars
  <2>2. CASE Launch
    <3>1. worker = "none" /\ worker' = "createVad"
      BY <2>2 DEF Launch, Owner, Lifetime
    <3>2. QED
      BY <2>1, <3>1
  <2>3. CASE ~ Launch
    BY <1>1, <2>1, <2>3, OwnerFrame
  <2>4. QED
    BY <2>2, <2>3
<1>2. CASE Capture
  BY <1>2, CaptureFrame DEF vadVars, outVars, textVars
<1>3. CASE CreateVad \/ CreateRecognizer
  BY <1>3 DEF CreateVad, CreateRecognizer, Thread, vadVars, outVars, textVars
<1>4. CASE CheckStop \/ PopTimeout \/ CreateStream \/ Drained
  BY <1>4 DEF CheckStop, PopTimeout, CreateStream, Drained, Thread, runVars, vadVars,
     outVars, textVars
<1>5. CASE PopAndFeed
  <2> DEFINE c == Head(chunk_q)
  <2>1. /\ worker = "wait" /\ worker' = "drain" /\ Accept(c) /\ transcribed' = transcribed
        /\ c \in Nat
    BY <1>5 DEF PopAndFeed, Thread, TypeOK, textVars
  <2>2. segments = <<>> /\ fed = transcribed \o <<>> \o speech
    BY <2>1, FlattenNone
  <2>3. CASE speech' = Append(speech, c) /\ fed' = Append(fed, c) /\ segments' = segments
    <3>1. Append(transcribed \o <<>> \o speech, c) = transcribed \o <<>> \o Append(speech, c)
      <4>1. transcribed \in Seq(Nat) /\ speech \in Seq(Nat) /\ c \in Nat
        BY <2>1 DEF TypeOK
      <4>2. Append(transcribed \o speech, c) = transcribed \o Append(speech, c)
        BY <4>1, AppendOfConcat
      <4>3. transcribed \o <<>> = transcribed
        BY <4>1
      <4>4. QED
        BY <4>2, <4>3
    <3>2. QED
      BY <2>1, <2>2, <2>3, <3>1, FlattenNone
  <2>4. CASE segments' = Append(segments, speech) /\ speech' = <<>> /\ fed' = fed
    <3>1. segments' = <<speech>>
      BY <2>2, <2>4
    <3>2. transcribed \o <<>> \o speech = transcribed \o speech \o <<>>
      BY DEF TypeOK
    <3>3. FlattenSeq(<<speech>>) = speech
      BY FlattenOne
    <3>4. QED
      BY <2>1, <2>2, <2>4, <3>1, <3>2, <3>3 DEF TypeOK
  <2>5. CASE UNCHANGED vadVars
    BY <2>1, <2>2, <2>5 DEF vadVars
  <2>6. QED
    BY <2>1, <2>3, <2>4, <2>5 DEF Accept
<1>6. CASE StreamRefused \/ Decode
  <2>1. /\ segments # <<>> /\ transcribed' = transcribed \o Head(segments)
        /\ segments' = Tail(segments)
        /\ UNCHANGED <<speech, fed>>
    BY <1>6 DEF StreamRefused, Decode, PopSegment
  <2>2. PICK s \in Seq(Nat) : segments = <<s>>
    BY <2>1
  <2>3. transcribed' = transcribed \o s /\ segments' = <<>>
    BY <2>1, <2>2
  <2>4. fed = transcribed \o s \o speech
    BY <2>2, FlattenOne
  <2>5. fed' = transcribed' \o FlattenSeq(segments') \o speech'
    <3>1. transcribed \o s \o <<>> = transcribed \o s
      BY DEF TypeOK
    <3>2. QED
      BY <2>1, <2>3, <2>4, <3>1, FlattenNone
  <2>6. \/ worker' = worker
        \/ worker = "decode" /\ worker' = "drain"
        \/ worker = "decodeLast" /\ worker' = "drainLast"
    BY <1>6 DEF StreamRefused, Decode, Thread
  <2>7. QED
    BY <2>1, <2>3, <2>5, <2>6
<1>7. CASE FlushVad
  <2>1. /\ worker = "flush" /\ worker' = "drainLast" /\ speech' = <<>>
        /\ segments = <<>>
        /\ segments' = IF speech = <<>> THEN <<>> ELSE <<speech>>
        /\ UNCHANGED <<fed, transcribed>>
    BY <1>7 DEF FlushVad, Thread, outVars, textVars
  <2>2. fed = transcribed \o <<>> \o speech
    BY <2>1, FlattenNone
  <2>3. FlattenSeq(segments') = speech
    BY <2>1, FlattenNone, FlattenOne
  <2>4. transcribed \o <<>> \o speech = transcribed \o speech \o <<>>
    BY DEF TypeOK
  <2>5. QED
    BY <2>1, <2>2, <2>3, <2>4 DEF TypeOK
<1>8. CASE DestroyModels
  BY <1>8 DEF DestroyModels, Thread, vadVars, outVars, textVars
<1>9. CASE UNCHANGED vars
  BY <1>9 DEF vars, runVars, vadVars, outVars, textVars
<1>10. QED
  BY <1>1, <1>2, <1>3, <1>4, <1>5, <1>6, <1>7, <1>8, <1>9 DEF Next, Worker

LEMMA PipelineHolds == Spec => []Pipeline
<1>1. Init => Pipeline
  <2> SUFFICES ASSUME Init PROVE Pipeline
    OBVIOUS
  <2>1. fed = <<>> /\ transcribed = <<>> /\ segments = <<>> /\ speech = <<>>
    BY DEF Init
  <2>2. <<>> = <<>> \o <<>> \o <<>>
    OBVIOUS
  <2>3. QED
    BY <2>1, <2>2, FlattenNone DEF Pipeline
<1>2. QED
  BY <1>1, PipelineStep, TypeCorrect, LifetimeHolds, PTL DEF Spec

\* The members of a concatenation.
LEMMA ToSetOfConcat ==
  ASSUME NEW s \in Seq(Nat), NEW t \in Seq(Nat)
  PROVE  ToSet(s \o t) = ToSet(s) \cup ToSet(t)
<1>1. /\ s \o t \in Seq(Nat) /\ Len(s \o t) = Len(s) + Len(t)
      /\ \A i \in 1 .. Len(s) : (s \o t)[i] = s[i]
      /\ \A i \in 1 .. Len(t) : (s \o t)[Len(s) + i] = t[i]
      /\ \A i \in 1 .. Len(s) + Len(t) :
           (s \o t)[i] = IF i <= Len(s) THEN s[i] ELSE t[i - Len(s)]
  OBVIOUS
<1>2. ToSet(s \o t) \subseteq ToSet(s) \cup ToSet(t)
  <2> SUFFICES ASSUME NEW i \in 1 .. Len(s) + Len(t)
               PROVE  (s \o t)[i] \in ToSet(s) \cup ToSet(t)
    BY <1>1 DEF ToSet
  <2>1. CASE i <= Len(s)
    BY <1>1, <2>1 DEF ToSet
  <2>2. CASE i > Len(s)
    BY <1>1, <2>2 DEF ToSet
  <2>3. QED
    BY <2>1, <2>2
<1>3. ToSet(s) \subseteq ToSet(s \o t)
  BY <1>1 DEF ToSet
<1>4. ToSet(t) \subseteq ToSet(s \o t)
  <2>1. DOMAIN t = 1 .. Len(t) /\ DOMAIN (s \o t) = 1 .. Len(s) + Len(t)
    OBVIOUS
  <2> SUFFICES ASSUME NEW i \in 1 .. Len(t) PROVE t[i] \in ToSet(s \o t)
    BY <2>1 DEF ToSet
  <2>2. Len(s) + i \in 1 .. Len(s) + Len(t)
    OBVIOUS
  <2>3. t[i] = (s \o t)[Len(s) + i]
    BY <1>1
  <2>4. QED
    BY <2>1, <2>2, <2>3, Zenon DEF ToSet
<1>5. QED
  BY <1>2, <1>3, <1>4

\* Whatever was popped was decoded or had its stream refused.
Transcription == ToSet(transcribed) = decoded \cup refused

LEMMA TranscriptionHolds == Spec => []Transcription
<1>1. Init => Transcription
  BY DEF Init, Transcription, ToSet
<1>2. TypeOK /\ Transcription /\ [Next]_vars => Transcription'
  <2> SUFFICES ASSUME TypeOK, Transcription, [Next]_vars PROVE Transcription'
    OBVIOUS
  <2>1. CASE StreamRefused \/ Decode
    <3>1. segments # <<>> /\ transcribed' = transcribed \o Head(segments)
      BY <2>1 DEF StreamRefused, Decode, PopSegment
    <3>2. transcribed \in Seq(Nat) /\ Head(segments) \in Seq(Nat)
      BY <3>1 DEF TypeOK
    <3>3. ToSet(transcribed') = ToSet(transcribed) \cup ToSet(Head(segments))
      BY <3>1, <3>2, ToSetOfConcat
    <3>4. decoded' \cup refused' = decoded \cup refused \cup ToSet(Head(segments))
      BY <2>1 DEF StreamRefused, Decode
    <3>5. QED
      BY <3>3, <3>4 DEF Transcription
  <2>2. CASE ~ (StreamRefused \/ Decode)
    <3>1. UNCHANGED textVars
      <4>1. CASE Main
        BY <4>1, OwnerFrame DEF outVars
      <4>2. CASE Capture
        BY <4>2, CaptureFrame DEF outVars
      <4>3. CASE Worker
        BY <2>2, <4>3 DEF Worker, CreateVad, CreateRecognizer, CheckStop, PopTimeout,
           PopAndFeed, CreateStream, Drained, FlushVad, DestroyModels, runVars, outVars
      <4>4. CASE UNCHANGED vars
        BY <4>4 DEF vars, runVars, outVars
      <4>5. QED
        BY <4>1, <4>2, <4>3, <4>4 DEF Next
    <3>2. QED
      BY <3>1 DEF Transcription, textVars
  <2>3. QED
    BY <2>1, <2>2
<1>3. QED
  BY <1>1, <1>2, TypeCorrect, PTL DEF Spec

\* All speech fed to the VAD is transcribed once and in order, and none of it is
\* popped undecoded unless the library created no stream for its segment.
THEOREM SpeechConservedHolds == Spec => []SpeechConserved
<1>1. Pipeline /\ Transcription => SpeechConserved
  BY DEF Pipeline, Transcription, SpeechConserved
<1>2. QED
  BY <1>1, PipelineHolds, TranscriptionHolds, PTL

\* When the thread ends everything fed has been through transcribe(), however
\* many streams were refused on the way, and no path out of it, the failures of
\* init_models included, leaves a model behind.
THEOREM CleanExitHolds == Spec => []CleanExit
<1>1. TypeOK /\ Lifetime /\ Pipeline => CleanExit
  <2> SUFFICES ASSUME TypeOK, Lifetime, Pipeline, worker = "exited" PROVE CleanExit
    BY DEF CleanExit
  <2>1. segments = <<>> /\ speech = <<>> /\ fed = transcribed \o FlattenSeq(segments) \o speech
    BY DEF Pipeline
  <2>2. transcribed \o <<>> \o <<>> = transcribed
    BY DEF TypeOK
  <2>3. fed = transcribed
    BY <2>1, <2>2, FlattenNone
  <2>4. QED
    BY <2>3 DEF CleanExit, Lifetime
<1>2. QED
  BY <1>1, TypeCorrect, LifetimeHolds, PipelineHolds, PTL

-----------------------------------------------------------------------------

\* OneStartPerUtterance strengthened: between two chunks speech_active_ says
\* whether the VAD is in an utterance.  (Not after the flush, which empties the
\* VAD and leaves the flag; nothing reads it any more then.)
RisingEdge ==
  /\ worker \notin {"none", "drainLast", "decodeLast", "exited"} =>
       (speech_active_ <=> speech # <<>>)
  /\ OneStartPerUtterance

\* Each utterance is announced by one SpeechStart.
THEOREM OneStartPerUtteranceHolds == Spec => []OneStartPerUtterance
<1>1. Init => RisingEdge
  BY DEF Init, RisingEdge, OneStartPerUtterance
<1>2. TypeOK /\ Lifetime /\ Pipeline /\ RisingEdge /\ [Next]_vars => RisingEdge'
  <2> SUFFICES ASSUME TypeOK, Lifetime, Pipeline, RisingEdge, [Next]_vars
               PROVE  RisingEdge'
    OBVIOUS
  <2> USE DEF RisingEdge, OneStartPerUtterance
  <2>1. CASE Main
    <3>1. UNCHANGED <<speech, utterances, starts>>
      BY <2>1, OwnerFrame DEF vadVars, outVars
    <3>2. CASE Launch
      <4>1. worker = "none" /\ speech = <<>> /\ speech_active_' = FALSE
        BY <3>2 DEF Launch, Owner, Lifetime, Pipeline
      <4>2. QED
        BY <3>1, <4>1
    <3>3. CASE ~ Launch
      BY <2>1, <3>1, <3>3, OwnerFrame
    <3>4. QED
      BY <3>2, <3>3
  <2>2. CASE Capture
    BY <2>2, CaptureFrame DEF vadVars, outVars
  <2>3. CASE CreateVad \/ CreateRecognizer
    BY <2>3 DEF CreateVad, CreateRecognizer, Thread, vadVars, outVars
  <2>4. CASE CheckStop \/ PopTimeout \/ CreateStream \/ Drained
    BY <2>4 DEF CheckStop, PopTimeout, CreateStream, Drained, Thread, runVars, vadVars,
       outVars
  <2>5. CASE PopAndFeed
    <3>1. /\ worker = "wait" /\ worker' = "drain" /\ Accept(Head(chunk_q))
          /\ starts' = IF speech' # <<>> /\ ~ speech_active_ THEN starts + 1 ELSE starts
          /\ speech_active_' = (speech' # <<>>)
      BY <2>5 DEF PopAndFeed, Thread
    <3>2. speech_active_ <=> speech # <<>>
      BY <3>1
    <3>3. CASE Head(chunk_q) \in voiced
      <4>1. /\ speech' = Append(speech, Head(chunk_q))
            /\ utterances' = IF speech = <<>> THEN utterances + 1 ELSE utterances
        BY <3>1, <3>3 DEF Accept
      <4>2. speech' # <<>>
        <5>1. Head(chunk_q) \in Nat /\ speech \in Seq(Nat)
          BY <2>5 DEF PopAndFeed, TypeOK
        <5>2. QED
          BY <4>1, <5>1, AppendNotEmpty
      <4>3. QED
        BY <3>1, <3>2, <4>1, <4>2
    <3>4. CASE Head(chunk_q) \notin voiced
      <4>1. utterances' = utterances /\ speech' \in {speech, <<>>}
        BY <3>1, <3>4 DEF Accept, vadVars
      <4>2. QED
        BY <3>1, <3>2, <4>1
    <3>5. QED
      BY <3>3, <3>4
  <2>6. CASE StreamRefused \/ Decode
    BY <2>6 DEF StreamRefused, Decode, PopSegment, Thread
  <2>7. CASE FlushVad \/ DestroyModels
    BY <2>7 DEF FlushVad, DestroyModels, Thread, vadVars, outVars
  <2>8. CASE UNCHANGED vars
    BY <2>8 DEF vars, runVars, vadVars, outVars
  <2>9. QED
    BY <2>1, <2>2, <2>3, <2>4, <2>5, <2>6, <2>7, <2>8 DEF Next, Worker
<1>3. RisingEdge => OneStartPerUtterance
  BY DEF RisingEdge
<1>4. QED
  BY <1>1, <1>2, <1>3, TypeCorrect, LifetimeHolds, PipelineHolds, PTL DEF Spec

-----------------------------------------------------------------------------

\* To main the engine is one whose thread loads the models: every step of the
\* owner or of the thread is a step of such an engine's life, or leaves it alone.
THEOREM ImplementsLifeSafety == Spec => Life!Spec
<1>1. Init => Life!Init
  BY DEF Init, Life!Init
<1>2. TypeOK /\ Lifetime /\ [Next]_vars => [Life!Next]_Life!life
  <2> SUFFICES ASSUME TypeOK, Lifetime, [Next]_vars PROVE [Life!Next]_Life!life
    OBVIOUS
  <2> USE DEF Lifetime, TypeOK, InLoop, Life!life
  <2>1. CASE StartRejected
    BY <2>1 DEF StartRejected, Owner, runVars, modelVars, Life!Next, Life!Fail
  <2>2. CASE SubscribeChunks
    BY <2>2 DEF SubscribeChunks, Owner, runVars, modelVars
  <2>3. CASE Launch
    BY <2>3 DEF Launch, Owner, modelVars, Life!Next, Life!LaunchLoader
  <2>4. CASE StartSucceeds
    BY <2>4 DEF StartSucceeds, Owner, runVars, modelVars, Life!Next, Life!Loaded
  <2>5. CASE StartFails
    BY <2>5 DEF StartFails, Owner, runVars, modelVars, Life!Next, Life!Fail
  <2>6. CASE RequestStop
    BY <2>6 DEF RequestStop, Owner, runVars, modelVars, Life!Next, Life!RequestStop
  <2>7. CASE Join
    BY <2>7 DEF Join, Owner, runVars, modelVars, Life!Next, Life!Stopped
  <2>8. CASE Capture
    BY <2>8, CaptureFrame DEF ownerVars, modelVars
  <2>9. CASE CreateVad
    BY <2>9 DEF CreateVad, Thread, ownerVars, Life!Next, Life!LoadFails
  <2>10. CASE CreateRecognizer
    BY <2>10 DEF CreateRecognizer, Thread, ownerVars, Life!Next, Life!Load, Life!LoadFails
  <2>11. CASE \/ CheckStop \/ PopTimeout \/ PopAndFeed \/ CreateStream \/ StreamRefused
              \/ Decode \/ Drained \/ FlushVad
    <3>1. UNCHANGED <<ownerVars, modelVars>>
      BY <2>11 DEF CheckStop, PopTimeout, PopAndFeed, CreateStream, StreamRefused, Decode,
         PopSegment, Drained, FlushVad, runVars
    <3>2. worker \notin {"none", "exited"} /\ worker' \notin {"none", "exited"}
      BY <2>11 DEF CheckStop, PopTimeout, PopAndFeed, CreateStream, StreamRefused, Decode,
         PopSegment, Drained, FlushVad, Thread
    <3>3. QED
      BY <3>1, <3>2 DEF ownerVars, modelVars
  <2>12. CASE DestroyModels
    BY <2>12 DEF DestroyModels, Thread, ownerVars, Life!Next, Life!Exit
  <2>13. CASE UNCHANGED vars
    BY <2>13 DEF vars, ownerVars, runVars, modelVars
  <2>14. QED
    BY <2>1, <2>2, <2>3, <2>4, <2>5, <2>6, <2>7, <2>8, <2>9, <2>10, <2>11, <2>12, <2>13
       DEF Next, Main, Worker
<1>3. QED
  BY <1>1, <1>2, TypeCorrect, LifetimeHolds, PTL DEF Spec, Life!Spec
=============================================================================
