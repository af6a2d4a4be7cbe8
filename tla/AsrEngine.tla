----------------------------- MODULE AsrEngine -----------------------------
(***************************************************************************)
(* src/asr_engine.cpp: the owner thread (main) launches the ASR thread and *)
(* waits for the promise that reports whether the models were loaded; the  *)
(* ASR thread creates, uses and destroys the models itself.  It feeds one  *)
(* chunk at a time to the VAD, then decodes and publishes every completed  *)
(* segment for which the library creates a stream; meanwhile the capture   *)
(* thread goes on filling chunk_q_.  The sherpa-onnx library is external.  *)
(* Chunks are numbered from 1.                                             *)
(***************************************************************************)
EXTENDS Naturals, Sequences, SequencesExt

CONSTANTS
  ChunkCapacity,   \* capacity of chunk_q_
  MaxChunks        \* bound: chunks captured

ASSUME AsrAssumption ==
  /\ ChunkCapacity \in Nat \ {0}
  /\ MaxChunks \in Nat

VARIABLES
  ctl,             \* the owner's position in start() and stop()
  stop_flag_,
  init_result_,    \* the promise: "none", "ok" or "error"
  vad_,            \* "null" or "live"
  recognizer_,     \* "null" or "live"
  speech_active_,
  worker,          \* the ASR thread's position in run()
  chunk_q,         \* contents of the queue chunk_q_ points to
  captured,        \* history: chunks captured
  voiced,          \* the chunks that contain speech, for the whole behaviour
  speech,          \* VAD: chunks of the segment that is not complete
  segments,        \* VAD: completed segments
  fed,             \* history: voiced chunks fed to the VAD
  transcribed,     \* history: chunks of the segments transcribe() was given
                   \* and that were popped, in order
  decoded,         \* history: those whose segment was decoded
  refused,         \* history: those whose segment the library had no stream for
  utterances,      \* history: segments begun in the VAD
  starts           \* history: SpeechStart events published

queueVars == <<chunk_q, captured, voiced>>
modelVars == <<vad_, recognizer_>>
vadVars   == <<speech, segments, fed, utterances>>
textVars  == <<transcribed, decoded, refused>>
outVars   == <<textVars, starts>>
ownerVars == <<ctl, stop_flag_>>
runVars   == <<speech_active_, queueVars, modelVars, vadVars, outVars>>
vars      == <<ownerVars, init_result_, worker, runVars>>

Init ==
  /\ ctl = "off" /\ stop_flag_ = FALSE /\ init_result_ = "none"
  /\ vad_ = "null" /\ recognizer_ = "null"
  /\ speech_active_ = FALSE /\ worker = "none"
  /\ chunk_q = <<>> /\ captured = 0
  /\ voiced \in SUBSET (1 .. MaxChunks)
  /\ speech = <<>> /\ segments = <<>> /\ fed = <<>> /\ utterances = 0
  /\ transcribed = <<>> /\ decoded = {} /\ refused = {} /\ starts = 0

Owner(from, to)  == ctl = from /\ ctl' = to
Thread(from, to) == worker = from /\ worker' = to

----------------------------------------------------------------------------
(* The library's AcceptWaveform.  Speech opens a segment or extends it;    *)
(* enough silence (less, once the segment has its maximal length)          *)
(* completes it.                                                           *)

Accept(c) ==
  \/ /\ c \in voiced
     /\ fed' = Append(fed, c)
     /\ utterances' = IF speech = <<>> THEN utterances + 1 ELSE utterances
     /\ speech' = Append(speech, c)
     /\ UNCHANGED segments
  \/ /\ c \notin voiced
     /\ speech # <<>>
     /\ segments' = Append(segments, speech)
     /\ speech' = <<>>
     /\ UNCHANGED <<fed, utterances>>
  \/ /\ c \notin voiced
     /\ UNCHANGED vadVars

----------------------------------------------------------------------------
(* Faulty variants of the steps below, for the properties to reject.       *)

\* The pointers survive the models.
DestroyLeavesPointers ==
  /\ Thread("drainLast", "exited")
  /\ segments = <<>>
  /\ vad_' = "dangling" /\ recognizer_' = "dangling"
  /\ UNCHANGED <<ownerVars, init_result_, speech_active_, queueVars, vadVars, outVars>>

\* The second failure path leaves without fulfilling the promise.
CreateRecognizerFailsMutely ==
  /\ \/ /\ Thread("createRecognizer", "check")
        /\ recognizer_' = "live" /\ init_result_' = "ok" /\ UNCHANGED vad_
     \/ /\ Thread("createRecognizer", "exited")
        /\ vad_' = "null" /\ UNCHANGED <<recognizer_, init_result_>>
  /\ UNCHANGED <<ownerVars, speech_active_, queueVars, vadVars, outVars>>

\* No flush at the end of run().
CheckStopSkipsFlush ==
  /\ Thread("check", IF stop_flag_ THEN "drainLast" ELSE "wait")
  /\ UNCHANGED <<ownerVars, init_result_, runVars>>

\* speech_active_ is never cleared.
PopAndFeedLatches ==
  /\ Thread("wait", "drain")
  /\ chunk_q # <<>> /\ chunk_q' = Tail(chunk_q)
  /\ Accept(Head(chunk_q))
  /\ starts' = IF speech' # <<>> /\ ~speech_active_ THEN starts + 1 ELSE starts
  /\ speech_active_' = (speech_active_ \/ speech' # <<>>)
  /\ UNCHANGED <<ownerVars, init_result_, captured, voiced, modelVars, textVars>>

\* The segment is popped before it is read.
DecodePopsFirst ==
  /\ Thread("decode", "drain") \/ Thread("decodeLast", "drainLast")
  /\ segments' = Tail(segments)
  /\ LET seen == IF segments' = <<>> THEN <<>> ELSE Head(segments') IN
       transcribed' = transcribed \o seen /\ decoded' = decoded \cup ToSet(seen)
  /\ UNCHANGED <<ownerVars, init_result_, speech_active_, queueVars, modelVars,
                 speech, fed, utterances, refused, starts>>

----------------------------------------------------------------------------
(* start: a model file may be missing; otherwise wait for the ASR thread.  *)

StartRejected ==
  Owner("off", "rejected") /\ UNCHANGED <<stop_flag_, init_result_, worker, runVars>>

SubscribeChunks ==
  Owner("off", "subscribed") /\ UNCHANGED <<stop_flag_, init_result_, worker, runVars>>

Launch ==
  /\ Owner("subscribed", "awaiting")
  /\ speech_active_' = FALSE /\ stop_flag_' = FALSE /\ init_result_' = "none"
  /\ worker' = "createVad"
  /\ UNCHANGED <<queueVars, modelVars, vadVars, outVars>>

\* fut.get(), and on failure thread_.join().
StartSucceeds ==
  /\ Owner("awaiting", "started")
  /\ init_result_ = "ok"
  /\ UNCHANGED <<stop_flag_, init_result_, worker, runVars>>

StartFails ==
  /\ Owner("awaiting", "failed")
  /\ init_result_ = "error" /\ worker = "exited"
  /\ UNCHANGED <<stop_flag_, init_result_, worker, runVars>>

----------------------------------------------------------------------------
(* stop: returns at once, changing nothing, unless thread_ is joinable.    *)

RequestStop ==
  /\ Owner("started", "joining")
  /\ stop_flag_' = TRUE
  /\ UNCHANGED <<init_result_, worker, runVars>>

Join ==
  /\ Owner("joining", "stopped")
  /\ worker = "exited"
  /\ UNCHANGED <<stop_flag_, init_result_, worker, runVars>>

----------------------------------------------------------------------------
(* The capture thread publishes AudioChunk.  It is started after start()   *)
(* returned and joined before stop() is called.                            *)

Capture ==
  /\ ctl = "started" /\ captured < MaxChunks
  /\ captured' = captured + 1
  /\ chunk_q' = LET full == Len(chunk_q) >= ChunkCapacity IN
       Append(IF full THEN Tail(chunk_q) ELSE chunk_q, captured + 1)
  /\ UNCHANGED <<ownerVars, init_result_, worker, speech_active_, voiced,
                 modelVars, vadVars, outVars>>

----------------------------------------------------------------------------
(* run: init_models                                                        *)

CreateVad ==
  /\ \/ /\ Thread("createVad", "createRecognizer")
        /\ vad_' = "live" /\ UNCHANGED init_result_
     \/ /\ Thread("createVad", "exited")
        /\ init_result_' = "error" /\ UNCHANGED vad_
  /\ UNCHANGED <<ownerVars, recognizer_, speech_active_, queueVars, vadVars, outVars>>

CreateRecognizer ==
  /\ \/ /\ Thread("createRecognizer", "check")
        /\ recognizer_' = "live" /\ init_result_' = "ok" /\ UNCHANGED vad_
     \/ /\ Thread("createRecognizer", "exited")
        /\ vad_' = "null" /\ init_result_' = "error" /\ UNCHANGED recognizer_
  /\ UNCHANGED <<ownerVars, speech_active_, queueVars, vadVars, outVars>>

----------------------------------------------------------------------------
(* run: the loop, and the end of the thread                                *)

CheckStop ==
  /\ Thread("check", IF stop_flag_ THEN "flush" ELSE "wait")
  /\ UNCHANGED <<ownerVars, init_result_, runVars>>

PopTimeout ==
  /\ Thread("wait", "drain")
  /\ chunk_q = <<>>
  /\ UNCHANGED <<ownerVars, init_result_, runVars>>

\* pop_for, feed_vad and publish_speech_start_if_rising.
PopAndFeed ==
  /\ Thread("wait", "drain")
  /\ chunk_q # <<>> /\ chunk_q' = Tail(chunk_q)
  /\ Accept(Head(chunk_q))
  /\ LET detected == speech' # <<>> IN
       /\ starts' = IF detected /\ ~speech_active_ THEN starts + 1 ELSE starts
       /\ speech_active_' = detected
  /\ UNCHANGED <<ownerVars, init_result_, captured, voiced, modelVars, textVars>>

\* One iteration of drain_vad_segments: transcribe() asks for a stream for the
\* segment at the front (Front() answers NULL for an empty queue only), ...
CreateStream ==
  /\ Thread("drain", "decode") \/ Thread("drainLast", "decodeLast")
  /\ segments # <<>>
  /\ UNCHANGED <<ownerVars, init_result_, runVars>>

\* The segment at the front, transcribed to a text or to none, is popped.
PopSegment ==
  /\ segments # <<>>
  /\ transcribed' = transcribed \o Head(segments)
  /\ segments' = Tail(segments)
  /\ UNCHANGED <<ownerVars, init_result_, speech_active_, queueVars, modelVars,
                 speech, fed, utterances, starts>>

\* ... without one returns no text, ...
StreamRefused ==
  /\ worker \in {"drain", "drainLast"} /\ UNCHANGED worker
  /\ PopSegment
  /\ refused' = refused \cup ToSet(Head(segments)) /\ UNCHANGED decoded

\* ... and with one decodes it and returns the text, which may be empty.
Decode ==
  /\ Thread("decode", "drain") \/ Thread("decodeLast", "drainLast")
  /\ PopSegment
  /\ decoded' = decoded \cup ToSet(Head(segments)) /\ UNCHANGED refused

Drained ==
  /\ Thread("drain", "check")
  /\ segments = <<>>
  /\ UNCHANGED <<ownerVars, init_result_, runVars>>

\* Force the last segment out.
FlushVad ==
  /\ Thread("flush", "drainLast")
  /\ segments' = IF speech = <<>> THEN segments ELSE Append(segments, speech)
  /\ speech' = <<>>
  /\ UNCHANGED <<ownerVars, init_result_, speech_active_, queueVars, modelVars,
                 fed, utterances, outVars>>

DestroyModels ==
  /\ Thread("drainLast", "exited")
  /\ segments = <<>>
  /\ vad_' = "null" /\ recognizer_' = "null"
  /\ UNCHANGED <<ownerVars, init_result_, speech_active_, queueVars, vadVars, outVars>>

----------------------------------------------------------------------------

Main   == \/ StartRejected \/ SubscribeChunks \/ Launch \/ StartSucceeds
          \/ StartFails \/ RequestStop \/ Join
Worker == \/ CreateVad \/ CreateRecognizer \/ CheckStop \/ PopTimeout
          \/ PopAndFeed \/ CreateStream \/ StreamRefused \/ Decode \/ Drained
          \/ FlushVad \/ DestroyModels

Next == Main \/ Capture \/ Worker

Spec == Init /\ [][Next]_vars

\* The ASR thread runs and decoding returns; a call of start() or stop() is
\* carried through once it can be.
FairSpec ==
  Spec /\ WF_vars(Worker) /\ WF_vars(StartSucceeds \/ StartFails \/ Join)

----------------------------------------------------------------------------

TypeOK ==
  /\ ctl \in {"off", "rejected", "subscribed", "awaiting", "started", "failed",
              "joining", "stopped"}
  /\ stop_flag_ \in BOOLEAN /\ speech_active_ \in BOOLEAN
  /\ init_result_ \in {"none", "ok", "error"}
  /\ vad_ \in {"null", "live"} /\ recognizer_ \in {"null", "live"}
  /\ worker \in {"none", "createVad", "createRecognizer", "check", "wait",
                 "drain", "decode", "flush", "drainLast", "decodeLast", "exited"}
  /\ chunk_q \in Seq(Nat) /\ captured \in Nat /\ voiced \subseteq Nat
  /\ speech \in Seq(Nat) /\ segments \in Seq(Seq(Nat)) /\ fed \in Seq(Nat)
  /\ transcribed \in Seq(Nat) /\ decoded \subseteq Nat /\ refused \subseteq Nat
  /\ utterances \in Nat /\ starts \in Nat

\* All speech fed to the VAD is transcribed once and in order: what was popped,
\* what waits in completed segments and what is still being spoken.  None of it
\* is popped undecoded unless the library created no stream for its segment.
SpeechConserved ==
  /\ fed = transcribed \o FlattenSeq(segments) \o speech
  /\ ToSet(transcribed) = decoded \cup refused

\* When the thread ends everything fed has been through transcribe() (the flush
\* at the end of run()), however many streams were refused on the way, and no
\* model is left behind on any path out of it.
CleanExit ==
  worker = "exited" =>
    /\ transcribed = fed
    /\ vad_ = "null" /\ recognizer_ = "null"

\* Each utterance is announced by one SpeechStart, before its text.
OneStartPerUtterance == starts = utterances

\* To main the engine is one whose thread loads the models, both of which exist
\* while it serves; start() learns how loading ended and stop() returns.
Life == INSTANCE EngineLife WITH
          SelfLoading <- TRUE, MayGiveUp <- FALSE,
          phase  <- CASE ctl = "started"                 -> "serving"
                      [] ctl = "joining"                 -> "stopping"
                      [] ctl \in {"failed", "rejected"} -> "failed"
                      [] ctl = "stopped"                 -> "stopped"
                      [] OTHER                           -> "off",
          thread <- IF worker \in {"none", "exited"} THEN worker ELSE "running",
          held   <- vad_ = "live" /\ recognizer_ = "live"
ImplementsLife == Life!FairSpec

\* asr_engine.hpp: stop() flushes so that a user who presses Ctrl+C right after
\* the last word loses nothing.  (Chunks still in chunk_q_ are never fed.)
StopLosesNothing ==
  worker = "exited" =>
    \A i \in 1 .. Len(chunk_q) : chunk_q[i] \notin voiced

\* asr_engine.hpp: while decoding holds up the queue, the VAD's ring buffer keeps
\* the stream continuous.  (The buffer is behind the queue: speech that the full
\* queue evicts during a decode never reaches the VAD.)
DecodingMissesNoSpeech ==
  [][(worker \in {"decode", "decodeLast"}) =>
       ToSet(chunk_q) \cap voiced \subseteq ToSet(chunk_q')]_vars
=============================================================================
