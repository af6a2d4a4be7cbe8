--------------------------- MODULE AudioCapture ----------------------------
(***************************************************************************)
(* src/audio_capture.cpp: the owner thread (main) opens and configures the *)
(* PCM device, settling the number of channels with the driver, launches   *)
(* the capture thread, and at the end stops, joins and closes.  The        *)
(* capture thread reads one period at a time and recovers from overruns    *)
(* and suspends.  ALSA and the device are external.  A sample is the read  *)
(* that delivered it, its frame and its channel; a mono sample is the set  *)
(* of the samples that were averaged.                                      *)
(***************************************************************************)
EXTENDS Naturals, Sequences

CONSTANTS
  Channels,            \* cfg_.channels
  MaxChannels,         \* bound: channels a device can have
  Periods,             \* period sizes a device may grant, in frames
  MaxErrors,           \* cfg_.max_consecutive_errors
  MaxXruns,            \* bound: overruns
  MaxChunks            \* bound: chunks published

ASSUME CaptureAssumption ==
  /\ Channels \in Nat \ {0} /\ MaxChannels \in Nat \ {0}
  /\ Periods \subseteq Nat \ {0}
  /\ MaxErrors \in Nat \ {0}
  /\ MaxXruns \in Nat /\ MaxChunks \in Nat

VARIABLES
  ctl,                 \* the owner's position in start() and stop()
  stop_flag_,
  pcm_,                \* "null" or "open"
  hw_channels_,
  raw_buf_,            \* the interleaved samples
  worker,              \* the capture thread's position in run()
  frames_per_read,
  consecutive_errors,
  xrun_count_,
  device,              \* driver: channels it supports, [min, max]
  running_channels,    \* driver: channels it will deliver
  suspended,           \* driver: resume answers -EAGAIN
  streak,              \* history: reads failed since one delivered frames
  chunks,              \* history: AudioChunk events published
  chunk,               \* history: samples of the last AudioChunk
  delivered,           \* history: frames the read for it delivered
  errors               \* history: Error events published

pcmVars    == <<pcm_, hw_channels_, running_channels>>
readVars   == <<frames_per_read, consecutive_errors, xrun_count_, streak>>
bufVars    == <<raw_buf_, chunk, delivered>>
eventVars  == <<chunks, errors>>
ownerVars  == <<ctl, stop_flag_>>
deviceVars == <<device, suspended>>
runVars    == <<deviceVars, readVars, bufVars, eventVars>>
vars       == <<ownerVars, worker, pcmVars, runVars>>

Init ==
  /\ ctl = "off" /\ stop_flag_ = FALSE /\ pcm_ = "null"
  /\ hw_channels_ = 1 /\ raw_buf_ = <<>>
  /\ worker = "none" /\ frames_per_read = 0
  /\ consecutive_errors = 0 /\ xrun_count_ = 0
  /\ device \in {[min |-> lo, max |-> hi] :
                   lo \in 1 .. MaxChannels, hi \in 0 .. MaxChannels}
  /\ running_channels = device.min
  /\ suspended = FALSE
  /\ streak = 0 /\ chunks = 0 /\ errors = 0 /\ chunk = <<>> /\ delivered = 0

Supports(c) == device.min <= c /\ c <= device.max

Owner(from, to)  == ctl = from /\ ctl' = to
Thread(from, to) == worker = from /\ worker' = to

\* snd_pcm_readi wrote n frames of the channels the device runs with.
Filled(n) ==
  [k \in 1 .. Len(raw_buf_) |->
     IF k <= n * running_channels
       THEN <<chunks + 1, 1 + ((k - 1) \div running_channels), 1 + ((k - 1) % running_channels)>>
       ELSE raw_buf_[k]]

pcm_s16_to_float(buf, n) == [i \in 1 .. n |-> {buf[i]}]

downmix_to_mono(buf, n, channels) ==
  [i \in 1 .. n |-> {buf[(i - 1) * channels + c] : c \in 1 .. channels}]

\* The first n frames of raw_buf_ are converted and published.
PublishChunk(n) ==
  /\ chunks < MaxChunks
  /\ chunks' = chunks + 1
  /\ chunk' = IF hw_channels_ = 1 THEN pcm_s16_to_float(raw_buf_', n)
              ELSE downmix_to_mono(raw_buf_', n, hw_channels_)
  /\ UNCHANGED <<ownerVars, pcmVars, deviceVars, frames_per_read, xrun_count_, errors>>

----------------------------------------------------------------------------
(* Faulty variants of the steps below, for the properties to reject.       *)

\* The return code of the channel request is ignored.
NegotiateChannelsBlindly ==
  /\ Owner("opened", "negotiated")
  /\ hw_channels_' = Channels
  /\ running_channels' = IF Supports(Channels) THEN Channels ELSE device.min
  /\ UNCHANGED <<stop_flag_, worker, pcm_, runVars>>

\* stop() does not wait for the capture thread.
JoinDetaches ==
  Owner("joining", "joined") /\ UNCHANGED <<stop_flag_, worker, pcmVars, runVars>>

\* The device is closed and the pointer kept.
ClosePcmKeepsPointer ==
  /\ Owner("joined", "stopped")
  /\ pcm_' = "dangling"
  /\ UNCHANGED <<stop_flag_, worker, hw_channels_, running_channels, runVars>>

\* The loop looks at the flag only while reads succeed.
CheckStopWhenHealthy ==
  /\ Thread("check", IF stop_flag_ /\ consecutive_errors = 0 THEN "exited" ELSE "read")
  /\ UNCHANGED <<ownerVars, pcmVars, runVars>>

\* A delivered period does not end the series of failures.
ReadFramesKeepsErrors ==
  /\ Thread("read", "check")
  /\ \E n \in 1 .. frames_per_read :
       delivered' = n /\ raw_buf_' = Filled(n) /\ PublishChunk(n)
  /\ streak' = 0 /\ UNCHANGED consecutive_errors

\* A whole period is published, however much of it the read delivered.
ReadFramesWholePeriod ==
  /\ Thread("read", "check")
  /\ \E n \in 1 .. frames_per_read :
       delivered' = n /\ raw_buf_' = Filled(n) /\ PublishChunk(frames_per_read)
  /\ consecutive_errors' = 0 /\ streak' = 0

----------------------------------------------------------------------------
(* start: open_pcm, then the thread.  Every failure after the open closes. *)

OpenFails ==
  Owner("off", "failed") /\ UNCHANGED <<stop_flag_, worker, pcmVars, runVars>>

OpenDevice ==
  /\ Owner("off", "opened")
  /\ pcm_' = "open"
  /\ UNCHANGED <<stop_flag_, worker, hw_channels_, running_channels, runVars>>

\* Access, format, the second channel request, rate, period, buffer size or
\* hw_params is refused.  (hw_channels_ may have been set; nobody reads it then.)
ConfigureFails ==
  /\ Owner("opened", "failed") \/ Owner("negotiated", "failed")
  /\ pcm_' = "null"
  /\ UNCHANGED <<stop_flag_, worker, hw_channels_, running_channels, runVars>>

\* The channels asked for, else the fewest the device has; a device without a
\* valid range is an error.
NegotiateChannels ==
  /\ Owner("opened", "negotiated")
  /\ hw_channels_' = IF Supports(Channels) THEN Channels ELSE device.min
  /\ Supports(hw_channels_')
  /\ running_channels' = hw_channels_'
  /\ UNCHANGED <<stop_flag_, worker, pcm_, runVars>>

AllocateBuffer ==
  /\ Owner("negotiated", "ready")
  /\ \E period \in Periods :
       raw_buf_' = [k \in 1 .. period * hw_channels_ |-> <<0, 0, 0>>]
  /\ UNCHANGED <<stop_flag_, worker, pcmVars, deviceVars, readVars, chunk, delivered,
                 eventVars>>

Launch ==
  /\ Owner("ready", "started")
  /\ stop_flag_' = FALSE
  /\ worker' = "check"
  /\ frames_per_read' = Len(raw_buf_) \div hw_channels_
  /\ consecutive_errors' = 0
  /\ UNCHANGED <<pcmVars, deviceVars, xrun_count_, streak, bufVars, eventVars>>

----------------------------------------------------------------------------
(* stop: returns at once, changing nothing, unless thread_ is joinable; it *)
(* still is when the capture thread has given up.                          *)

RequestStop ==
  /\ Owner("started", "joining")
  /\ stop_flag_' = TRUE
  /\ UNCHANGED <<worker, pcmVars, runVars>>

Join ==
  /\ Owner("joining", "joined")
  /\ worker = "exited"
  /\ UNCHANGED <<stop_flag_, worker, pcmVars, runVars>>

ClosePcm ==
  /\ Owner("joined", "stopped")
  /\ pcm_' = "null"
  /\ UNCHANGED <<stop_flag_, worker, hw_channels_, running_channels, runVars>>

----------------------------------------------------------------------------
(* run                                                                     *)

CheckStop ==
  /\ Thread("check", IF stop_flag_ THEN "exited" ELSE "read")
  /\ UNCHANGED <<ownerVars, pcmVars, runVars>>

ReadFrames ==
  /\ Thread("read", "check")
  /\ \E n \in 1 .. frames_per_read :
       delivered' = n /\ raw_buf_' = Filled(n) /\ PublishChunk(n)
  /\ consecutive_errors' = 0 /\ streak' = 0

ReadNothing == Thread("read", "check") /\ UNCHANGED <<ownerVars, pcmVars, runVars>>

\* What run() does after recover_from_error, whether or not it succeeded.
CountFailure(from) ==
  /\ consecutive_errors' = consecutive_errors + 1
  /\ streak' = streak + 1
  /\ IF consecutive_errors' >= MaxErrors
       THEN Thread(from, "exited") /\ errors' = errors + 1
       ELSE Thread(from, "check")  /\ errors' = errors
  /\ UNCHANGED <<ownerVars, pcmVars, deviceVars, frames_per_read, bufVars, chunks>>

ReadOverrun ==
  /\ xrun_count_ < MaxXruns
  /\ xrun_count_' = xrun_count_ + 1
  /\ CountFailure("read")

ReadFails == CountFailure("read") /\ UNCHANGED xrun_count_

\* -ESTRPIPE: the thread repeats snd_pcm_resume, looking at nothing else,
\* until the driver answers other than -EAGAIN.
ReadSuspended ==
  /\ Thread("read", "resume")
  /\ suspended' = TRUE
  /\ UNCHANGED <<ownerVars, pcmVars, device, readVars, bufVars, eventVars>>

ResumeReturns ==
  /\ ~suspended
  /\ CountFailure("resume")
  /\ UNCHANGED xrun_count_

\* The driver completes the resume, or reports that it cannot.
DeviceResumes ==
  /\ suspended
  /\ suspended' = FALSE
  /\ UNCHANGED <<ownerVars, worker, pcmVars, device, readVars, bufVars, eventVars>>

----------------------------------------------------------------------------

Main   == \/ OpenFails \/ OpenDevice \/ ConfigureFails \/ NegotiateChannels
          \/ AllocateBuffer \/ Launch \/ RequestStop \/ Join \/ ClosePcm
Worker == \/ CheckStop \/ ReadFrames \/ ReadNothing
          \/ ReadOverrun \/ ReadFails \/ ReadSuspended \/ ResumeReturns

Next == Main \/ Worker \/ DeviceResumes

Spec == Init /\ [][Next]_vars

\* Reads return; stop(), once called, is carried through.
FairSpec == Spec /\ WF_vars(Worker) /\ WF_vars(Join \/ ClosePcm)

\* Moreover a suspended device is resumed some day.
FairDeviceSpec == FairSpec /\ WF_vars(DeviceResumes)

----------------------------------------------------------------------------

TypeOK ==
  /\ ctl \in {"off", "failed", "opened", "negotiated", "ready", "started",
              "joining", "joined", "stopped"}
  /\ stop_flag_ \in BOOLEAN /\ suspended \in BOOLEAN
  /\ pcm_ \in {"null", "open"}
  /\ worker \in {"none", "check", "read", "resume", "exited"}
  /\ device \in [min : Nat, max : Nat]
  /\ hw_channels_ \in Nat /\ running_channels \in Nat
  /\ raw_buf_ \in Seq(Nat \X Nat \X Nat) /\ frames_per_read \in Nat
  /\ chunk \in Seq(SUBSET (Nat \X Nat \X Nat)) /\ delivered \in Nat
  /\ consecutive_errors \in Nat /\ xrun_count_ \in Nat /\ streak \in Nat
  /\ chunks \in Nat /\ errors \in Nat

\* A read never writes past raw_buf_: the driver delivers frames_per_read
\* frames of the channels it really runs with.
ReadFitsBuffer ==
  worker = "read" =>
    /\ frames_per_read > 0
    /\ frames_per_read * running_channels <= Len(raw_buf_)

\* The device is open whenever the thread uses it, and closed after start()
\* failed anywhere and after stop().
PcmLifetime ==
  /\ worker \in {"read", "resume"} => pcm_ = "open"
  /\ ctl \in {"failed", "stopped"} => pcm_ = "null"

\* A published chunk is what its read delivered, frame by frame, each frame the
\* average of all channels: nothing of an earlier period that a short read left
\* in raw_buf_, and no frame split across channels.
ChunkIsItsRead ==
  chunk = [i \in 1 .. delivered |->
             {<<chunks, i, c>> : c \in 1 .. running_channels}]

\* The thread ends with the read that makes MaxErrors failures in a row, neither
\* before, unless stop() ends it, nor after, and then exactly one Error says so.
GivesUpLoudly ==
  /\ errors = IF streak >= MaxErrors THEN 1 ELSE 0
  /\ streak >= MaxErrors => worker = "exited"
  /\ worker = "exited" => stop_flag_ \/ streak >= MaxErrors

\* To main the engine is one that may give up by itself, and whose stop()
\* returns as long as a suspended device comes back.
Life == INSTANCE EngineLife WITH
          SelfLoading <- FALSE, MayGiveUp <- TRUE,
          phase  <- CASE ctl = "started"               -> "serving"
                      [] ctl \in {"joining", "joined"} -> "stopping"
                      [] ctl \in {"failed", "stopped"} -> ctl
                      [] OTHER                         -> "off",
          thread <- IF worker \in {"none", "exited"} THEN worker ELSE "running",
          held   <- pcm_ = "open"
ImplementsLife == Life!FairSpec

\* audio_capture.cpp, at join: the thread notices the flag within one period.
\* (Not while the device stays suspended.)
StopReturns == (ctl = "joining") ~> (ctl = "stopped")
=============================================================================
