------------------------- MODULE AudioCaptureProofs -------------------------
(***************************************************************************)
(* Theorems about AudioCapture for every device, every number of channels, *)
(* every set of period sizes and every limit on errors.                    *)
(***************************************************************************)
EXTENDS AudioCapture, SequenceTheorems, TLAPS

\* What a step of the owner or of the thread may change: the frame that the
\* proofs below share.
LEMMA OwnerFrame ==
  Main => /\ UNCHANGED <<device, suspended, xrun_count_, streak, chunk, delivered, chunks, errors>>
          /\ ~ Launch => UNCHANGED <<worker, frames_per_read, consecutive_errors>>
          /\ ~ AllocateBuffer => UNCHANGED raw_buf_
BY DEF Main, OpenFails, OpenDevice, ConfigureFails, NegotiateChannels, AllocateBuffer,
       Launch, RequestStop, Join, ClosePcm, runVars, deviceVars, readVars, bufVars,
       eventVars

LEMMA WorkerFrame ==
  Worker \/ DeviceResumes => UNCHANGED <<ownerVars, pcmVars, device, frames_per_read>>
BY DEF Worker, CheckStop, ReadFrames, ReadNothing, ReadOverrun, ReadFails,
       ReadSuspended, ResumeReturns, DeviceResumes, CountFailure, PublishChunk, runVars,
       deviceVars, readVars

-----------------------------------------------------------------------------
(* The geometry of raw_buf_.                                               *)

LEMMA DivModType == \A x \in Nat, h \in Nat \ {0} : x \div h \in Nat /\ x % h \in Nat
OBVIOUS

LEMMA DivOfProduct == \A p \in Nat, h \in Nat \ {0} : (p * h) \div h = p
OBVIOUS

\* Frame i of f frames of h interleaved samples lies within f * h samples ...
LEMMA FrameInBuffer ==
  ASSUME NEW h \in Nat \ {0}, NEW f \in Nat, NEW i \in 1 .. f, NEW c \in 1 .. h
  PROVE  (i - 1) * h + c \in 1 .. f * h
<1>1. (i - 1) * h + c \in Nat /\ (i - 1) * h + c >= 1
  OBVIOUS
<1>2. (i - 1) * h + c <= i * h
  OBVIOUS
<1>3. i * h <= f * h
  OBVIOUS
<1>4. QED
  BY <1>1, <1>2, <1>3

\* ... and its sample c is recovered from its index as frame i, channel c.
LEMMA SampleOfIndex ==
  ASSUME NEW h \in Nat \ {0}, NEW i \in Nat \ {0}, NEW c \in 1 .. h
  PROVE  /\ ((i - 1) * h + c - 1) \div h = i - 1
         /\ ((i - 1) * h + c - 1) % h = c - 1
<1>1. \A a \in Nat, b \in 0 .. h - 1 : (a * h + b) \div h = a /\ (a * h + b) % h = b
  OBVIOUS
<1>2. (i - 1) * h + c - 1 = (i - 1) * h + (c - 1) /\ i - 1 \in Nat /\ c - 1 \in 0 .. h - 1
  OBVIOUS
<1>3. QED
  BY <1>1, <1>2

\* raw_buf_ is a whole number of frames of the channels the device really runs
\* with, and the thread asks for that number.  TypeOK is not inductive without
\* it: Filled divides by running_channels.
Geometry ==
  /\ device.min > 0 /\ running_channels > 0 /\ hw_channels_ > 0
  /\ ctl \in {"negotiated", "ready", "started", "joining", "joined", "stopped"}
       => running_channels = hw_channels_
  /\ ctl \in {"ready", "started", "joining", "joined", "stopped"}
       => \E period \in Periods : Len(raw_buf_) = period * hw_channels_
  /\ worker # "none"
       => /\ ctl \in {"started", "joining", "joined", "stopped"}
          /\ frames_per_read > 0
          /\ Len(raw_buf_) = frames_per_read * hw_channels_

\* A read leaves the length of raw_buf_ as it is, and samples in it.
LEMMA FilledType ==
  ASSUME TypeOK, running_channels > 0, NEW n \in Nat
  PROVE  Filled(n) \in Seq(Nat \X Nat \X Nat) /\ Len(Filled(n)) = Len(raw_buf_)
<1>1. Len(raw_buf_) \in Nat
  BY DEF TypeOK
<1>2. ASSUME NEW k \in 1 .. Len(raw_buf_)
      PROVE  /\ <<chunks + 1, 1 + ((k - 1) \div running_channels),
                  1 + ((k - 1) % running_channels)>> \in Nat \X Nat \X Nat
             /\ raw_buf_[k] \in Nat \X Nat \X Nat
  <2>1. k - 1 \in Nat /\ running_channels \in Nat \ {0} /\ chunks \in Nat
    BY <1>1 DEF TypeOK
  <2>2. (k - 1) \div running_channels \in Nat /\ (k - 1) % running_channels \in Nat
    BY <2>1, DivModType
  <2>3. raw_buf_[k] \in Nat \X Nat \X Nat
    BY ElementOfSeq DEF TypeOK
  <2>4. QED
    BY <2>1, <2>2, <2>3, SMTT(30)
<1>3. Filled(n) \in [1 .. Len(raw_buf_) -> Nat \X Nat \X Nat]
  BY <1>2 DEF Filled
<1>4. QED
  BY <1>1, <1>3, SeqDef, LenProperties

\* The samples of a published chunk are samples of raw_buf_.
LEMMA ChunkType ==
  ASSUME NEW S, NEW buf \in Seq(S), NEW h \in Nat \ {0}, NEW f \in Nat, NEW n \in 1 .. f,
         Len(buf) = f * h
  PROVE  /\ h = 1 => pcm_s16_to_float(buf, n) \in Seq(SUBSET S)
         /\ downmix_to_mono(buf, n, h) \in Seq(SUBSET S)
<1>1. ASSUME NEW i \in 1 .. n, NEW c \in 1 .. h
      PROVE  buf[(i - 1) * h + c] \in S
  <2>1. (i - 1) * h + c \in 1 .. f * h
    BY FrameInBuffer
  <2>2. QED
    BY <2>1, ElementOfSeq
<1>2. downmix_to_mono(buf, n, h) \in [1 .. n -> SUBSET S]
  BY <1>1 DEF downmix_to_mono
<1>3. h = 1 => pcm_s16_to_float(buf, n) \in [1 .. n -> SUBSET S]
  <2> SUFFICES ASSUME h = 1, NEW i \in 1 .. n PROVE buf[i] \in S
    BY DEF pcm_s16_to_float
  <2>1. i \in 1 .. Len(buf)
    OBVIOUS
  <2>2. QED
    BY <2>1, ElementOfSeq
<1>4. QED
  BY <1>2, <1>3, SeqDef

-----------------------------------------------------------------------------

LEMMA TypeCorrectStep == TypeOK /\ Geometry /\ [Next]_vars => TypeOK'
<1> SUFFICES ASSUME TypeOK, Geometry, [Next]_vars PROVE TypeOK'
  OBVIOUS
<1> USE DEF TypeOK
<1>1. CASE OpenFails \/ OpenDevice \/ ConfigureFails \/ RequestStop \/ Join \/ ClosePcm
  BY <1>1 DEF OpenFails, OpenDevice, ConfigureFails, RequestStop, Join, ClosePcm, Owner,
     pcmVars, runVars, deviceVars, readVars, bufVars, eventVars
<1>2. CASE NegotiateChannels
  BY <1>2, CaptureAssumption DEF NegotiateChannels, Owner, runVars, deviceVars, readVars,
     bufVars, eventVars
<1>3. CASE AllocateBuffer
  <2>1. PICK period \in Periods :
          raw_buf_' = [k \in 1 .. period * hw_channels_ |-> <<0, 0, 0>>]
    BY <1>3 DEF AllocateBuffer
  <2>2. period * hw_channels_ \in Nat /\ <<0, 0, 0>> \in Nat \X Nat \X Nat
    BY CaptureAssumption
  <2>3. raw_buf_' \in Seq(Nat \X Nat \X Nat)
    BY <2>1, <2>2, SeqDef
  <2>4. QED
    BY <1>3, <2>3 DEF AllocateBuffer, Owner, pcmVars, deviceVars, readVars, eventVars
<1>4. CASE Launch
  <2>1. Len(raw_buf_) \in Nat /\ hw_channels_ \in Nat \ {0}
    BY DEF Geometry
  <2>2. Len(raw_buf_) \div hw_channels_ \in Nat
    BY <2>1, DivModType
  <2>3. QED
    BY <1>4, <2>2 DEF Launch, Owner, pcmVars, deviceVars, bufVars, eventVars
<1>5. CASE CheckStop \/ ReadNothing
  BY <1>5 DEF CheckStop, ReadNothing, Thread, ownerVars, pcmVars, runVars, deviceVars,
     readVars, bufVars, eventVars
<1>6. CASE ReadFrames
  <2>1. PICK n \in 1 .. frames_per_read :
          delivered' = n /\ raw_buf_' = Filled(n) /\ PublishChunk(n)
    BY <1>6 DEF ReadFrames
  <2>2. /\ worker = "read" /\ worker' = "check"
        /\ consecutive_errors' = 0 /\ streak' = 0 /\ chunks' = chunks + 1
        /\ UNCHANGED <<ownerVars, pcmVars, deviceVars, frames_per_read, xrun_count_, errors>>
    BY <1>6, <2>1 DEF ReadFrames, Thread, PublishChunk
  <2>3. raw_buf_' \in Seq(Nat \X Nat \X Nat) /\ Len(raw_buf_') = frames_per_read * hw_channels_
    BY <2>1, <2>2, FilledType DEF Geometry
  <2>4. chunk' \in Seq(SUBSET (Nat \X Nat \X Nat))
    <3> DEFINE S == Nat \X Nat \X Nat
    <3>1. raw_buf_' \in Seq(S) /\ hw_channels_ \in Nat \ {0} /\ frames_per_read \in Nat
      BY <2>3 DEF Geometry
    <3>2. /\ hw_channels_ = 1 => pcm_s16_to_float(raw_buf_', n) \in Seq(SUBSET S)
          /\ downmix_to_mono(raw_buf_', n, hw_channels_) \in Seq(SUBSET S)
      BY <2>3, <3>1, ChunkType
    <3>3. QED
      BY <2>1, <3>2 DEF PublishChunk
  <2>5. QED
    BY <2>1, <2>2, <2>3, <2>4 DEF ownerVars, pcmVars, deviceVars
<1>7. CASE ReadOverrun \/ ReadFails \/ ResumeReturns
  <2>1. PICK from \in {"read", "resume"} : CountFailure(from)
    BY <1>7 DEF ReadOverrun, ReadFails, ResumeReturns
  <2>2. xrun_count_' \in {xrun_count_, xrun_count_ + 1} /\ UNCHANGED suspended
    BY <1>7, <2>1 DEF ReadOverrun, ReadFails, ResumeReturns, CountFailure, deviceVars
  <2>3. worker' \in {"check", "exited"} /\ errors' \in {errors, errors + 1}
    BY <2>1 DEF CountFailure, Thread
  <2>4. QED
    BY <2>1, <2>2, <2>3 DEF CountFailure, ownerVars, pcmVars, deviceVars, bufVars
<1>8. CASE ReadSuspended \/ DeviceResumes
  BY <1>8 DEF ReadSuspended, DeviceResumes, Thread, ownerVars, pcmVars, readVars, bufVars,
     eventVars
<1>9. CASE UNCHANGED vars
  BY <1>9 DEF vars, ownerVars, pcmVars, runVars, deviceVars, readVars, bufVars, eventVars
<1>10. QED
  BY <1>1, <1>2, <1>3, <1>4, <1>5, <1>6, <1>7, <1>8, <1>9 DEF Next, Main, Worker

LEMMA GeometryStep == TypeOK /\ Geometry /\ [Next]_vars => Geometry'
<1> SUFFICES ASSUME TypeOK, Geometry, [Next]_vars PROVE Geometry'
  OBVIOUS
<1> USE DEF Geometry
<1>1. CASE OpenFails \/ OpenDevice \/ ConfigureFails \/ RequestStop \/ Join \/ ClosePcm
  BY <1>1 DEF OpenFails, OpenDevice, ConfigureFails, RequestStop, Join, ClosePcm, Owner,
     pcmVars, runVars, deviceVars, readVars, bufVars, eventVars
<1>2. CASE NegotiateChannels
  <2>1. hw_channels_' \in Nat \ {0} /\ running_channels' = hw_channels_'
    BY <1>2, CaptureAssumption DEF NegotiateChannels, TypeOK
  <2>2. QED
    BY <1>2, <2>1 DEF NegotiateChannels, Owner, runVars, deviceVars, readVars, bufVars
<1>3. CASE AllocateBuffer
  <2>1. PICK period \in Periods :
          raw_buf_' = [k \in 1 .. period * hw_channels_ |-> <<0, 0, 0>>]
    BY <1>3 DEF AllocateBuffer
  <2>2. period * hw_channels_ \in Nat
    BY CaptureAssumption DEF TypeOK
  <2>3. Len(raw_buf_') = period * hw_channels_
    BY <2>1, <2>2
  <2>4. QED
    BY <1>3, <2>3 DEF AllocateBuffer, Owner, pcmVars, deviceVars, readVars
<1>4. CASE Launch
  <2>1. PICK period \in Periods : Len(raw_buf_) = period * hw_channels_
    BY <1>4 DEF Launch, Owner
  <2>2. period \in Nat \ {0} /\ hw_channels_ \in Nat \ {0}
    BY CaptureAssumption DEF TypeOK
  <2>3. frames_per_read' = period
    BY <1>4, <2>1, <2>2, DivOfProduct DEF Launch
  <2>4. QED
    BY <1>4, <2>1, <2>2, <2>3 DEF Launch, Owner, pcmVars, deviceVars, bufVars
<1>5. CASE Worker \/ DeviceResumes
  <2>1. UNCHANGED <<ownerVars, pcmVars, device, frames_per_read>>
    BY <1>5, WorkerFrame
  <2>2. worker' # "none" => worker # "none"
    BY <1>5 DEF Worker, CheckStop, ReadFrames, ReadNothing, ReadOverrun, ReadFails,
       ReadSuspended, ResumeReturns, CountFailure, Thread, DeviceResumes
  <2>3. Len(raw_buf_') = Len(raw_buf_)
    <3>1. CASE ReadFrames
      <4>1. PICK n \in 1 .. frames_per_read : raw_buf_' = Filled(n)
        BY <3>1 DEF ReadFrames
      <4>2. QED
        BY <4>1, FilledType DEF TypeOK
    <3>2. CASE ~ ReadFrames
      BY <1>5, <3>2 DEF Worker, CheckStop, ReadNothing, ReadOverrun, ReadFails,
         ReadSuspended, ResumeReturns, DeviceResumes, CountFailure, runVars, bufVars
    <3>3. QED
      BY <3>1, <3>2
  <2>4. QED
    BY <2>1, <2>2, <2>3 DEF ownerVars, pcmVars
<1>6. CASE UNCHANGED vars
  BY <1>6 DEF vars, ownerVars, pcmVars, runVars, deviceVars, readVars, bufVars
<1>7. QED
  BY <1>1, <1>2, <1>3, <1>4, <1>5, <1>6 DEF Next, Main

LEMMA TypedGeometry == Spec => [](TypeOK /\ Geometry)
<1>1. Init => TypeOK /\ Geometry
  <2> SUFFICES ASSUME Init PROVE TypeOK /\ Geometry
    OBVIOUS
  <2>1. raw_buf_ \in Seq(Nat \X Nat \X Nat) /\ chunk \in Seq(SUBSET (Nat \X Nat \X Nat))
    BY DEF Init
  <2>2. /\ device \in [min : Nat, max : Nat]
        /\ device.min \in Nat \ {0} /\ running_channels = device.min
    BY CaptureAssumption DEF Init
  <2>3. TypeOK
    BY <2>1, <2>2 DEF Init, TypeOK
  <2>4. Geometry
    BY <2>2 DEF Init, Geometry
  <2>5. QED
    BY <2>3, <2>4
<1>2. QED
  BY <1>1, TypeCorrectStep, GeometryStep, PTL DEF Spec

\* Type correctness of the members, of what the driver keeps, and of the history.
THEOREM TypeCorrect == Spec => []TypeOK
BY TypedGeometry, PTL

\* No read writes past the buffer, whatever the driver granted.
THEOREM ReadFitsBufferHolds == Spec => []ReadFitsBuffer
<1>1. TypeOK /\ Geometry => ReadFitsBuffer
  <2>1. TypeOK => Len(raw_buf_) \in Nat
    BY DEF TypeOK
  <2>2. QED
    BY <2>1 DEF Geometry, ReadFitsBuffer
<1>2. QED
  BY <1>1, TypedGeometry, PTL

-----------------------------------------------------------------------------

\* How the owner's position, the thread's and the device go together.  The
\* device's lifetime is not inductive without it: ClosePcm looks at nothing but
\* the owner's position.
Lifetime ==
  /\ ctl \in {"opened", "negotiated", "ready", "started", "joining", "joined"}
       <=> pcm_ = "open"
  /\ worker # "none" <=> ctl \in {"started", "joining", "joined", "stopped"}
  /\ ctl \in {"joined", "stopped"} => worker = "exited"
  /\ stop_flag_ <=> ctl \in {"joining", "joined", "stopped"}

\* The steps of the thread, seen from the owner.
LEMMA WorkerPositions ==
  Worker \/ DeviceResumes =>
    \/ worker' = worker
    \/ /\ worker \in {"check", "read", "resume"}
       /\ worker' \in {"check", "read", "resume", "exited"}
<1> SUFFICES ASSUME Worker \/ DeviceResumes
             PROVE  \/ worker' = worker
                    \/ /\ worker \in {"check", "read", "resume"}
                       /\ worker' \in {"check", "read", "resume", "exited"}
  OBVIOUS
<1>1. CASE CheckStop \/ ReadFrames \/ ReadNothing \/ ReadSuspended \/ DeviceResumes
  BY <1>1 DEF CheckStop, ReadFrames, ReadNothing, ReadSuspended, DeviceResumes, Thread
<1>2. CASE ReadOverrun \/ ReadFails \/ ResumeReturns
  BY <1>2 DEF ReadOverrun, ReadFails, ResumeReturns, CountFailure, Thread
<1>3. QED
  BY <1>1, <1>2 DEF Worker

LEMMA LifetimeStep == TypeOK /\ Lifetime /\ [Next]_vars => Lifetime'
<1> SUFFICES ASSUME TypeOK, Lifetime, [Next]_vars PROVE Lifetime'
  OBVIOUS
<1> USE DEF TypeOK, Lifetime
<1>1. CASE Main
  <2>1. CASE Launch
    BY <2>1 DEF Launch, Owner, pcmVars
  <2>2. CASE ~ Launch
    <3>1. worker' = worker
      BY <1>1, <2>2, OwnerFrame
    <3>2. QED
      BY <1>1, <2>2, <3>1 DEF Main, OpenFails, OpenDevice, ConfigureFails,
         NegotiateChannels, AllocateBuffer, RequestStop, Join, ClosePcm, Owner, pcmVars
  <2>3. QED
    BY <2>1, <2>2
<1>2. CASE Worker \/ DeviceResumes
  BY <1>2, WorkerFrame, WorkerPositions DEF ownerVars, pcmVars
<1>3. CASE UNCHANGED vars
  BY <1>3 DEF vars, ownerVars, pcmVars
<1>4. QED
  BY <1>1, <1>2, <1>3 DEF Next

LEMMA LifetimeHolds == Spec => []Lifetime
<1>1. Init => Lifetime
  BY DEF Init, Lifetime
<1>2. QED
  BY <1>1, LifetimeStep, TypeCorrect, PTL DEF Spec

\* The device is open whenever the thread uses it, and closed once start() has
\* failed or stop() has returned.
THEOREM PcmLifetimeHolds == Spec => []PcmLifetime
<1>1. TypeOK /\ Lifetime => PcmLifetime
  BY DEF TypeOK, Lifetime, PcmLifetime
<1>2. QED
  BY <1>1, TypeCorrect, LifetimeHolds, PTL

-----------------------------------------------------------------------------

\* GivesUpLoudly strengthened: while the thread runs its counter is the number
\* of reads failed since one delivered, and nothing has been reported; the
\* report and the end of the thread go together.
GivesUpOnce ==
  /\ worker \notin {"none", "exited"} => errors = 0 /\ streak < MaxErrors
  /\ worker # "none" => streak = consecutive_errors
  /\ worker = "none" => errors = 0 /\ streak = 0
  /\ worker = "exited" =>
       \/ errors = 0 /\ stop_flag_ /\ streak < MaxErrors
       \/ errors = 1 /\ streak >= MaxErrors

LEMMA GivesUpOnceStep ==
  TypeOK /\ Lifetime /\ GivesUpOnce /\ [Next]_vars => GivesUpOnce'
<1> SUFFICES ASSUME TypeOK, Lifetime, GivesUpOnce, [Next]_vars PROVE GivesUpOnce'
  OBVIOUS
<1> USE DEF GivesUpOnce
<1>1. CASE Main
  <2>1. UNCHANGED <<streak, errors>>
    BY <1>1, OwnerFrame
  <2>2. CASE Launch
    <3>1. worker = "none" /\ worker' = "check" /\ consecutive_errors' = 0
      BY <2>2 DEF Launch, Owner, Lifetime
    <3>2. QED
      BY <2>1, <3>1, CaptureAssumption
  <2>3. CASE ~ Launch
    <3>1. UNCHANGED <<worker, consecutive_errors>>
      BY <1>1, <2>3, OwnerFrame
    <3>2. stop_flag_ => stop_flag_'
      BY <1>1, <2>3 DEF Main, OpenFails, OpenDevice, ConfigureFails, NegotiateChannels,
         AllocateBuffer, RequestStop, Join, ClosePcm
    <3>3. QED
      BY <2>1, <3>1, <3>2
  <2>4. QED
    BY <2>2, <2>3
<1>2. CASE CheckStop
  BY <1>2 DEF CheckStop, Thread, ownerVars, runVars, readVars, eventVars
<1>3. CASE ReadFrames
  <2>1. /\ worker = "read" /\ worker' = "check" /\ errors' = errors
        /\ streak' = 0 /\ consecutive_errors' = 0
    BY <1>3 DEF ReadFrames, PublishChunk, Thread
  <2>2. QED
    BY <2>1, CaptureAssumption
<1>4. CASE ReadNothing \/ ReadSuspended \/ DeviceResumes
  BY <1>4 DEF ReadNothing, ReadSuspended, DeviceResumes, Thread, ownerVars, runVars,
     readVars, eventVars
<1>5. CASE ReadOverrun \/ ReadFails \/ ResumeReturns
  <2>1. PICK from \in {"read", "resume"} : CountFailure(from)
    BY <1>5 DEF ReadOverrun, ReadFails, ResumeReturns
  <2>2. worker = from /\ errors = 0 /\ streak = consecutive_errors
    BY <2>1 DEF CountFailure, Thread
  <2>3. streak' = consecutive_errors'
    BY <2>1, <2>2 DEF CountFailure
  <2>4. CASE consecutive_errors' >= MaxErrors
    BY <2>1, <2>2, <2>3, <2>4 DEF CountFailure, Thread
  <2>5. CASE ~(consecutive_errors' >= MaxErrors)
    <3>1. consecutive_errors' \in Nat /\ consecutive_errors' < MaxErrors
      BY <2>1, <2>5, CaptureAssumption DEF CountFailure, TypeOK
    <3>2. worker' = "check" /\ errors' = 0
      BY <2>1, <2>2, <2>5 DEF CountFailure, Thread
    <3>3. QED
      BY <2>3, <3>1, <3>2
  <2>6. QED
    BY <2>4, <2>5
<1>6. CASE UNCHANGED vars
  BY <1>6 DEF vars, ownerVars, runVars, readVars, eventVars
<1>7. QED
  BY <1>1, <1>2, <1>3, <1>4, <1>5, <1>6 DEF Next, Worker

\* The thread ends by itself exactly when MaxErrors reads in a row have failed, and
\* then exactly one Error event tells.
THEOREM GivesUpLoudlyHolds == Spec => []GivesUpLoudly
<1>1. Init => GivesUpOnce
  BY DEF Init, GivesUpOnce
<1>2. TypeOK /\ GivesUpOnce => GivesUpLoudly
  <2> SUFFICES ASSUME TypeOK, GivesUpOnce PROVE GivesUpLoudly
    OBVIOUS
  <2>1. streak \in Nat /\ MaxErrors \in Nat \ {0}
    BY CaptureAssumption DEF TypeOK
  <2>2. CASE worker = "none"
    BY <2>1, <2>2 DEF GivesUpOnce, GivesUpLoudly
  <2>3. CASE worker = "exited"
    BY <2>1, <2>3 DEF GivesUpOnce, GivesUpLoudly
  <2>4. CASE worker \notin {"none", "exited"}
    BY <2>1, <2>4 DEF GivesUpOnce, GivesUpLoudly
  <2>5. QED
    BY <2>2, <2>3, <2>4
<1>3. QED
  BY <1>1, <1>2, GivesUpOnceStep, TypeCorrect, LifetimeHolds, PTL DEF Spec

-----------------------------------------------------------------------------

\* What a read leaves at the place of sample c of frame i.
LEMMA SampleRead ==
  ASSUME TypeOK, Geometry, worker = "read",
         NEW n \in 1 .. frames_per_read, NEW i \in 1 .. n, NEW c \in 1 .. running_channels
  PROVE  Filled(n)[(i - 1) * running_channels + c] = <<chunks + 1, i, c>>
<1> DEFINE h == running_channels
           k == (i - 1) * h + c
<1>1. h \in Nat \ {0} /\ frames_per_read \in Nat /\ Len(raw_buf_) = frames_per_read * h
  BY DEF TypeOK, Geometry
<1>2. n \in Nat /\ i \in Nat \ {0} /\ c \in 1 .. h
  BY <1>1
<1>3. k \in 1 .. n * h
  BY <1>1, <1>2, FrameInBuffer
<1>4. k \in 1 .. Len(raw_buf_)
  <2>1. i \in 1 .. frames_per_read
    BY <1>1
  <2>2. k \in 1 .. frames_per_read * h
    BY <1>1, <1>2, <2>1, FrameInBuffer
  <2>3. QED
    BY <1>1, <2>2
<1>5. (k - 1) \div h = i - 1 /\ (k - 1) % h = c - 1
  BY <1>1, <1>2, SampleOfIndex
<1>6. Filled(n)[k] = <<chunks + 1, 1 + ((k - 1) \div h), 1 + ((k - 1) % h)>>
  <2>1. n * h \in Nat /\ k <= n * h
    BY <1>1, <1>2, <1>3
  <2>2. QED
    BY <1>4, <2>1 DEF Filled
<1>7. 1 + (i - 1) = i /\ 1 + (c - 1) = c
  BY <1>1, <1>2
<1>8. QED
  BY <1>5, <1>6, <1>7

\* ChunkIsItsRead strengthened by what keeps it true when main negotiates the
\* channels: no chunk was delivered before the thread was launched.
ChunkOfThread ==
  /\ worker = "none" => delivered = 0
  /\ ChunkIsItsRead

LEMMA ChunkOfThreadStep ==
  TypeOK /\ Geometry /\ Lifetime /\ ChunkOfThread /\ [Next]_vars => ChunkOfThread'
<1> SUFFICES ASSUME TypeOK, Geometry, Lifetime, ChunkOfThread, [Next]_vars
             PROVE  ChunkOfThread'
  OBVIOUS
<1> USE DEF ChunkOfThread, ChunkIsItsRead
<1>1. CASE Main
  <2>1. UNCHANGED <<chunk, delivered, chunks>>
    BY <1>1, OwnerFrame
  <2>2. worker' = "none" => worker = "none"
    BY <1>1, OwnerFrame DEF Launch
  <2>3. CASE NegotiateChannels
    <3>1. delivered = 0
      BY <2>3 DEF NegotiateChannels, Owner, Lifetime
    <3>2. 1 .. delivered = {}
      BY <3>1
    <3>3. chunk = [i \in 1 .. delivered |-> {<<chunks, i, c>> : c \in 1 .. running_channels'}]
      BY <3>2
    <3>4. QED
      BY <2>1, <2>2, <3>3
  <2>4. CASE ~ NegotiateChannels
    <3>1. UNCHANGED running_channels
      BY <1>1, <2>4 DEF Main, OpenFails, OpenDevice, ConfigureFails, AllocateBuffer,
         Launch, RequestStop, Join, ClosePcm, pcmVars
    <3>2. QED
      BY <2>1, <2>2, <3>1
  <2>5. QED
    BY <2>3, <2>4
<1>2. CASE ReadFrames
  <2>1. PICK n \in 1 .. frames_per_read :
          delivered' = n /\ raw_buf_' = Filled(n) /\ PublishChunk(n)
    BY <1>2 DEF ReadFrames
  <2>2. /\ worker = "read" /\ worker' = "check" /\ chunks' = chunks + 1
        /\ UNCHANGED pcmVars
    BY <1>2, <2>1 DEF ReadFrames, Thread, PublishChunk
  <2>3. running_channels = hw_channels_ /\ running_channels \in Nat \ {0}
    BY <2>2 DEF TypeOK, Geometry
  <2>4. \A i \in 1 .. n, c \in 1 .. running_channels :
          raw_buf_'[(i - 1) * running_channels + c] = <<chunks', i, c>>
    BY <2>1, <2>2, SampleRead
  <2>5. CASE hw_channels_ = 1
    <3>1. chunk' = [i \in 1 .. n |-> {raw_buf_'[i]}]
      BY <2>1, <2>5 DEF PublishChunk, pcm_s16_to_float
    <3>2. ASSUME NEW i \in 1 .. n
          PROVE  {raw_buf_'[i]} = {<<chunks', i, c>> : c \in 1 .. running_channels}
      <4>1. (i - 1) * running_channels + 1 = i /\ 1 .. running_channels = {1}
        BY <2>3, <2>5
      <4>2. raw_buf_'[i] = <<chunks', i, 1>>
        BY <2>4, <4>1
      <4>3. QED
        BY <4>1, <4>2
    <3>3. QED
      BY <2>1, <2>2, <3>1, <3>2 DEF pcmVars
  <2>6. CASE hw_channels_ # 1
    <3>1. chunk' = [i \in 1 .. n |-> {raw_buf_'[(i - 1) * running_channels + c] :
                                        c \in 1 .. running_channels}]
      BY <2>1, <2>3, <2>6 DEF PublishChunk, downmix_to_mono
    <3>2. ASSUME NEW i \in 1 .. n
          PROVE  {raw_buf_'[(i - 1) * running_channels + c] : c \in 1 .. running_channels}
                   = {<<chunks', i, c>> : c \in 1 .. running_channels}
      BY <2>4
    <3>3. QED
      BY <2>1, <2>2, <3>1, <3>2 DEF pcmVars
  <2>7. QED
    BY <2>5, <2>6
<1>3. CASE CheckStop \/ ReadNothing \/ ReadSuspended \/ DeviceResumes
  BY <1>3 DEF CheckStop, ReadNothing, ReadSuspended, DeviceResumes, Thread, pcmVars,
     runVars, bufVars, eventVars
<1>4. CASE ReadOverrun \/ ReadFails \/ ResumeReturns
  <2>1. PICK from \in {"read", "resume"} : CountFailure(from)
    BY <1>4 DEF ReadOverrun, ReadFails, ResumeReturns
  <2>2. QED
    BY <2>1 DEF CountFailure, Thread, pcmVars, bufVars
<1>5. CASE UNCHANGED vars
  BY <1>5 DEF vars, pcmVars, runVars, bufVars, eventVars
<1>6. QED
  BY <1>1, <1>2, <1>3, <1>4, <1>5 DEF Next, Worker

\* A published chunk is exactly what its read delivered, whatever the number of
\* channels and however short the read.
THEOREM ChunkIsItsReadHolds == Spec => []ChunkIsItsRead
<1>1. Init => ChunkOfThread
  <2> SUFFICES ASSUME Init PROVE ChunkOfThread
    OBVIOUS
  <2>1. delivered = 0 /\ chunk = <<>>
    BY DEF Init
  <2>2. 1 .. delivered = {}
    BY <2>1
  <2>3. chunk = [i \in 1 .. delivered |-> {<<chunks, i, c>> : c \in 1 .. running_channels}]
    BY <2>1, <2>2
  <2>4. QED
    BY <2>1, <2>3 DEF ChunkOfThread, ChunkIsItsRead
<1>2. ChunkOfThread => ChunkIsItsRead
  BY DEF ChunkOfThread
<1>3. QED
  BY <1>1, <1>2, ChunkOfThreadStep, TypedGeometry, LifetimeHolds, PTL DEF Spec

-----------------------------------------------------------------------------

\* To main the capture is an engine that may give up: every step of the owner,
\* the thread or the driver is a step of such an engine's life, or leaves it
\* alone.
THEOREM ImplementsLifeSafety == Spec => Life!Spec
<1>1. Init => Life!Init
  BY DEF Init, Life!Init
<1>2. TypeOK /\ Lifetime /\ [Next]_vars => [Life!Next]_Life!life
  <2> SUFFICES ASSUME TypeOK, Lifetime, [Next]_vars PROVE [Life!Next]_Life!life
    OBVIOUS
  <2> USE DEF Lifetime, TypeOK, Life!life
  <2>1. CASE OpenFails
    BY <2>1 DEF OpenFails, Owner, pcmVars, Life!Next, Life!Fail
  <2>2. CASE OpenDevice
    BY <2>2 DEF OpenDevice, Owner, Life!Next, Life!Acquire
  <2>3. CASE ConfigureFails
    BY <2>3 DEF ConfigureFails, Owner, Life!Next, Life!Fail
  <2>4. CASE NegotiateChannels
    BY <2>4 DEF NegotiateChannels, Owner
  <2>5. CASE AllocateBuffer
    BY <2>5 DEF AllocateBuffer, Owner, pcmVars, deviceVars, readVars, eventVars
  <2>6. CASE Launch
    BY <2>6 DEF Launch, Owner, pcmVars, Life!Next, Life!Launch
  <2>7. CASE RequestStop
    BY <2>7 DEF RequestStop, Owner, pcmVars, Life!Next, Life!RequestStop
  <2>8. CASE Join
    BY <2>8 DEF Join, Owner, pcmVars
  <2>9. CASE ClosePcm
    BY <2>9 DEF ClosePcm, Owner, Life!Next, Life!Stopped
  <2>10. CASE Worker \/ DeviceResumes
    <3>1. ctl' = ctl /\ pcm_' = pcm_
      BY <2>10, WorkerFrame DEF ownerVars, pcmVars
    <3>2. CASE \/ worker' = worker
               \/ worker \notin {"none", "exited"} /\ worker' \notin {"none", "exited"}
      BY <3>1, <3>2
    <3>3. CASE worker \in {"check", "read", "resume"} /\ worker' = "exited"
      BY <3>1, <3>3 DEF Life!Next, Life!GiveUp
    <3>4. QED
      BY <2>10, <3>2, <3>3, WorkerPositions
  <2>11. CASE UNCHANGED vars
    BY <2>11 DEF vars, ownerVars, pcmVars
  <2>12. QED
    BY <2>1, <2>2, <2>3, <2>4, <2>5, <2>6, <2>7, <2>8, <2>9, <2>10, <2>11 DEF Next, Main
<1>3. QED
  BY <1>1, <1>2, TypeCorrect, LifetimeHolds, PTL DEF Spec, Life!Spec
=============================================================================
