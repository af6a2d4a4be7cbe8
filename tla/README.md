# Formal model of sound_recv

TLA+ modules, TLC runs and TLAPS proofs for `sound_recv`, the on-device voice
assistant for the RK3588: microphone -> VAD -> SenseVoice ASR -> LLM on the NPU
-> text streamed to the terminal. The reference is the C++ source under
`src/src` and `src/include`; where a comment or a document disagrees with it, the
model follows the code and the disagreement is a finding (see *Findings*).

## 1. The system

Three worker threads and `main`, connected only by bounded queues:

    capture thread --AudioChunk--> [64] --> ASR thread --TextRecognized--> [2] --> LLM thread
                                              |                                      |
                                              +--SpeechStart-->(nobody)              +--LlmToken, LlmDone, Error-->
                                                                                        (--test-prompt: main)

There is no dispatcher thread: `EventBus::publish` runs in the thread of the
producer and pushes into the queue of every subscriber.

| component | state | operations | who calls |
|---|---|---|---|
| `BlockingQueue` (blocking_queue.hpp) | `items_`, `dropped_`, `closed_`, `mu_`, `cv_` | `push` (drops the oldest when full), `pop`, `pop_for`, `close`, three getters | every thread |
| `EventBus` (event_bus.hpp) | `owned_`, `subscribers_`, `registry_mu_` | `subscribe`, `publish` (copy for all but the last subscriber, move into the last), `close_all` | every thread |
| `AudioCapture` (audio_capture.cpp) | `pcm_`, `hw_channels_`, `raw_buf_`, `xrun_count_`, `stop_flag_`, `thread_` | `start`/`open_pcm`, `run`, `recover_from_error`, `stop` | main; own thread |
| `AsrEngine` (asr_engine.cpp) | `vad_`, `recognizer_`, `speech_active_`, `init_result_`, `chunk_q_`, `stop_flag_`, `thread_` | `start`, `init_models`, `run` (feed, rising edge, drain, flush), `stop` | main; own thread |
| `RkllmEngine` (rkllm_engine.cpp) | `llm_handle_`, `current_output_`, `token_index_`, `prompt_q_`, `stop_flag_`, `thread_` | `start`, `run`, `on_result` (callback), `stop` | main; own thread; librkllmrt |
| `main` (main.cpp) | signal mask, `g_auto_stop` | start LLM, ASR, capture (clean-up on failure); wait for a signal; stop capture, ASR, LLM; `--test-prompt` mode | - |
| events, PCM conversion (types.hpp, audio_capture.cpp) | - | `make_event`, `pcm_s16_to_float`, `downmix_to_mono` | engines |
| log.hpp | stderr | `LogLine`: constructor, `<<`, destructor | every thread |
| command line (main.cpp) | `CliArgs` | `parse_args` | main |
| tests, build files, vendored runtimes | - | - | - |

What is hard, and what makes each part correct:

- **BlockingQueue.** `notify_one` and `notify_all` run after the unlock; waits can
  wake spuriously, expire, or be overtaken by a thread that takes the item
  without waiting. Correct: items are delivered once, oldest first, the oldest is
  dropped and counted when full; no thread stays parked beside an item or on a
  closed queue; a pop fails only when it may.
- **EventBus.** Publishers, subscribers and `close_all` race; the fan-out
  interleaves with consumers. Correct: every subscriber receives every event of
  its type once, whole, in publication order; a slow consumer blocks nobody.
- **AudioCapture.** A driver may run with other channels than were asked for;
  overruns, suspends and failures share one counter. Correct: a read fits the
  buffer, the device lives exactly as long as needed, the thread gives up only
  after enough failures in a row and says so, `stop` returns.
- **AsrEngine.** Models are created and destroyed by the thread, and `start` waits
  for the outcome through a promise; decoding holds up consumption. Correct:
  `start` always learns the outcome, what the VAD was fed goes through `transcribe`
  once and in order whatever fails there, no model leaks, each utterance is announced once.
- **RkllmEngine.** Inference is synchronous and long, ends by callback, return code
  or both, and the handle must not be destroyed under it. Correct: the handle
  outlives every use, rounds do not leak into each other, every round is
  reported, `stop` returns after at most one more answer.
- **main.** The order of start and shutdown, failure in the middle of the start,
  signals at any moment, waiting for an event that never comes. Correct: whoever consumes is
  started before and stopped after whoever produces, every way out leaves no thread and no
  resource behind, a signal ends the program unless the device never lets the
  capture thread go (`capture.stop()` joins it, and its resume loop has no other exit).

## 2. Modules

| module | models | extends / instantiates |
|---|---|---|
| `LossyWindow` | the promise of a queue: a window over the numbered accepted items | - |
| `BlockingQueue` | blocking_queue.hpp, one critical section per step | instantiates `LossyWindow` |
| `BlockingQueueProofs` | theorems about `BlockingQueue` | `BlockingQueue`, TLAPS, FiniteSetTheorems |
| `EventBus` | event_bus.hpp, one push per step | - |
| `EventBusProofs` | theorems about `EventBus` | `EventBus`, TLAPS, SequenceTheorems |
| `EngineLife` | the promise of an engine: its start, its thread, its resource, its stop | - |
| `RkllmEngine` | rkllm_engine.cpp | instantiates `EngineLife` |
| `AsrEngine` | asr_engine.cpp | instantiates `EngineLife` |
| `AudioCapture` | audio_capture.cpp, and the PCM conversions | instantiates `EngineLife` |
| `SoundRecv` | main.cpp: the program, over three engines that keep the promise | instantiates `EngineLife` three times |
| `RkllmEngineProofs`, `AsrEngineProofs`, `AudioCaptureProofs`, `SoundRecvProofs` | theorems about the module of the same name | that module, TLAPS, SequenceTheorems |
| `LogLine` | log.hpp | - |

The composition goes through the promise: each engine's module is shown to implement
`EngineLife` (`ImplementsLife`), and `SoundRecv`, in which the engines are no more than
`EngineLife` and the queues between them, is shown to use and to run each engine as `EngineLife` says
(`EnginesUsedProperly`). So `SoundRecv` stays small where the product of four detailed
modules would be out of TLC's reach.

Each component module ends with its properties; before its actions stand the
*faulty variants*: operations rewritten with a plausible bug, which some property
must reject. They are not part of `Next`.

### How state and actions correspond to the code

**BlockingQueue.** `items`, `dropped`, `closed` are the members. `mu_` is not a
variable: a critical section is one step, which is exact because nothing inside
one blocks or calls out. `pc[t]` says where thread `t` is: about to notify
(`notifyOne`, `notifyAll`: after the unlock), parked in `cv_.wait`
(`popWait`) or `cv_.wait_for` (`popForWait`), or awake again and about to take
`mu_` and evaluate the predicate (`popWake`, `popForWake`, and
`popForExpired` once the deadline passed). `NotifyOne` wakes any one parked thread or
nobody; `SpuriousWake` any parked thread; `Expire` also hits a thread that
was already notified. Items are their acceptance numbers, so that order and
identity are visible; `pushed`, `popped`, `out` are history.
A call that returns at once without effect (push on a closed queue, pop on an empty
closed one) is no step.

**EventBus.** `holder` owns `registry_mu_`. `publish` is `PublishBegin`,
one `PublishPush` per subscriber, `PublishEnd`; `close_all` likewise. `subscribe` is one
step, since its critical section touches nothing that can be seen without the
lock. A queue carries its capacity, its items, its counters and
the history fields `since`, `received`, `taken`. Its push and pop are single steps of
the window that `BlockingQueue` is shown to implement. `intact` is false of a moved-from event.

**EngineLife.** `phase` is the object as main sees it, `thread` its thread, `held` its resource (the
PCM device, the two models, the NPU handle). `SelfLoading` says that the thread acquires the resource and
`start()` waits for it (ASR); `MayGiveUp` that the thread may end by itself (capture). An
engine may do no more than the steps listed, and a `start()` that waits and a `stop()` return.

**RkllmEngine, AsrEngine, AudioCapture.** `ctl` is main's position in `start()` and
`stop()`, `worker` the thread's position in `run()`; the other variables are the
members of the class, the state of the external library and history. `stop_flag_`
is an atomic read once per loop: `CheckStop` is that read. `pop_for` is
`PopTimeout` or a pop; `stop()` without a joinable thread changes nothing and is no step.
An engine is started once, as `main` does. In AsrEngine the thread is at `decode` (`decodeLast` after the
flush) while it is in the library with a stream for the segment at the front: `CreateStream` leads there,
`Decode` back, and `StreamRefused` is the `transcribe` that gets no stream; either way the segment is popped
(`PopSegment`). `transcribed` is what was popped, `decoded` and `refused` how it went. In RkllmEngine `clear_failed`
are the rounds for which the library reported that it could not clear the cache: it is a fact of the
library's answer, not of the code having asked. In AudioCapture a sample is identified by its read, frame and
channel, so that `raw_buf_` shows what a short read leaves behind and a chunk which samples were averaged.

**SoundRecv.** `main` is main's position; `to_stop` the engines whose `stop()` is still to be called,
first those of the branch main takes, then those of the destructors of its locals, in reverse. A call of
`stop()` is `SkipStop` (nothing to join) or `RequestStop` and `Join`. The queues are counters: `chunk_q`,
`prompt_q`, `done_q`. `heard` says that the VAD holds speech: `Recognize` is its `transcribe`, which publishes a text
or has none (empty, or no stream), and the ASR's thread leaves only after it (the flush). A thread may still handle something
after the flag was set, as it reads the flag once per loop. The timeouts of `sigtimedwait` and
`pop_for` are the steps that find nothing.

**LogLine.** One step per stdio call, as stdio locks the stream for a call.

What the libraries may do is nondeterministic:
- librkllmrt: `rkllm_init`, `rkllm_clear_kv_cache` and `rkllm_run` may fail;
  `rkllm_run` calls back zero or more tokens, then FINISH and returns zero, or ERROR
  and returns zero or nonzero, or returns nonzero with no final callback. It is
  assumed that zero is returned only after a final callback, that `rkllm_run` returns, and that a
  clear which fails leaves the cache as it was.
- sherpa-onnx: either model may fail to load; a chunk with speech extends a segment,
  a chunk without completes it or not (silence, maximal length); `Flush` completes
  what is open. A stream may be refused for any segment, which is then popped undecoded
  (asr_engine.cpp:197-200); a decode returns, with a result or with none (:205, an empty text). It is assumed that
  `Front()` answers NULL for an empty queue only, as c-api.h documents, so that the `break` at :171-173 never leaves a
  segment behind. Which chunks contain speech is chosen once per behaviour; a burst the VAD
  discards as too short counts as silence, and a chunk holds at most one change
  between speech and silence (it is one VAD window, 32 ms, against 500 ms of silence).
- ALSA: any channel range, any refused request, any granted period; a read
  delivers, delivers nothing, overruns, fails, or finds the device suspended.

## 3. Runs

| run | module, cfg | instance | shows |
|---|---|---|---|
| `queue` | BlockingQueue | 3 threads, capacity 2, 4 items | accounting, no double delivery, no lost wake-up, close reaches everyone; refinement of `LossyWindow`; pops fail only when they may; waiting ends |
| `bus` | EventBus | 2 threads, 2 types, 2 queues of capacity 1 or 2, 3 events per type | fan-out complete, ordered, intact; the registry lock is released |
| `llm` | RkllmEngine | queue of 2, 5 prompts (one blank), 2 tokens | lifetime, isolation and reporting of rounds; refinement of `EngineLife` |
| `asr` | AsrEngine | queue of 2, 6 chunks, every set of voiced chunks, a stream or none for each segment | conservation of speech, clean exit, announcements; refinement of `EngineLife` |
| `capture` | AudioCapture | channel ranges up to 3, two periods, limit 3, 3 overruns, 3 chunks | buffer, lifetime, contents of chunks, giving up; refinement of `EngineLife` |
| `sound_recv` | SoundRecv | queues of 2, 4 chunks, every combination of modes and start failures | consumers outlive producers, what the VAD heard is transcribed before the LLM is stopped, every exit is clean, a signal or the timer ends the program unless the capture thread never leaves the device |
| `llm_newest`, `asr_stop_loses`, `asr_gaps`, `capture_suspended`, `test_prompt_error` (SoundRecv), `log_interleaves` (LogLine) | | | findings: each finds its one property violated |

**Bounds.** Queue: two waiters and a thread that pushes and pops without waiting are what a
lost wake-up needs, and four items overflow a capacity of two twice with one pop in
between; the proofs remove the bounds, here and in the other modules. Bus: two queues give one type a first
subscriber (copied to) and a last one (moved to), or two types one each; three events overflow
either capacity. LLM: five prompts
overflow the queue of two, real capacity, and leave rounds before and after; two
tokens tell a leaked answer from its successor. ASR: a capacity of two in place of
64 makes overflow happen within six chunks, which also hold two utterances with a
gap; `asr_gaps` has five, one utterance to decode and enough speech to overflow the queue meanwhile. Capture: a limit of three in place of ten lets recovered and fatal errors mix below,
at and after a reset; three channels and two periods tell a frame from a period.
SoundRecv: four chunks overflow the queue of two and give up to four utterances for the two prompts that fit.
`MaxPush`, `MaxQueues`, `MaxEvents`, `MaxPrompts`, `MaxChunks` and `MaxXruns`
bound the environment only; `MaxTokens` is `max_new_tokens`.

**Fairness.** Only what the code schedules for itself: a thread that is runnable runs
on (`WF` of the steps of a worker, of a thread inside the queue's or the bus's code), a deadline passes,
and a `start()` or `stop()` that was called continues once it can
(in `SoundRecv`, `main` runs on too and the timer of `--run-seconds` expires; nobody need send a signal). Of the
capture thread `SoundRecv` assumes nothing at all, since the resume loop (audio_capture.cpp:148-152) may
keep it for ever: `SignalEndsProgram` says that the program ends or that `main` stays for ever in the join of `capture.stop()`,
and so that nothing else can hold it up. The fairness of the ASR's and the LLM's thread is
that of their modules: a decode and `rkllm_run` return. Nobody is obliged to push, pop,
publish, stop or close; `Ask` and `Capture` have no fairness. `FairDeviceSpec` adds that a suspended
device comes back, which the code cannot guarantee; `capture_suspended` drops it.
The engines' runs say `CHECK_DEADLOCK FALSE` because the engine ends, the queue's because all
threads may be parked; the bus has no such state and is checked for deadlock.

## 4. Proofs

Every safety invariant that a passing run checks, and every action property, is also proved by
TLAPS for every value of the constants. The bounds (`MaxPush`, `MaxQueues`, `MaxChunks`, ...) are constants too,
any natural number: the proofs use them nowhere except where a property is about them. The assumptions
on the constants are the `ASSUME` of each module: capacities, periods and limits are positive, the threads of the queue are
finitely many, `NoThread` is no thread. Nothing else is assumed.

The proofs share one layout: a *type lemma*; *frame lemmas* that say once what the
owner's steps and the thread's steps leave alone; a *strengthened invariant* with one step lemma, one case
per action or per group of actions; theorems that follow from it by `PTL`. The strengthened
invariants were checked by TLC on the instances of section 3 before they were proved.

### The queue: `BlockingQueueProofs`

| theorem | property | argument |
|---|---|---|
| `TypeCorrect` | `TypeOK` | inductive by itself |
| `AccountingHolds` | `Accounting` | inductive with `TypeOK`; lemmas `PushedItems`, `TakenItems` say what push and pop do to the window |
| `NoDoubleDeliveryHolds` | `NoDoubleDelivery` | inductive over `Accounting`: an item taken is newer than all taken before. It compares what the threads got last; that no pop ever repeats an item is in `ImplementsWindow` |
| `WakeupBudgetHolds` | `WakeupBudget` | counting: a push adds an item and a notifier, a notification turns a notifier into a woken thread, a woken thread leaves only with an item or when there is none |
| `NoLostWakeupHolds` | `NoLostWakeup` | corollary of the budget; not inductive by itself |
| `CloseReachesWaitersHolds` | `CloseReachesWaiters` | inductive: no thread parks on a closed queue, and only `NotifyAll` retires the notifier |
| `FailsOnlyWhenEmptyHolds` | `FailsOnlyWhenEmpty` | per action, from `TypeOK` |
| `ImplementsWindowHolds` | `ImplementsWindow` | refinement mapping lo = popped + dropped, hi = pushed, from `Accounting` |

`WakeupBudget` is the strengthening that `NoLostWakeup` needs: "nobody is left to
bring them together" says nothing about how many items remain when one of two woken threads leaves.

### The bus: `EventBusProofs`

None of the bus's properties is inductive, and each needs the others. The invariant `BusInv` is

    TypeOK /\ Registry /\ Mutex /\ InFlight /\ FanOutComplete /\ Windows

- `Mutex`: a thread is inside the bus exactly when it holds `registry_mu_`, so there is one publisher at a time;
- `Registry`: the subscribers of a type name each of its queues once and nothing else, so a
  fan-out reaches each queue once. `TypeOK` needs it: `PublishPush` writes to the queue that the list names;
- `InFlight`: the event being fanned out is the newest of its type, and is whole while somebody is still to get it;
- `Windows`: `OrderedWindow` and `NoHollowEvent`. A push keeps them (`WindowPushed`) only of an
  event that is whole and carries the next number, which `FanOutComplete` (this queue is exactly one
  behind) and `InFlight` (the event is the newest) provide together.

| theorem | property | argument |
|---|---|---|
| `TypeCorrect` | `TypeOK` | from `Registry` |
| `FanOutCompleteHolds` | `FanOutComplete` | publishing puts every queue of the type one behind, each push brings one back; `Mutex` excludes a second publisher and a subscription in between |
| `OrderedWindowHolds` | `OrderedWindow` | `WindowPushed`, `WindowPopped` over the arithmetic of `PushCounts`, `PopCounts` |
| `NoHollowEventHolds` | `NoHollowEvent` | the same, from `InFlight` |

### The engines

| module | theorem | property | argument |
|---|---|---|---|
| `RkllmEngineProofs` | `TypeCorrect` | `TypeOK` | inductive by itself |
| | `HandleOutlivesUseHolds` | `HandleOutlivesUse` | `Lifetime`: how main's position, the thread's and the handle go together; `Destroy` looks at main's position only |
| | `AnswerIsOfThisRoundHolds`, `EveryRoundReportedHolds` | `AnswerIsOfThisRound`, `EveryRoundReported` | one case per way a round can end |
| | `SingleTurnHolds` | `SingleTurn` | `PromptOrder` (what waits is newer than what was answered, and in order) and `CacheAge` (what is in the cache is older than the prompt in hand, which failed its clear if the cache is not empty then) |
| | `OneRoundAfterStopHolds` | `OneRoundAfterStop` | with: a late round leads only to the check of the flag and out |
| | `ImplementsLifeSafety` | safety of `ImplementsLife` | from `Lifetime` |
| `AsrEngineProofs` | `TypeCorrect` | `TypeOK` | inductive by itself |
| | `SpeechConservedHolds` | `SpeechConserved` | `Pipeline`: where speech can be at each position of the thread, and that the VAD holds at most one completed segment, since `drain` follows every chunk; `Transcription` (with `ToSetOfConcat`): what was popped was decoded or refused |
| | `CleanExitHolds` | `CleanExit` | `Lifetime` (which models exist where, and what the promise holds) and `Pipeline` |
| | `OneStartPerUtteranceHolds` | `OneStartPerUtterance` | `RisingEdge`: between chunks `speech_active_` says whether the VAD is in an utterance |
| | `ImplementsLifeSafety` | safety of `ImplementsLife` | from `Lifetime` |
| `AudioCaptureProofs` | `TypeCorrect` | `TypeOK` | with `Geometry` (`raw_buf_` is a whole number of frames of the channels the device really runs with): a read divides by the channels |
| | `ReadFitsBufferHolds` | `ReadFitsBuffer` | `Geometry` |
| | `PcmLifetimeHolds` | `PcmLifetime` | `Lifetime`, as in the LLM |
| | `GivesUpLoudlyHolds` | `GivesUpLoudly` | `GivesUpOnce`: the counter is the number of reads failed since one delivered, and below the limit while the thread goes on |
| | `ChunkIsItsReadHolds` | `ChunkIsItsRead` | frame and channel of each sample by `DivModType`, `DivOfProduct`, `FrameInBuffer`, `SampleOfIndex`, `SampleRead` |
| | `ImplementsLifeSafety` | safety of `ImplementsLife` | from `Lifetime` |

`ImplementsLifeSafety` proves `Life!Spec`: each step of the engine is one of an engine's life or leaves it
alone. The run checks `Life!FairSpec`, which adds that a `start()` and a `stop()` return.

`SpeechConserved` is about `FlattenSeq`, defined by recursion, of any sequence of segments. It is within reach because
the code keeps at most one completed segment in the VAD, so that two unfoldings (`FlattenNone`,
`FlattenOne`) suffice and no induction is needed.

### The program: `SoundRecvProofs`

| theorem | property | argument |
|---|---|---|
| `TypeCorrect` | `TypeOK` | inductive by itself |
| `ConsumersOutliveProducersHolds` | `ConsumersOutliveProducers` | `Progress` |
| `ReturnsCleanHolds` | `ReturnsClean` | `Progress`, `Shape`, `Verdict` |
| `HeardIsDecodedFirstHolds` | `HeardIsDecodedFirst` | `HeardIsAttended`: speech is in the VAD only while the ASR's thread is there |
| `DoneNotMissedHolds` | `DoneNotMissed` | `AskedAfterSubscribing`: nothing was asked before `done_q` was registered |
| `EnginesUsedProperlyHolds` | `EnginesUsedProperly` | every action, engine by engine, from `Progress` and `Shape` |

`ConsumersOutliveProducers` relates engines only, but what makes it true is how far main has
come. `Progress` gives for each position of main, and for each list of engines still to stop, which engines
serve; it is what a reader of `main()` keeps in mind, with the failures of each `start()` and the second
`stop()` from the destructors. `Shape` adds what the phase of an engine says of its thread and resource, `Verdict` what
the exit status says of the phases.

With `EnginesUsedProperly` and the three `ImplementsLifeSafety`, both halves of the composition of section 2
are proved for safety: each engine promises `EngineLife`, and the program needs no more than that.

### Only model-checked

- Liveness: `ItemReachesWaiter`, `PopsReturn`, `RegistryReleased`, `PromptLeavesQueue`, `SignalEndsProgram`, and
  the fairness in `ImplementsLife`. It rests on `ENABLED` of the actions, which is outside what
  the backends prove.
- The properties of the runs that expect a violation: a counterexample is all there is to show.
- That the capture thread comes back from the device is assumed or not, proved nowhere: `capture` assumes it (`FairDeviceSpec`), `sound_recv` does not.
- That a queue of `EventBus` or a counter of `SoundRecv` may stand for a `BlockingQueue`: each is written as the window
  `LossyWindow` that the queue is proved to implement, but the substitution itself is an argument in this text.

## 5. Findings

| where | code | document |
|---|---|---|
| rkllm_engine.cpp:143 | answers the older of two waiting questions first | README.md:98: goes on with the newest |
| asr_engine.cpp:225 | chunks still queued at `stop()` are dropped | asr_engine.hpp:10-11: nothing said before Ctrl+C is lost |
| asr_engine.cpp:226 | while a segment is decoded the queue evicts speech in front of the VAD | asr_engine.hpp:7-8: the VAD's ring buffer keeps continuity |
| audio_capture.cpp:148 | `stop()` hangs while the device stays suspended | audio_capture.cpp:246: at most one period |
| main.cpp:177 | with `--test-prompt`, stays for ever after a round that failed | main.cpp:51, :162: exits by itself when generation has ended |
| log.hpp:30 | a line is one stdio call per piece, so lines of two threads mix | log.hpp:6, :18: one fprintf per line |

Smaller, without a run: event_bus.hpp:8 asks that everybody subscribes before main launches threads; the ASR and
`--test-prompt` (main.cpp:172) subscribe while the LLM thread runs, which is safe by the registry lock (`EventBus` subscribes
at any time). The capture thread gives up when failures in a row *reach* the limit
(audio_capture.cpp:201, and so `GivesUpLoudly`), audio_capture.hpp:9 and types.hpp:126 say when they *exceed* it.

## 6. Plan

Done: the queue, the bus, the three engines with their common promise `EngineLife`, the program
`SoundRecv`, the log; every safety property that a passing run checks is a theorem. Left:

1. State that each queue of the bus takes only steps of `LossyWindow`, so that its use in `EventBus` becomes a theorem.
2. Lift the results that runs only find indirectly: `LinesWhole` for a single thread that logs, `DecodingMissesNoSpeech` while the queue
   never overflows, i.e. under which conditions the violated statements do hold.

## 7. Not modelled

- Recognised text, sample values (scaling to [-1,1], rounding of the average), timestamps, prompt templates, the wording of
  messages: no property depends on them.
- Configuration: the defaults in types.hpp and the options that override a path, a device or a number. The values that matter
  (capacities, channels, limits) are constants of the modules.
- Memory ordering below atomics and mutexes: all shared state is behind one of them.
- Restarting an engine: `start()` tolerates it, main never does it.
- The vendored headers of sherpa-onnx and RKLLM (three quarters of the repository's lines) declare an interface
  and contain no behaviour; the libraries behind them are binaries. What the code relies on is in the engines' modules.
- The unit tests, the build files and the board tooling are no part of the program.
