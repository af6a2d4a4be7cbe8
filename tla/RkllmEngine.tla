---------------------------- MODULE RkllmEngine ----------------------------
(***************************************************************************)
(* src/rkllm_engine.cpp: the owner thread (main) loads the model, launches *)
(* the inference thread, and at the end asks it to stop, joins it and      *)
(* destroys the handle.  The inference thread takes one prompt at a time,  *)
(* clears the KV cache and calls rkllm_run, which calls back on the same   *)
(* thread.  The librkllmrt runtime is external: what it may answer is      *)
(* nondeterministic.  Prompts are their publication numbers.               *)
(***************************************************************************)
EXTENDS Naturals, Sequences

CONSTANTS
  PromptCapacity,  \* capacity of prompt_q_
  Blank,           \* prompts whose text is empty
  MaxPrompts,      \* bound: TextRecognized events
  MaxTokens        \* max_new_tokens

ASSUME RkllmAssumption ==
  /\ PromptCapacity \in Nat \ {0}
  /\ Blank \subseteq Nat
  /\ MaxPrompts \in Nat
  /\ MaxTokens \in Nat

VARIABLES
  ctl,             \* the owner's position in start() and stop()
  llm_handle_,     \* "null" or "live"
  prompt_q,        \* contents of the queue prompt_q_ points to
  stop_flag_,
  worker,          \* the inference thread's position in run()
  prompt,          \* the event run() last popped
  current_output_, \* the round each accumulated token belongs to
  token_index_,
  kv,              \* library: rounds the KV cache remembers
  round,           \* history: the prompt of the last rkllm_run, 0 before it
  generated,       \* history: tokens the library produced in that rkllm_run
  report,          \* history: what was published about the end of that round
  asked,           \* history: prompts published
  clear_failed,    \* history: rounds whose rkllm_clear_kv_cache answered nonzero
  late             \* history: rounds begun after stop() set the flag

queueVars  == <<prompt_q, asked>>
answerVars == <<current_output_, token_index_, generated>>
cacheVars  == <<kv, clear_failed>>
roundVars  == <<cacheVars, round, report, late>>
ownerVars  == <<ctl, llm_handle_, stop_flag_>>
runVars    == <<prompt, queueVars, answerVars, roundVars>>
vars       == <<ownerVars, worker, runVars>>

InLibrary  == {"clear", "begin", "run", "returning"}
Subscribed == ctl \notin {"off", "loaded", "failed"}

Init ==
  /\ ctl = "off" /\ llm_handle_ = "null" /\ stop_flag_ = FALSE
  /\ worker = "none" /\ prompt = 0
  /\ prompt_q = <<>> /\ asked = 0
  /\ current_output_ = <<>> /\ token_index_ = 0 /\ generated = 0
  /\ kv = {} /\ clear_failed = {} /\ round = 0 /\ report = "none" /\ late = 0

Owner(from, to)  == ctl = from /\ ctl' = to
Thread(from, to) == worker = from /\ worker' = to

\* What was published about the end of the round.
Report(r) ==
  /\ report' = r
  /\ UNCHANGED <<ownerVars, prompt, queueVars, answerVars, cacheVars, round, late>>

----------------------------------------------------------------------------
(* Faulty variants of the steps below, for the properties to reject.       *)

\* The handle is destroyed and the pointer kept.
DestroyKeepsPointer ==
  /\ Owner("joined", "stopped")
  /\ llm_handle_' = "dangling"
  /\ UNCHANGED <<stop_flag_, worker, runVars>>

\* stop() does not wait for the inference thread.
JoinDetaches ==
  /\ Owner("joining", "joined")
  /\ UNCHANGED <<llm_handle_, stop_flag_, worker, runVars>>

\* The accumulators are reset only after a round that finished.
BeginRoundResetsAfterFinish ==
  /\ Thread("begin", "run")
  /\ current_output_' = IF report = "error" THEN current_output_ ELSE <<>>
  /\ token_index_' = IF report = "error" THEN token_index_ ELSE 0
  /\ generated' = 0
  /\ kv' = kv \cup {prompt} /\ round' = prompt /\ report' = "none"
  /\ late' = IF stop_flag_ THEN late + 1 ELSE late
  /\ UNCHANGED <<ownerVars, prompt, queueVars, clear_failed>>

\* A nonzero return code is only logged.
RunFailsSilently ==
  /\ Thread("run", "check") \/ (Thread("returning", "check") /\ report = "error")
  /\ UNCHANGED <<ownerVars, runVars>>

\* An inference error ends the thread.
RunFailsForGood ==
  /\ Thread("run", "exited") \/ (Thread("returning", "exited") /\ report = "error")
  /\ Report("error")

\* keep_history = 0 is trusted to discard the history.
ClearCacheSkipped ==
  Thread("clear", "begin") /\ UNCHANGED <<ownerVars, runVars>>

\* The loop ends only once the queue is empty.
CheckStopDrains ==
  /\ Thread("check", IF stop_flag_ /\ prompt_q = <<>> THEN "exited" ELSE "wait")
  /\ UNCHANGED <<ownerVars, runVars>>

\* pop() in place of pop_for(): an empty queue holds the thread.
PopNeverTimesOut == FALSE

----------------------------------------------------------------------------
(* start: the file is missing, or rkllm_init fails, or the thread runs.    *)

StartFails ==
  Owner("off", "failed") /\ UNCHANGED <<llm_handle_, stop_flag_, worker, runVars>>

LoadModel ==
  /\ Owner("off", "loaded")
  /\ llm_handle_' = "live"
  /\ UNCHANGED <<stop_flag_, worker, runVars>>

SubscribePrompts ==
  Owner("loaded", "subscribed") /\ UNCHANGED <<llm_handle_, stop_flag_, worker, runVars>>

Launch ==
  /\ Owner("subscribed", "started")
  /\ stop_flag_' = FALSE
  /\ worker' = "check"
  /\ UNCHANGED <<llm_handle_, runVars>>

----------------------------------------------------------------------------
(* stop: returns at once, changing nothing, unless thread_ is joinable.    *)

RequestStop ==
  /\ Owner("started", "joining")
  /\ stop_flag_' = TRUE
  /\ UNCHANGED <<llm_handle_, worker, runVars>>

Join ==
  /\ Owner("joining", "joined")
  /\ worker = "exited"
  /\ UNCHANGED <<llm_handle_, stop_flag_, worker, runVars>>

Destroy ==
  /\ Owner("joined", "stopped")
  /\ llm_handle_' = "null"
  /\ UNCHANGED <<stop_flag_, worker, runVars>>

----------------------------------------------------------------------------
(* TextRecognized published by another thread.                             *)

Ask ==
  /\ asked < MaxPrompts
  /\ asked' = asked + 1
  /\ prompt_q' = LET full == Len(prompt_q) >= PromptCapacity IN
       IF ~Subscribed THEN prompt_q
       ELSE Append(IF full THEN Tail(prompt_q) ELSE prompt_q, asked + 1)
  /\ UNCHANGED <<ownerVars, worker, prompt, answerVars, roundVars>>

----------------------------------------------------------------------------
(* run                                                                     *)

CheckStop ==
  /\ Thread("check", IF stop_flag_ THEN "exited" ELSE "wait")
  /\ UNCHANGED <<ownerVars, runVars>>

PopTimeout ==
  /\ Thread("wait", "check")
  /\ prompt_q = <<>>
  /\ UNCHANGED <<ownerVars, runVars>>

PopPrompt ==
  /\ prompt_q # <<>>
  /\ prompt' = Head(prompt_q)
  /\ prompt_q' = Tail(prompt_q)
  /\ Thread("wait", IF prompt' \in Blank THEN "check" ELSE "clear")
  /\ UNCHANGED <<ownerVars, asked, answerVars, roundVars>>

\* The library's rkllm_clear_kv_cache.
ClearKvCache ==
  \/ kv' = {} /\ UNCHANGED clear_failed
  \/ clear_failed' = clear_failed \cup {prompt} /\ UNCHANGED kv

\* A failure is logged and the round goes on.
ClearCache ==
  /\ Thread("clear", "begin")
  /\ ClearKvCache
  /\ UNCHANGED <<ownerVars, prompt, queueVars, answerVars, round, report, late>>

BeginRound ==
  /\ Thread("begin", "run")
  /\ current_output_' = <<>> /\ token_index_' = 0 /\ generated' = 0
  /\ kv' = kv \cup {prompt} /\ round' = prompt /\ report' = "none"
  /\ late' = IF stop_flag_ THEN late + 1 ELSE late
  /\ UNCHANGED <<ownerVars, prompt, queueVars, clear_failed>>

OnToken ==
  /\ worker = "run" /\ generated < MaxTokens
  /\ generated' = generated + 1
  /\ current_output_' = Append(current_output_, round)
  /\ token_index_' = token_index_ + 1
  /\ UNCHANGED <<ownerVars, worker, prompt, queueVars, roundVars>>

OnFinish == Thread("run", "returning") /\ Report("done")

OnError == Thread("run", "returning") /\ Report("error")

\* rkllm_run returns zero after a final callback.
RunSucceeds == Thread("returning", "check") /\ UNCHANGED <<ownerVars, runVars>>

\* rkllm_run returns nonzero, with or without an ERROR callback before.
RunFails ==
  /\ Thread("run", "check") \/ (Thread("returning", "check") /\ report = "error")
  /\ Report("error")

----------------------------------------------------------------------------

Main    == StartFails \/ LoadModel \/ SubscribePrompts \/ Launch
           \/ RequestStop \/ Join \/ Destroy
Library == OnToken \/ OnFinish \/ OnError \/ RunSucceeds \/ RunFails
Worker  == CheckStop \/ PopTimeout \/ PopPrompt \/ ClearCache \/ BeginRound
           \/ Library

Next == Main \/ Ask \/ Worker

Spec == Init /\ [][Next]_vars

\* The inference thread runs; rkllm_run produces at most max_new_tokens and
\* returns; stop(), once called, is carried through.
FairSpec == Spec /\ WF_vars(Worker) /\ WF_vars(Join \/ Destroy)

----------------------------------------------------------------------------

TypeOK ==
  /\ ctl \in {"off", "loaded", "subscribed", "failed", "started", "joining",
              "joined", "stopped"}
  /\ llm_handle_ \in {"null", "live"}
  /\ stop_flag_ \in BOOLEAN
  /\ worker \in {"none", "check", "wait", "exited"} \cup InLibrary
  /\ prompt \in Nat /\ round \in Nat /\ asked \in Nat /\ late \in Nat
  /\ prompt_q \in Seq(Nat)
  /\ current_output_ \in Seq(Nat)
  /\ token_index_ \in Nat /\ generated \in Nat
  /\ kv \subseteq Nat /\ clear_failed \subseteq Nat
  /\ report \in {"none", "done", "error"}

\* The handle is never destroyed under an inference: whenever the thread is
\* about to call or inside the runtime, the handle is live (rkllm_engine.hpp:
\* destroying it in mid-answer may crash the NPU).
HandleOutlivesUse == worker \in InLibrary => llm_handle_ = "live"

\* The tokens accumulated for LlmDone, and the index of the next LlmToken, are
\* those of the current round alone, also after a round that ended in an error.
AnswerIsOfThisRound ==
  worker \in {"run", "returning"} =>
    /\ token_index_ = generated
    /\ current_output_ = [k \in 1 .. generated |-> round]

\* When the thread is back in its loop, the end of the last round was published:
\* LlmDone or Error, whatever mix of callbacks and return code reported it.
EveryRoundReported == (round # 0 /\ worker # "run") => report # "none"

\* The model never sees two rounds at once unless the library reported that it
\* could not clear the cache for the later one: what keep_history = 0 does not
\* do, run() does before every round, and a failed clear is made good by the
\* next one that succeeds, however many rounds piled up in between.
SingleTurn == \A p, q \in kv : p < q => q \in clear_failed

\* After stop() set the flag at most one more answer is begun, however many
\* prompts wait: the one the thread was already popping.
OneRoundAfterStop == late <= 1

\* A queued prompt is eventually taken or pushed out by newer ones, unless the
\* engine is told to stop.
Queued(k) == \E i \in 1 .. Len(prompt_q) : prompt_q[i] = k
PromptLeavesQueue ==
  \A k \in 1 .. MaxPrompts :
    (worker # "none" /\ Queued(k)) ~> (~Queued(k) \/ stop_flag_)

\* To main the engine is one that loads in start() and ends only when asked to;
\* in particular stop() returns, also when prompts keep coming.
Life == INSTANCE EngineLife WITH
          SelfLoading <- FALSE, MayGiveUp <- FALSE,
          phase  <- CASE ctl = "started"               -> "serving"
                      [] ctl \in {"joining", "joined"} -> "stopping"
                      [] ctl \in {"failed", "stopped"} -> ctl
                      [] OTHER                         -> "off",
          thread <- IF worker \in {"none", "exited"} THEN worker ELSE "running",
          held   <- llm_handle_ = "live"
ImplementsLife == Life!FairSpec

\* README.md, "barge-in": after the current answer the engine goes on with the
\* newest question.  (The code pops the older of two waiting ones.)
NewestPromptNext ==
  [][(worker = "wait" /\ worker' = "clear") =>
       prompt' = prompt_q[Len(prompt_q)]]_vars
=============================================================================
