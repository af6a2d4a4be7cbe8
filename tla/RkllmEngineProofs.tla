------------------------- MODULE RkllmEngineProofs --------------------------
(***************************************************************************)
(* Theorems about RkllmEngine for every capacity, every set of blank       *)
(* prompts, every answer length and every number of prompts.               *)
(***************************************************************************)
EXTENDS RkllmEngine, SequenceTheorems, TLAPS

\* What a step of the owner, of a publisher or of the thread may change: the
\* frame that the proofs below share.
LEMMA OwnerFrame ==
  Main => UNCHANGED runVars
BY DEF Main, StartFails, LoadModel, SubscribePrompts, Launch, RequestStop, Join,
       Destroy, Owner

LEMMA WorkerFrame ==
  Ask \/ Worker => UNCHANGED ownerVars
BY DEF Ask, Worker, Library, CheckStop, PopTimeout, PopPrompt, ClearCache,
       BeginRound, OnToken, OnFinish, OnError, RunSucceeds, RunFails, Report

-----------------------------------------------------------------------------

\* Every step keeps the members and the positions in their types.
LEMMA TypeCorrectStep == TypeOK /\ [Next]_vars => TypeOK'
<1> SUFFICES ASSUME TypeOK, [Next]_vars PROVE TypeOK'
  OBVIOUS
<1> USE DEF TypeOK, InLibrary
<1>1. CASE Main
  BY <1>1 DEF Main, StartFails, LoadModel, SubscribePrompts, Launch, RequestStop,
     Join, Destroy, Owner, runVars, queueVars, answerVars, roundVars, cacheVars
<1>2. CASE Ask
  <2>1. Len(prompt_q) >= PromptCapacity => prompt_q # <<>>
    BY RkllmAssumption, EmptySeq
  <2>2. prompt_q' \in Seq(Nat) /\ asked' \in Nat
    BY <1>2, <2>1 DEF Ask
  <2>3. QED
    BY <1>2, <2>2 DEF Ask, ownerVars, answerVars, roundVars, cacheVars
<1>3. CASE CheckStop \/ PopTimeout \/ RunSucceeds
  BY <1>3 DEF CheckStop, PopTimeout, RunSucceeds, Thread, ownerVars, runVars,
     queueVars, answerVars, roundVars, cacheVars
<1>4. CASE PopPrompt
  BY <1>4 DEF PopPrompt, Thread, ownerVars, answerVars, roundVars, cacheVars
<1>5. CASE ClearCache
  BY <1>5 DEF ClearCache, ClearKvCache, Thread, ownerVars, queueVars, answerVars
<1>6. CASE BeginRound
  BY <1>6 DEF BeginRound, Thread, ownerVars, queueVars
<1>7. CASE OnToken
  BY <1>7 DEF OnToken, ownerVars, queueVars, roundVars, cacheVars
<1>8. CASE OnFinish \/ OnError \/ RunFails
  BY <1>8 DEF OnFinish, OnError, RunFails, Report, Thread, ownerVars, queueVars,
     answerVars, cacheVars
<1>9. CASE UNCHANGED vars
  BY <1>9 DEF vars, ownerVars, runVars, queueVars, answerVars, roundVars, cacheVars
<1>10. QED
  BY <1>1, <1>2, <1>3, <1>4, <1>5, <1>6, <1>7, <1>8, <1>9 DEF Next, Worker, Library

\* Type correctness of the engine's members, positions and history.
THEOREM TypeCorrect == Spec => []TypeOK
<1>1. Init => TypeOK
  <2> SUFFICES ASSUME Init PROVE TypeOK
    OBVIOUS
  <2>1. prompt_q \in Seq(Nat) /\ current_output_ \in Seq(Nat)
    BY DEF Init
  <2>2. QED
    BY <2>1 DEF Init, TypeOK
<1>2. QED
  BY <1>1, TypeCorrectStep, PTL DEF Spec

-----------------------------------------------------------------------------

\* How the owner's position, the thread's and the handle go together.  The
\* handle's lifetime is not inductive without it: Destroy looks at nothing but
\* the owner's position.
Lifetime ==
  /\ ctl \in {"loaded", "subscribed", "started", "joining", "joined"}
       <=> llm_handle_ = "live"
  /\ ctl \in {"off", "loaded", "subscribed", "failed"} <=> worker = "none"
  /\ ctl \in {"joined", "stopped"} => worker = "exited"
  /\ stop_flag_ <=> ctl \in {"joining", "joined", "stopped"}
  /\ worker = "exited" => stop_flag_

LEMMA LifetimeStep == TypeOK /\ Lifetime /\ [Next]_vars => Lifetime'
<1> SUFFICES ASSUME TypeOK, Lifetime, [Next]_vars PROVE Lifetime'
  OBVIOUS
<1> USE DEF TypeOK, Lifetime, InLibrary
<1>1. CASE Main
  BY <1>1 DEF Main, StartFails, LoadModel, SubscribePrompts, Launch, RequestStop,
     Join, Destroy, Owner
<1>2. CASE Ask \/ Worker
  <2>1. ctl' = ctl /\ llm_handle_' = llm_handle_ /\ stop_flag_' = stop_flag_
    BY <1>2, WorkerFrame DEF ownerVars
  <2>2. \/ worker' = worker
        \/ worker \notin {"none", "exited"} /\ worker' \notin {"none", "exited"}
        \/ worker = "check" /\ worker' = "exited" /\ stop_flag_
    BY <1>2 DEF Ask, Worker, Library, CheckStop, PopTimeout, PopPrompt, ClearCache,
       BeginRound, OnToken, OnFinish, OnError, RunSucceeds, RunFails, Thread
  <2>3. QED
    BY <2>1, <2>2
<1>3. CASE UNCHANGED vars
  BY <1>3 DEF vars, ownerVars
<1>4. QED
  BY <1>1, <1>2, <1>3 DEF Next

LEMMA LifetimeHolds == Spec => []Lifetime
<1>1. Init => Lifetime
  BY DEF Init, Lifetime
<1>2. QED
  BY <1>1, LifetimeStep, TypeCorrect, PTL DEF Spec

\* The handle is never destroyed under an inference, whatever the thread is
\* doing when stop() is called.
THEOREM HandleOutlivesUseHolds == Spec => []HandleOutlivesUse
<1>1. TypeOK /\ Lifetime => HandleOutlivesUse
  BY DEF TypeOK, Lifetime, HandleOutlivesUse, InLibrary
<1>2. QED
  BY <1>1, TypeCorrect, LifetimeHolds, PTL

-----------------------------------------------------------------------------

\* The answer accumulated and the token index belong to the round in progress,
\* also when the round before ended in an error: BeginRound resets them.
THEOREM AnswerIsOfThisRoundHolds == Spec => []AnswerIsOfThisRound
<1>1. Init => AnswerIsOfThisRound
  BY DEF Init, AnswerIsOfThisRound
<1>2. TypeOK /\ AnswerIsOfThisRound /\ [Next]_vars => AnswerIsOfThisRound'
  <2> SUFFICES ASSUME TypeOK, AnswerIsOfThisRound, [Next]_vars
               PROVE  AnswerIsOfThisRound'
    OBVIOUS
  <2> USE DEF AnswerIsOfThisRound
  <2>1. CASE BeginRound
    <3>1. current_output_' = <<>> /\ token_index_' = 0 /\ generated' = 0
      BY <2>1 DEF BeginRound
    <3>2. QED
      BY <3>1
  <2>2. CASE OnToken
    <3>1. /\ worker = "run" /\ worker' = "run" /\ round' = round
          /\ generated' = generated + 1 /\ token_index_' = token_index_ + 1
          /\ current_output_' = Append(current_output_, round)
      BY <2>2 DEF OnToken, roundVars
    <3>2. /\ token_index_ = generated /\ generated \in Nat
          /\ current_output_ = [k \in 1 .. generated |-> round]
      BY <3>1 DEF TypeOK
    <3>3. Append(current_output_, round) = [k \in 1 .. generated + 1 |-> round]
      <4>1. current_output_ \in Seq(Nat) /\ round \in Nat /\ Len(current_output_) = generated
        BY <3>2 DEF TypeOK
      <4>2. QED
        BY <3>2, <4>1
    <3>4. QED
      BY <3>1, <3>2, <3>3
  <2>3. CASE OnFinish \/ OnError
    BY <2>3 DEF OnFinish, OnError, Report, Thread, answerVars
  <2>4. CASE RunSucceeds \/ RunFails \/ CheckStop \/ PopTimeout \/ PopPrompt \/ ClearCache
    BY <2>4 DEF RunSucceeds, RunFails, CheckStop, PopTimeout, PopPrompt, ClearCache, Thread
  <2>5. CASE Main
    <3>1. UNCHANGED <<answerVars, round>> /\ worker' \in {worker, "check"}
      BY <2>5, OwnerFrame DEF runVars, roundVars, Main, StartFails, LoadModel,
         SubscribePrompts, Launch, RequestStop, Join, Destroy
    <3>2. QED
      BY <3>1 DEF answerVars
  <2>6. CASE Ask \/ UNCHANGED vars
    BY <2>6 DEF Ask, vars, runVars, answerVars, roundVars
  <2>7. QED
    BY <2>1, <2>2, <2>3, <2>4, <2>5, <2>6 DEF Next, Worker, Library
<1>3. QED
  BY <1>1, <1>2, TypeCorrect, PTL DEF Spec

\* The end of every round is published: whichever mix of callback and return
\* code ends it, the thread does not leave it without a report.
THEOREM EveryRoundReportedHolds == Spec => []EveryRoundReported
<1>1. Init => EveryRoundReported
  BY DEF Init, EveryRoundReported
<1>2. Lifetime /\ EveryRoundReported /\ [Next]_vars => EveryRoundReported'
  <2> SUFFICES ASSUME Lifetime, EveryRoundReported, [Next]_vars
               PROVE  EveryRoundReported'
    OBVIOUS
  <2> USE DEF EveryRoundReported
  <2>1. CASE BeginRound
    BY <2>1 DEF BeginRound, Thread
  <2>2. CASE OnFinish \/ OnError \/ RunFails
    BY <2>2 DEF OnFinish, OnError, RunFails, Report
  <2>3. CASE \/ RunSucceeds \/ CheckStop \/ PopTimeout \/ PopPrompt \/ ClearCache
             \/ OnToken \/ Ask \/ UNCHANGED vars
    BY <2>3 DEF RunSucceeds, CheckStop, PopTimeout, PopPrompt, ClearCache, OnToken,
       Ask, Thread, vars, runVars, roundVars
  <2>4. CASE Main
    <3>1. UNCHANGED roundVars /\ (worker' = worker \/ worker = "none")
      BY <2>4, OwnerFrame DEF runVars, Lifetime, Main, StartFails, LoadModel,
         SubscribePrompts, Launch, RequestStop, Join, Destroy, Owner
    <3>2. QED
      BY <3>1 DEF roundVars
  <2>5. QED
    BY <2>1, <2>2, <2>3, <2>4 DEF Next, Worker, Library
<1>3. QED
  BY <1>1, <1>2, LifetimeHolds, PTL DEF Spec

-----------------------------------------------------------------------------

\* The prompts that wait are newer than the one last taken, and in order.
PromptOrder ==
  /\ prompt <= asked
  /\ \A i \in 1 .. Len(prompt_q) : prompt < prompt_q[i] /\ prompt_q[i] <= asked
  /\ \A i, j \in 1 .. Len(prompt_q) : i < j => prompt_q[i] < prompt_q[j]

LEMMA PromptOrderHolds == Spec => []PromptOrder
<1>1. Init => PromptOrder
  BY DEF Init, PromptOrder
<1>2. TypeOK /\ PromptOrder /\ [Next]_vars => PromptOrder'
  <2> SUFFICES ASSUME TypeOK, PromptOrder, [Next]_vars PROVE PromptOrder'
    OBVIOUS
  <2>1. CASE Ask
    <3> DEFINE q == IF Len(prompt_q) >= PromptCapacity THEN Tail(prompt_q) ELSE prompt_q
    <3>1. asked' = asked + 1 /\ prompt' = prompt
      BY <2>1 DEF Ask
    <3>2. prompt_q' = prompt_q \/ prompt_q' = Append(q, asked + 1)
      BY <2>1 DEF Ask
    <3>3. Len(prompt_q) >= PromptCapacity => prompt_q # <<>>
      BY RkllmAssumption, EmptySeq DEF TypeOK
    <3>4. q \in Seq(Nat) /\ asked \in Nat /\ prompt \in Nat
      BY <3>3 DEF TypeOK
    <3>5. /\ \A i \in 1 .. Len(q) : prompt < q[i] /\ q[i] <= asked
          /\ \A i, j \in 1 .. Len(q) : i < j => q[i] < q[j]
      <4>1. CASE q = prompt_q
        BY <4>1 DEF PromptOrder
      <4>2. CASE q = Tail(prompt_q) /\ prompt_q # <<>>
        <5>1. /\ Len(q) = Len(prompt_q) - 1 /\ Len(prompt_q) \in Nat
              /\ \A i \in 1 .. Len(q) : q[i] = prompt_q[i + 1]
          BY <4>2 DEF TypeOK
        <5>2. \A i \in 1 .. Len(q) : i + 1 \in 1 .. Len(prompt_q)
          BY <5>1
        <5>3. QED
          BY <5>1, <5>2 DEF PromptOrder
      <4>3. QED
        BY <3>3, <4>1, <4>2
    <3>6. CASE prompt_q' = prompt_q
      BY <3>1, <3>4, <3>6 DEF PromptOrder, TypeOK
    <3>7. CASE prompt_q' = Append(q, asked + 1)
      <4> HIDE DEF q
      <4>1. /\ Len(prompt_q') = Len(q) + 1 /\ Len(q) \in Nat
            /\ prompt_q'[Len(q) + 1] = asked + 1
            /\ \A i \in 1 .. Len(q) : prompt_q'[i] = q[i] /\ q[i] \in Nat
        BY <3>4, <3>7
      <4>2. prompt' <= asked'
        BY <3>1, <3>4 DEF PromptOrder
      <4>3. ASSUME NEW i \in 1 .. Len(prompt_q')
            PROVE  prompt' < prompt_q'[i] /\ prompt_q'[i] <= asked'
        <5>1. CASE i = Len(q) + 1
          BY <3>1, <3>4, <4>1, <5>1 DEF PromptOrder
        <5>2. CASE i \in 1 .. Len(q)
          <6>1. prompt < q[i] /\ q[i] <= asked /\ prompt_q'[i] = q[i] /\ q[i] \in Nat
            BY <3>5, <4>1, <5>2
          <6>2. QED
            BY <3>1, <3>4, <6>1
        <5>3. QED
          BY <4>1, <5>1, <5>2
      <4>4. ASSUME NEW i \in 1 .. Len(prompt_q'), NEW j \in 1 .. Len(prompt_q'), i < j
            PROVE  prompt_q'[i] < prompt_q'[j]
        <5>1. i \in 1 .. Len(q) /\ prompt_q'[i] = q[i] /\ q[i] \in Nat
          BY <4>1, <4>4
        <5>2. CASE j = Len(q) + 1
          <6>1. q[i] <= asked /\ prompt_q'[j] = asked + 1
            BY <3>5, <4>1, <5>1, <5>2
          <6>2. QED
            BY <3>4, <5>1, <6>1
        <5>3. CASE j \in 1 .. Len(q)
          <6>1. q[i] < q[j] /\ prompt_q'[j] = q[j]
            BY <3>5, <4>1, <4>4, <5>1, <5>3
          <6>2. QED
            BY <5>1, <6>1
        <5>4. QED
          BY <4>1, <5>2, <5>3
      <4>5. QED
        BY <4>2, <4>3, <4>4 DEF PromptOrder
    <3>8. QED
      BY <3>2, <3>6, <3>7
  <2>2. CASE PopPrompt
    <3>1. /\ prompt_q # <<>> /\ prompt' = Head(prompt_q) /\ prompt_q' = Tail(prompt_q)
          /\ asked' = asked
      BY <2>2 DEF PopPrompt
    <3>2. /\ Len(prompt_q) \in Nat \ {0} /\ Head(prompt_q) = prompt_q[1]
          /\ Len(prompt_q') = Len(prompt_q) - 1
          /\ \A i \in 1 .. Len(prompt_q') : prompt_q'[i] = prompt_q[i + 1]
      BY <3>1 DEF TypeOK
    <3>3. 1 \in 1 .. Len(prompt_q) /\ \A i \in 1 .. Len(prompt_q') : i + 1 \in 1 .. Len(prompt_q)
      BY <3>2
    <3>4. QED
      BY <3>1, <3>2, <3>3 DEF PromptOrder
  <2>3. CASE ~ Ask /\ ~ PopPrompt
    <3>1. UNCHANGED <<prompt, queueVars>>
      BY <2>3, OwnerFrame DEF Next, Worker, Library, CheckStop, PopTimeout, ClearCache,
         BeginRound, OnToken, OnFinish, OnError, RunSucceeds, RunFails, Report, vars,
         runVars
    <3>2. QED
      BY <3>1 DEF queueVars, PromptOrder
  <2>4. QED
    BY <2>1, <2>2, <2>3
<1>3. QED
  BY <1>1, <1>2, TypeCorrect, PTL DEF Spec

\* SingleTurn strengthened: the rounds in the cache are not newer than the one
\* being prepared, and the clearing leaves none of them or is known to have
\* failed for it.
CacheAge ==
  /\ \A k \in kv : k <= prompt
  /\ worker \in {"clear", "begin"} => prompt \notin kv
  /\ (worker = "begin" /\ kv # {}) => prompt \in clear_failed
  /\ SingleTurn

\* The model never sees two rounds at once unless the library could not clear
\* the cache for the later one.
THEOREM SingleTurnHolds == Spec => []SingleTurn
<1>1. Init => CacheAge
  BY DEF Init, CacheAge, SingleTurn
<1>2. TypeOK /\ PromptOrder /\ CacheAge /\ [Next]_vars => CacheAge'
  <2> SUFFICES ASSUME TypeOK, PromptOrder, CacheAge, [Next]_vars PROVE CacheAge'
    OBVIOUS
  <2> USE DEF CacheAge, SingleTurn
  <2>1. CASE ClearCache
    <3>1. /\ worker = "clear" /\ worker' = "begin" /\ prompt' = prompt
          /\ \/ kv' = {} /\ clear_failed' = clear_failed
             \/ clear_failed' = clear_failed \cup {prompt} /\ kv' = kv
      BY <2>1 DEF ClearCache, ClearKvCache, Thread
    <3>2. QED
      BY <3>1
  <2>2. CASE BeginRound
    <3>1. /\ worker = "begin" /\ worker' = "run" /\ prompt' = prompt
          /\ kv' = kv \cup {prompt} /\ clear_failed' = clear_failed
      BY <2>2 DEF BeginRound, Thread
    <3>2. ASSUME NEW p \in kv', NEW q \in kv', p < q PROVE q \in clear_failed'
      <4>1. CASE q = prompt
        <5>1. prompt \in Nat
          BY DEF TypeOK
        <5>2. p # prompt
          BY <3>2, <4>1, <5>1
        <5>3. p \in kv
          BY <3>1, <5>2
        <5>4. QED
          BY <3>1, <4>1, <5>3
      <4>2. CASE q \in kv
        <5>1. prompt \in Nat /\ q \in Nat /\ q <= prompt
          BY <4>2 DEF TypeOK
        <5>2. p # prompt
          BY <3>2, <5>1
        <5>3. p \in kv
          BY <3>1, <5>2
        <5>4. QED
          BY <3>1, <3>2, <4>2, <5>3
      <4>3. QED
        BY <3>1, <4>1, <4>2
    <3>3. prompt <= prompt
      BY DEF TypeOK
    <3>4. QED
      BY <3>1, <3>2, <3>3
  <2>3. CASE PopPrompt
    <3>1. /\ prompt_q # <<>> /\ prompt' = Head(prompt_q) /\ worker = "wait"
          /\ worker' \in {"check", "clear"} /\ UNCHANGED cacheVars
      BY <2>3 DEF PopPrompt, Thread, roundVars
    <3>2. 1 \in 1 .. Len(prompt_q) /\ Head(prompt_q) = prompt_q[1]
      BY <3>1 DEF TypeOK
    <3>3. prompt < prompt' /\ prompt' \in Nat /\ prompt \in Nat
      BY <3>1, <3>2 DEF PromptOrder, TypeOK
    <3>4. \A k \in kv : k \in Nat /\ k <= prompt
      BY DEF TypeOK
    <3>5. \A k \in kv : k <= prompt' /\ k # prompt'
      BY <3>3, <3>4
    <3>6. QED
      BY <3>1, <3>5 DEF cacheVars
  <2>4. CASE OnToken \/ Ask \/ UNCHANGED vars
    BY <2>4 DEF OnToken, Ask, vars, runVars, roundVars, cacheVars
  <2>5. CASE \/ OnFinish \/ OnError \/ RunFails \/ RunSucceeds \/ CheckStop
             \/ PopTimeout
    <3>1. UNCHANGED <<prompt, cacheVars>> /\ worker' \notin {"clear", "begin"}
      BY <2>5 DEF OnFinish, OnError, RunFails, RunSucceeds, CheckStop, PopTimeout, Report,
         Thread, runVars, roundVars
    <3>2. QED
      BY <3>1 DEF cacheVars
  <2>6. CASE Main
    <3>1. UNCHANGED <<prompt, cacheVars>> /\ worker' \in {worker, "check"}
      BY <2>6, OwnerFrame DEF runVars, roundVars, Main, StartFails, LoadModel,
         SubscribePrompts, Launch, RequestStop, Join, Destroy
    <3>2. QED
      BY <3>1 DEF cacheVars
  <2>7. QED
    BY <2>1, <2>2, <2>3, <2>4, <2>5, <2>6 DEF Next, Worker, Library
<1>3. CacheAge => SingleTurn
  BY DEF CacheAge
<1>4. QED
  BY <1>1, <1>2, <1>3, TypeCorrect, PromptOrderHolds, PTL DEF Spec

-----------------------------------------------------------------------------

\* Once a round was begun after the flag was set, the thread cannot reach
\* another one: it has yet to return to CheckStop, or is past it.
LateRoundIsLast ==
  /\ late <= 1
  /\ late # 0 => stop_flag_ /\ worker \in {"run", "returning", "check", "exited"}

\* After stop() set the flag at most one more answer is begun.
THEOREM OneRoundAfterStopHolds == Spec => []OneRoundAfterStop
<1>1. Init => LateRoundIsLast
  BY DEF Init, LateRoundIsLast
<1>2. TypeOK /\ Lifetime /\ LateRoundIsLast /\ [Next]_vars => LateRoundIsLast'
  <2> SUFFICES ASSUME TypeOK, Lifetime, LateRoundIsLast, [Next]_vars
               PROVE  LateRoundIsLast'
    OBVIOUS
  <2> USE DEF LateRoundIsLast
  <2>1. CASE BeginRound
    BY <2>1 DEF BeginRound, Thread, ownerVars, TypeOK
  <2>2. CASE Main
    <3>1. late' = late
      BY <2>2, OwnerFrame DEF runVars, roundVars
    <3>2. \/ stop_flag_' = stop_flag_ /\ worker' = worker
          \/ stop_flag_' = TRUE /\ worker' = worker
          \/ worker = "none"
      BY <2>2 DEF Lifetime, Main, StartFails, LoadModel, SubscribePrompts, Launch,
         RequestStop, Join, Destroy, Owner
    <3>3. QED
      BY <3>1, <3>2
  <2>3. CASE CheckStop
    BY <2>3 DEF CheckStop, Thread, ownerVars, runVars, roundVars
  <2>4. CASE PopTimeout \/ PopPrompt \/ ClearCache
    BY <2>4 DEF PopTimeout, PopPrompt, ClearCache, Thread, ownerVars, runVars, roundVars
  <2>5. CASE OnFinish \/ OnError \/ RunFails \/ RunSucceeds
    BY <2>5 DEF OnFinish, OnError, RunFails, RunSucceeds, Report, Thread, ownerVars,
       runVars, roundVars
  <2>6. CASE OnToken \/ Ask \/ UNCHANGED vars
    BY <2>6 DEF OnToken, Ask, vars, ownerVars, runVars, roundVars
  <2>7. QED
    BY <2>1, <2>2, <2>3, <2>4, <2>5, <2>6 DEF Next, Worker, Library
<1>3. LateRoundIsLast => OneRoundAfterStop
  BY DEF LateRoundIsLast, OneRoundAfterStop
<1>4. QED
  BY <1>1, <1>2, <1>3, TypeCorrect, LifetimeHolds, PTL DEF Spec

-----------------------------------------------------------------------------

\* The engine implements the safety part of EngineLife: every step of the owner
\* or of the thread is a step of an engine's life, or leaves it alone.
THEOREM ImplementsLifeSafety == Spec => Life!Spec
<1>1. Init => Life!Init
  BY DEF Init, Life!Init
<1>2. TypeOK /\ Lifetime /\ [Next]_vars => [Life!Next]_Life!life
  <2> SUFFICES ASSUME TypeOK, Lifetime, [Next]_vars PROVE [Life!Next]_Life!life
    OBVIOUS
  <2> USE DEF Lifetime, TypeOK, Life!life
  <2>1. CASE StartFails
    BY <2>1 DEF StartFails, Owner, Life!Next, Life!Fail
  <2>2. CASE LoadModel
    BY <2>2 DEF LoadModel, Owner, Life!Next, Life!Acquire
  <2>3. CASE SubscribePrompts
    BY <2>3 DEF SubscribePrompts, Owner
  <2>4. CASE Launch
    BY <2>4 DEF Launch, Owner, Life!Next, Life!Launch
  <2>5. CASE RequestStop
    BY <2>5 DEF RequestStop, Owner, Life!Next, Life!RequestStop
  <2>6. CASE Join
    BY <2>6 DEF Join, Owner
  <2>7. CASE Destroy
    BY <2>7 DEF Destroy, Owner, Life!Next, Life!Stopped
  <2>8. CASE Ask \/ (Worker /\ ~CheckStop)
    <3>1. ctl' = ctl /\ llm_handle_' = llm_handle_
      BY <2>8, WorkerFrame DEF ownerVars
    <3>2. \/ worker' = worker
          \/ worker \notin {"none", "exited"} /\ worker' \notin {"none", "exited"}
      BY <2>8 DEF Ask, Worker, Library, PopTimeout, PopPrompt, ClearCache,
         BeginRound, OnToken, OnFinish, OnError, RunSucceeds, RunFails, Thread
    <3>3. QED
      BY <3>1, <3>2
  <2>9. CASE CheckStop
    BY <2>9 DEF CheckStop, Thread, ownerVars, Life!Next, Life!Exit
  <2>10. CASE UNCHANGED vars
    BY <2>10 DEF vars, ownerVars
  <2>11. QED
    BY <2>1, <2>2, <2>3, <2>4, <2>5, <2>6, <2>7, <2>8, <2>9, <2>10 DEF Next, Main
<1>3. QED
  BY <1>1, <1>2, TypeCorrect, LifetimeHolds, PTL DEF Spec, Life!Spec
=============================================================================
