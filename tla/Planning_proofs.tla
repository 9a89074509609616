-------------------------- MODULE Planning_proofs ---------------------------
(***************************************************************************)
(* What PlanningTransport keeps for a job, for every number of deliveries, *)
(* every prefetch window, and any number of chunks, repetitions, lost      *)
(* replies, failed calls and crashes: its types; one gather request and    *)
(* one provider call at most; nothing for an inactive account; a context   *)
(* that holds each chunk once and misses none; and the contract of         *)
(* JobLifecycle.                                                           *)
(*                                                                         *)
(* Then what PlanningSources keeps, for any sections, chunks, texts and    *)
(* budgets and any number of edits: the rendered sources fit, are the      *)
(* owner's, once and in order.                                             *)
(***************************************************************************)
EXTENDS PlanningTransport, PlanningSources, SequenceTheorems, FiniteSetTheorems,
        WellFoundedInduction, TLAPS

(* What each repository operation leaves of a document, for any document. *)

\* A new document is a job, pending and without context.
LEMMA CreateFacts ==
  /\ NoJob \in Jobs /\ NoJob.status = "absent"
  /\ Create \in Jobs /\ Create.status = "pending"
  /\ NoJob.ctx = {} /\ Create.ctx = {} /\ NoJob.data = <<>> /\ Create.data = <<>>
<1>1. /\ NoJob \in Jobs /\ NoJob.status = "absent"
      /\ NoJob.ctx = {} /\ NoJob.data = <<>>
  BY DEF NoJob, Jobs, Statuses
<1>2. QED
  BY <1>1 DEF Create, Jobs, Statuses

\* updateStatus changes the status, as far as it is modelled, and nothing else.
LEMMA UpdateStatusFacts ==
  ASSUME NEW j \in Jobs, NEW status \in Statuses
  PROVE  LET k == UpdateStatus(j, status)
         IN  /\ k \in Jobs /\ k.status = status
             /\ k.seqs = j.seqs /\ k.data = j.data /\ k.ctx = j.ctx
BY DEF UpdateStatus, Jobs

\* claimForProcessing changes the status only.
LEMMA ClaimForProcessingFacts ==
  ASSUME NEW j \in Jobs
  PROVE  LET k == ClaimForProcessing(j)
         IN  /\ k \in Jobs /\ k.status = "running"
             /\ k.seqs = j.seqs /\ k.data = j.data /\ k.ctx = j.ctx
BY DEF ClaimForProcessing, Jobs, Statuses

\* claimForGathering changes the status only.
LEMMA ClaimForGatheringFacts ==
  ASSUME NEW j \in Jobs
  PROVE  LET k == ClaimForGathering(j)
         IN  /\ k \in Jobs /\ k.status = "gathering"
             /\ k.seqs = j.seqs /\ k.data = j.data /\ k.ctx = j.ctx
BY DEF ClaimForGathering, Jobs, Statuses

\* appendResultChunk records the sequence, and the chunk if it carries data.
LEMMA AppendResultChunkFacts ==
  ASSUME NEW j \in Jobs, NEW seq \in Nat, NEW isData \in BOOLEAN
  PROVE  LET k == AppendResultChunk(j, seq, isData)
         IN  /\ k \in Jobs /\ k.status = j.status
             /\ k.seqs = j.seqs \cup {seq} /\ k.ctx = j.ctx
             /\ k.data = IF isData THEN Append(j.data, seq) ELSE j.data
<1>1. CASE isData
  <2>1. j.data \in Seq(Nat) /\ j.seqs \cup {seq} \in SUBSET Nat
    BY DEF Jobs
  <2> DEFINE data == Append(j.data, seq)
  <2>2. data \in Seq(Nat)
    BY <2>1
  <2>3. AppendResultChunk(j, seq, isData)
          = [j EXCEPT !.seqs = j.seqs \cup {seq}, !.data = data]
    BY <1>1 DEF AppendResultChunk
  <2> HIDE DEF data
  <2>4. QED
    <3>1. LET k == AppendResultChunk(j, seq, isData)
          IN  /\ k \in Jobs /\ k.status = j.status
              /\ k.seqs = j.seqs \cup {seq} /\ k.ctx = j.ctx
              /\ k.data = data
      BY <2>1, <2>2, <2>3 DEF Jobs
    <3>2. QED
      BY <1>1, <3>1 DEF data
<1>2. CASE ~isData
  BY <1>2 DEF AppendResultChunk, Jobs
<1>3. QED
  BY <1>1, <1>2

\* claimForPlanning changes the status and the context only.
LEMMA ClaimForPlanningFacts ==
  ASSUME NEW j \in Jobs, NEW context \in SUBSET Nat
  PROVE  LET k == ClaimForPlanning(j, context)
         IN  /\ k \in Jobs /\ k.status = "planning"
             /\ k.seqs = j.seqs /\ k.data = j.data /\ k.ctx = context
BY DEF ClaimForPlanning, Jobs, Statuses

\* failIfStillGathering changes the status only.
LEMMA FailIfStillGatheringFacts ==
  ASSUME NEW j \in Jobs
  PROVE  LET k == FailIfStillGathering(j)
         IN  /\ k \in Jobs /\ k.status = "failed"
             /\ k.seqs = j.seqs /\ k.data = j.data /\ k.ctx = j.ctx
BY DEF FailIfStillGathering, Jobs, Statuses

\* The context assembled from a document is a set of sequence numbers.
LEMMA AssembleContextFacts ==
  ASSUME NEW j \in Jobs
  PROVE  AssembleContext(j) \in SUBSET Nat
BY DEF AssembleContext, Range, Jobs

-----------------------------------------------------------------------------
(* The steps of the processes. *)

\* The steps that write a failure, one by one.
LEMMA FailureWritesFacts ==
  FailureWrites = {"writeInactive", "writeCheckError", "writePublishFailed",
                   "writePlanFailed", "writePlanInactive"}
BY DEF FailureWrites

\* The steps of a runner, one by one.
LEMMA StepsFacts ==
  Steps = {"idle", "done", "claim", "check", "resolve", "claimPlan", "publish",
           "schedule", "append", "relay", "finalize", "lookupPrompt",
           "planCheck", "retrieve", "planRecheck", "planCall", "writeCompleted", "writePlanFailed",
           "writePlanInactive", "writeInactive", "writeCheckError",
           "writePublishFailed", "tellGathering", "tellCompleted",
           "tellFailed"}
BY FailureWritesFacts DEF Steps, PlanSteps, TellSteps

\* Moving one runner leaves the others where they are.
LEMMA GotoFacts ==
  ASSUME pc \in [Runners -> Steps], NEW r \in Runners, NEW step \in Steps,
         Goto(r, step)
  PROVE  /\ pc' \in [Runners -> Steps] /\ pc'[r] = step
         /\ \A q \in Runners : q # r => pc'[q] = pc[q]
BY DEF Goto

\* Queues stay queues of the same messages.
LEMMA QueueFacts ==
  ASSUME NEW S, NEW s \in Seq(S)
  PROVE  /\ \A e \in S : Append(s, e) \in Seq(S) /\ Append(s, e) # <<>>
                          /\ <<e>> \o s \in Seq(S)
         /\ s # <<>> => Head(s) \in S /\ Tail(s) \in Seq(S)
         /\ \A t \in Seq(S) : t \o s \in Seq(S)
<1>1. ASSUME NEW e \in S
      PROVE  <<e>> \in Seq(S) /\ Append(s, e) \in Seq(S) /\ Append(s, e) # <<>>
  <2>1. Append(s, e) \in Seq(S) /\ Len(Append(s, e)) = Len(s) + 1
    BY AppendProperties
  <2>2. <<e>> \in Seq(S)
    OBVIOUS
  <2>3. Append(s, e) # <<>>
    BY <2>1, EmptySeq, LenProperties
  <2>4. QED
    BY <2>1, <2>2, <2>3
<1>2. \A t \in Seq(S) : t \o s \in Seq(S)
  BY ConcatProperties
<1>3. s # <<>> => Head(s) \in S /\ Tail(s) \in Seq(S)
  BY HeadTailProperties
<1>4. \A e \in S : <<e>> \o s \in Seq(S)
  BY <1>1, <1>2
<1>5. QED
  BY <1>1, <1>2, <1>3, <1>4

\* The consumer is at work only on a message it holds.
HandlingInv == pc[Consumer] # "idle" => chain # <<>>

\* A gather-timeout job that may run has an attempt left.
AttemptsInv == timer # "done" => timerTries < TimerAttempts

TypeInv == TypeOK /\ HandlingInv /\ AttemptsInv

\* The state before the job is submitted is well-typed.
LEMMA TypeInit == Init => TypeInv
<1> SUFFICES ASSUME Init PROVE TypeInv
  OBVIOUS
<1>1. job \in Jobs
  BY CreateFacts DEF Init
<1>2. pc \in [Runners -> Steps] /\ pc[Consumer] = "idle"
  BY StepsFacts DEF Init, Runners
<1>3. /\ sent \in Seq(ChunkKinds)
      /\ queue \in Seq(1 .. Len(sent)) /\ chain \in Seq(1 .. Len(sent))
      /\ endedBy \in 0 .. Len(sent) /\ timerTries \in 0 .. TimerAttempts
      /\ AttemptsInv
  BY BoundsAssumption DEF BoundsAssumption, Init, AttemptsInv
<1>4. QED
  BY <1>1, <1>2, <1>3 DEF Init, TypeInv, TypeOK, HandlingInv

\* What is remembered of the user is a set of phases.
LEMMA EnterType ==
  ASSUME TypeOK, NEW phase \in Phases, Enter(phase)
  PROVE  lapsed' \in SUBSET Phases
BY DEF TypeOK, Enter

\* The steps of runClaimedPlanning keep the types, whoever runs them.
LEMMA PlanType ==
  ASSUME NEW r \in Runners, TypeInv, Plan(r)
  PROVE  TypeInv'
<1> USE DEF TypeInv, TypeOK, HandlingInv, AttemptsInv
<1>1. CASE PlanCheck(r) \/ Retrieve(r) \/ PlanRecheck(r)
  <2>1. \E step \in Steps \ {"idle"} : Goto(r, step)
    BY <1>1, StepsFacts DEF PlanCheck, Retrieve, PlanRecheck, PlanStepFails
  <2>2. faults' \in Nat /\ lapsed' \subseteq Phases
    <3>1. faults' = faults \/ faults' = faults + 1
      BY <1>1 DEF PlanCheck, Retrieve, PlanRecheck, PlanStepFails, Fault
    <3>2. lapsed' = lapsed \/ Enter("prompt")
      BY <1>1 DEF PlanCheck, Retrieve, PlanRecheck, PlanStepFails, historyVars
    <3>3. "prompt" \in Phases
      BY DEF Phases
    <3> QED BY <3>1, <3>2, <3>3, EnterType
  <2>3. /\ pc' \in [Runners -> Steps]
        /\ pc'[Consumer] # "idle" => pc[Consumer] # "idle"
    BY <1>1, <2>1, GotoFacts DEF PlanCheck, Retrieve, PlanRecheck, Runners
  <2>4. UNCHANGED <<job, active, submit, queued, timer, timerTries, transport,
                    requests, sent, queue, chain, snapshot, requeued, endedBy,
                    duplicates, announced, calls, unsure>>
    BY <1>1 DEF PlanCheck, Retrieve, PlanRecheck, timerVars, engineVars, consumerVars,
      historyVars
  <2>5. QED
    BY <2>2, <2>3, <2>4
<1>2. CASE PlanCall(r)
  BY <1>2, StepsFacts DEF PlanCall, Goto, Runners, timerVars, engineVars, consumerVars, historyVars
<1>3. CASE PlanWrite(r)
  <2>1. job' \in Jobs
    BY <1>3, UpdateStatusFacts, FailureWritesFacts DEF PlanWrite, Statuses
  <2>2. (\E step \in Steps : Goto(r, step)) /\ pc[r] # "idle"
    BY <1>3, StepsFacts, FailureWritesFacts DEF PlanWrite
  <2>3. pc' \in [Runners -> Steps] /\ (pc'[Consumer] # "idle" => pc[Consumer] # "idle")
    BY <2>2, GotoFacts DEF Runners
  <2>4. QED
    BY <1>3, <2>1, <2>3 DEF PlanWrite, timerVars, engineVars, consumerVars, historyVars
<1>4. QED
  BY <1>1, <1>2, <1>3 DEF Plan

\* A claim moves the job, its delivery and what is remembered of the user.
LEMMA ClaimTypes ==
  ASSUME TypeInv, NEW d \in Runners, d # Consumer,
         NEW step \in Steps, Goto(d, step), job' \in Jobs,
         lapsed' \subseteq Phases, unsure' = unsure,
         UNCHANGED <<active, submit, queued, timer, timerTries, transport,
                     requests, sent, queue, chain, snapshot, requeued, endedBy,
                     faults, duplicates, announced, calls>>
  PROVE  TypeInv'
<1>1. pc' \in [Runners -> Steps] /\ pc'[Consumer] = pc[Consumer]
  BY GotoFacts DEF TypeInv, TypeOK, Runners
<1>2. QED
  BY <1>1 DEF TypeInv, TypeOK, HandlingInv, AttemptsInv

\* Every step of the system keeps the types.
LEMMA TypeNext == TypeInv /\ [Next]_vars => TypeInv'
<1> SUFFICES ASSUME TypeInv, [Next]_vars PROVE TypeInv'
  OBVIOUS
<1> USE DEF TypeInv, TypeOK, HandlingInv, AttemptsInv
<1>1. CASE SubmitCreate
  BY <1>1, CreateFacts DEF SubmitCreate, timerVars, engineVars, consumerVars, historyVars
<1>2. CASE SubmitEnqueue
  BY <1>2 DEF SubmitEnqueue, timerVars, engineVars, consumerVars, historyVars
<1>3. CASE SubmitMarkFailed
  <2>1. UpdateStatus(job, "failed") \in Jobs
    BY UpdateStatusFacts DEF Statuses
  <2>2. QED
    BY <1>3, <2>1 DEF SubmitMarkFailed, Fault, timerVars, engineVars, consumerVars, historyVars
<1>4. ASSUME NEW d \in Deliveries,
             DeliveryStep(d) \/ Stall(d) \/ Throw(d)
      PROVE  TypeInv'
  <2> d \in Runners /\ d # Consumer /\ Consumer \in Runners
    BY RunnersAssumption DEF Runners
  <2>1. CASE Deliver(d)
    BY <2>1, StepsFacts DEF Deliver, Goto, timerVars, engineVars, consumerVars, historyVars
  <2>2. CASE Stall(d)
    BY <2>2 DEF Stall, Fault, timerVars, engineVars, consumerVars, historyVars
  <2>3. CASE Throw(d)
    BY <2>3, StepsFacts DEF Throw, Goto, Fault, timerVars, engineVars, consumerVars, historyVars
  <2>4. CASE Claim(d)
    <3>1. ClaimForGathering(job) \in Jobs
      BY ClaimForGatheringFacts
    <3>2. \E step \in Steps : Goto(d, step)
      BY <2>4, StepsFacts DEF Claim
    <3>3. job' \in Jobs /\ lapsed' \subseteq Phases
      BY <2>4, <3>1 DEF Claim, Enter, Phases
    <3>4. QED
      BY <2>4, <3>2, <3>3, ClaimTypes DEF Claim, timerVars, engineVars, consumerVars, historyVars
  <2>5. CASE CheckUser(d)
    <3>1. \E step \in Steps : Goto(d, step)
      BY <2>5, StepsFacts DEF CheckUser
    <3>2. faults' \in Nat
      BY <2>5 DEF CheckUser, Fault
    <3>3. pc' \in [Runners -> Steps] /\ pc'[Consumer] = pc[Consumer]
      BY <3>1, GotoFacts
    <3>4. UNCHANGED <<job, active, submit, queued, timer, timerTries, transport,
                      requests, sent, queue, chain, snapshot, requeued, endedBy,
                      duplicates, announced, calls, lapsed, unsure>>
      BY <2>5 DEF CheckUser, timerVars, engineVars, consumerVars, historyVars
    <3>5. QED
      BY <3>2, <3>3, <3>4
  <2>6. CASE Resolve(d)
    BY <2>6, StepsFacts DEF Resolve, Goto, timerVars, engineVars, consumerVars, historyVars
  <2>7. CASE ClaimPlan(d)
    <3>1. ClaimForPlanning(job, {}) \in Jobs
      BY ClaimForPlanningFacts
    <3>2. \E step \in Steps : Goto(d, step)
      BY <2>7, StepsFacts DEF ClaimPlan
    <3>3. job' \in Jobs /\ lapsed' \subseteq Phases
      BY <2>7, <3>1 DEF ClaimPlan, Enter, Phases
    <3>4. QED
      BY <2>7, <3>2, <3>3, ClaimTypes DEF ClaimPlan, timerVars, engineVars, consumerVars, historyVars
  <2>8. CASE Publish(d)
    <3>1. \E step \in Steps : Goto(d, step)
      BY <2>8, StepsFacts DEF Publish
    <3>2. requests' \in Nat
      BY <2>8 DEF Publish
    <3>3. pc' \in [Runners -> Steps] /\ pc'[Consumer] = pc[Consumer]
      BY <3>1, GotoFacts
    <3>4. QED
      BY <2>8, <3>2, <3>3 DEF Publish, timerVars, engineVars, consumerVars, historyVars
  <2>9. CASE ScheduleTimeout(d)
    BY <2>9, StepsFacts DEF ScheduleTimeout, Goto, timerVars, engineVars, consumerVars, historyVars
  <2>10. CASE WriteFailure(d)
    <3>1. UpdateStatus(job, "failed") \in Jobs
      BY <2>10, UpdateStatusFacts, FailureWritesFacts DEF WriteFailure, Statuses
    <3>2. QED
      BY <2>10, <3>1, StepsFacts DEF WriteFailure, Goto, timerVars, engineVars, consumerVars, historyVars
  <2>11. CASE Tell(d)
    <3>1. announced' \subseteq {"completed", "failed", "retrying"}
      BY <2>11 DEF Tell
    <3>2. pc' \in [Runners -> Steps] /\ pc'[Consumer] = pc[Consumer]
      BY <2>11, GotoFacts, StepsFacts DEF Tell
    <3>3. UNCHANGED <<job, active, submit, queued, timer, timerTries, transport,
                      requests, sent, queue, chain, snapshot, requeued, endedBy,
                      faults, duplicates, calls, lapsed, unsure>>
      BY <2>11 DEF Tell, timerVars, engineVars, consumerVars, historyVars
    <3>4. QED
      BY <3>1, <3>2, <3>3
  <2>12. CASE Plan(d)
    BY <2>12, PlanType
  <2>13. CASE ClaimLegacy(d)
    <3>1. ClaimForProcessing(job) \in Jobs
      BY ClaimForProcessingFacts
    <3>2. \E step \in Steps : Goto(d, step)
      BY <2>13, StepsFacts DEF ClaimLegacy
    <3>3. job' \in Jobs /\ lapsed' \subseteq Phases
      BY <2>13, <3>1 DEF ClaimLegacy, Enter, Phases
    <3>4. QED
      BY <2>13, <3>2, <3>3, ClaimTypes DEF ClaimLegacy, timerVars, engineVars, consumerVars, historyVars
  <2>14. CASE LookupPrompt(d)
    BY <2>14, StepsFacts DEF LookupPrompt, Goto, timerVars, engineVars, consumerVars, historyVars
  <2>15. QED
    BY <1>4, <2>1, <2>2, <2>3, <2>4, <2>5, <2>6, <2>7, <2>8, <2>9, <2>10,
       <2>11, <2>12, <2>13, <2>14 DEF DeliveryStep
<1>5. CASE Consume \/ Requeue
  <2> DEFINE S == 1 .. Len(sent)
  <2>1. queue \in Seq(S) /\ chain \in Seq(S) /\ S \subseteq Nat
    OBVIOUS
  <2>2. chain # <<>> => Chunk \in S /\ Tail(chain) \in Seq(S)
    BY <2>1, QueueFacts DEF Chunk
  <2>3. Consumer \in Runners
    BY DEF Runners
  <2>4. ASSUME Ack, chain # <<>>
        PROVE  /\ chain' \in Seq(S) /\ pc' \in [Runners -> Steps]
               /\ pc'[Consumer] = "idle"
    BY <2>2, <2>3, <2>4, StepsFacts DEF Ack, Goto
  <2>5. CASE Receive
    <3>1. queue' \in Seq(S) /\ chain' \in Seq(S) /\ chain' # <<>>
      BY <2>1, <2>5, QueueFacts DEF Receive
    <3>2. QED
      BY <2>5, <3>1 DEF Receive, timerVars, engineVars, historyVars
  <2>6. CASE Find
    <3>1. /\ chain' \in Seq(S) /\ pc' \in [Runners -> Steps]
          /\ HandlingInv'
      <4>1. CASE Ack
        BY <2>4, <2>6, <4>1 DEF Find
      <4>2. CASE Goto(Consumer, "append") /\ UNCHANGED chain
        BY <2>3, <2>6, <4>2, GotoFacts, StepsFacts DEF Find
      <4>3. QED
        BY <2>6, <4>1, <4>2 DEF Find
    <3>2. QED
      BY <2>6, <3>1 DEF Find, timerVars, engineVars, historyVars
  <2>7. CASE AppendChunk
    <3>1. chain # <<>>
      BY <2>7 DEF AppendChunk
    <3>2. CASE CanAppend(job, Chunk)
      <4>1. job' \in Jobs
        <5>1. Chunk \in Nat /\ (sent[Chunk] = "data") \in BOOLEAN
          BY <2>1, <2>2, <3>1
        <5>2. AppendResultChunk(job, Chunk, sent[Chunk] = "data") \in Jobs
          BY <5>1, AppendResultChunkFacts
        <5>3. QED
          BY <2>7, <3>2, <5>2 DEF AppendChunk
      <4>2. snapshot' \subseteq Nat
        BY <2>7, <3>2, <4>1, AssembleContextFacts DEF AppendChunk
      <4>3. \E step \in Steps : Goto(Consumer, step)
        BY <2>7, <3>2, StepsFacts DEF AppendChunk
      <4>4. chain' = chain
        BY <2>7, <3>2 DEF AppendChunk
      <4>5. QED
        BY <2>3, <2>7, <3>1, <4>1, <4>2, <4>3, <4>4, GotoFacts
        DEF AppendChunk, timerVars, engineVars, historyVars
    <3>3. CASE ~CanAppend(job, Chunk)
      BY <2>4, <2>7, <3>1, <3>3 DEF AppendChunk, timerVars, engineVars, historyVars
    <3>4. QED
      BY <3>2, <3>3
  <2>8. CASE Finalize
    <3>1. chain # <<>> /\ Chunk \in S
      BY <2>2, <2>8 DEF Finalize
    <3>2. CASE ~StillGathering(job)
      BY <2>4, <2>8, <3>1, <3>2 DEF Finalize, timerVars, engineVars
    <3>3. CASE StillGathering(job)
      <4>1. /\ chain' = chain
            /\ \/ /\ job' = ClaimForPlanning(job, snapshot) /\ Goto(Consumer, "planCheck")
                  /\ Enter("plan") /\ endedBy' = Chunk
               \/ /\ job' = FailIfStillGathering(job) /\ Goto(Consumer, "tellFailed")
                  /\ lapsed' = lapsed /\ endedBy' = endedBy
        BY <2>8, <3>3 DEF Finalize
      <4>2. job' \in Jobs
        <5>1. job \in Jobs /\ snapshot \in SUBSET Nat
          OBVIOUS
        <5> QED BY <4>1, <5>1, ClaimForPlanningFacts, FailIfStillGatheringFacts
      <4>3. \E step \in Steps : Goto(Consumer, step)
        BY <4>1, StepsFacts
      <4>4. endedBy' \in 0 .. Len(sent) /\ lapsed' \subseteq Phases
        <5>1. "plan" \in Phases
          BY DEF Phases
        <5> QED BY <3>1, <4>1, <5>1, EnterType
      <4>5. QED
        BY <2>3, <2>8, <3>1, <4>1, <4>2, <4>3, <4>4, GotoFacts
        DEF Finalize, timerVars, engineVars
    <3>4. QED
      BY <3>2, <3>3
  <2>9. CASE Relay
    <3>1. chain # <<>>
      BY <2>9 DEF Relay, TellSteps
    <3>2. announced' \subseteq {"completed", "failed", "retrying"}
      BY <2>9 DEF Relay
    <3>3. QED
      BY <2>4, <2>9, <3>1, <3>2 DEF Relay, timerVars, engineVars, historyVars
  <2>10. CASE Plan(Consumer)
    BY <2>3, <2>10, PlanType
  <2>11. CASE Requeue
    <3>1. chain # <<>>
      BY <2>11, FailureWritesFacts DEF Requeue
    <3>2. queue' \in Seq(S) /\ requeued' \subseteq S /\ faults' \in Nat
      <4>1. Chunk \in S
        BY <2>2, <3>1
      <4>2. <<Chunk>> \o queue \in Seq(S)
        BY <2>1, <4>1, QueueFacts
      <4>3. requeued' \subseteq S /\ faults' \in Nat
        BY <2>11, <4>1 DEF Requeue, Fault
      <4>4. QED
        BY <2>11, <4>2, <4>3 DEF Requeue
    <3>3. QED
      BY <2>4, <2>11, <3>1, <3>2 DEF Requeue, timerVars, engineVars, historyVars
  <2>12. QED
    BY <1>5, <2>5, <2>6, <2>7, <2>8, <2>9, <2>10, <2>11 DEF Consume
<1>6. CASE Timeout
  <2>1. FailIfStillGathering(job) \in Jobs
    BY FailIfStillGatheringFacts
  <2>2. QED
    BY <1>6, <2>1 DEF Timeout, timerVars, engineVars, consumerVars, historyVars
<1>7. CASE TimeoutTell
  BY <1>7 DEF TimeoutTell, timerVars, engineVars, consumerVars, historyVars
<1>8. CASE TimeoutError
  <2>1. timerTries' \in 0 .. TimerAttempts /\ timer' \in {"set", "done"}
        /\ AttemptsInv'
    BY <1>8, BoundsAssumption DEF TimeoutError, BoundsAssumption
  <2>2. QED
    BY <1>8, <2>1 DEF TimeoutError, Fault, engineVars, consumerVars, historyVars
<1>9. CASE EngineSend
  BY <1>9 DEF EngineSend, timerVars, engineVars, consumerVars, historyVars
<1>10. CASE Redeliver
  <2>1. queue' \in Seq(1 .. Len(sent))
    <3>1. \A seq \in 1 .. Len(sent) : Append(queue, seq) \in Seq(1 .. Len(sent))
      BY QueueFacts
    <3>2. chain \o queue \in Seq(1 .. Len(sent))
      BY ConcatProperties
    <3>3. QED
      BY <1>10, <3>1, <3>2 DEF Redeliver
  <2>2. QED
    BY <1>10, <2>1 DEF Redeliver, timerVars, engineVars, historyVars
<1>11. CASE Deactivate
  BY <1>11 DEF Deactivate, timerVars, engineVars, consumerVars, historyVars
<1>14. CASE Reactivate
  BY <1>14 DEF Reactivate, timerVars, engineVars, consumerVars
<1>12. CASE Crash
  <2>1. queue' \in Seq(1 .. Len(sent)) /\ chain' \in Seq(1 .. Len(sent))
    BY <1>12, QueueFacts DEF Crash
  <2>2. pc' \in [Runners -> Steps] /\ pc'[Consumer] = "idle"
    BY <1>12, StepsFacts DEF Crash, Runners
  <2>3. submit' \in {"idle", "done"} /\ queued' \in BOOLEAN
    BY <1>12 DEF Crash
  <2>4. timer' \in {"off", "set", "tell", "done"} /\ faults' \in Nat
    BY <1>12 DEF Crash, Fault
  <2>5. QED
    BY <1>12, <2>1, <2>2, <2>3, <2>4 DEF Crash, engineVars, historyVars
<1>13. CASE UNCHANGED vars
  BY <1>13 DEF vars, timerVars, engineVars, consumerVars, historyVars
<1>15. QED
  BY <1>1, <1>2, <1>3, <1>4, <1>5, <1>6, <1>7, <1>8, <1>9, <1>10, <1>11,
     <1>12, <1>13, <1>14 DEF Next, SubmitStep

\* TypeOK holds in every reachable state, whatever the constants.
THEOREM TypeCorrect == Spec => []TypeOK
<1>1. TypeInv => TypeOK
  BY DEF TypeInv
<1>2. QED
  BY TypeInit, TypeNext, <1>1, PTL DEF Spec

-----------------------------------------------------------------------------
(* The claims. *)

IndInv == TypeInv /\ ClaimsInv

\* OneAsks survives a step that publishes nothing, brings no delivery closer
\* to publishing and leads no job back to where it can be claimed.
LEMMA AsksKept ==
  ASSUME OneAsks, requests' = requests,
         job'.status \in {"absent", "pending"} => job.status \in {"absent", "pending"},
         \A d \in Deliveries : Asking(d)' => Asking(d)
  PROVE  OneAsks'
BY DEF OneAsks, Asking

\* OnePlans survives a step that calls no provider, lets no runner into the
\* planning phase and leads no job back to where it can be claimed.
LEMMA PlansKept ==
  ASSUME OnePlans, calls' = calls,
         job'.status \in {"absent", "pending", "gathering"}
           => job.status \in {"absent", "pending", "gathering"},
         \A r \in Runners : Planning(r)' => Planning(r),
         \A r \in Runners : BeforeCall(r)' => BeforeCall(r)
  PROVE  OnePlans'
BY DEF OnePlans, Planning, BeforeCall

\* A runner that moves to a step outside both phases keeps every other
\* runner's phase, and so nobody enters one.
LEMMA PhasesKept ==
  ASSUME pc \in [Runners -> Steps], NEW r \in Runners, NEW step \in Steps,
         Goto(r, step),
         step \notin {"check", "resolve", "publish"} \/ Asking(r),
         step \notin PlanSteps \/ Planning(r),
         step \notin {"lookupPrompt", "planCheck", "retrieve", "planRecheck", "planCall"}
           \/ BeforeCall(r)
  PROVE  /\ \A d \in Runners : Asking(d)' => Asking(d)
         /\ \A q \in Runners : Planning(q)' => Planning(q)
         /\ \A q \in Runners : BeforeCall(q)' => BeforeCall(q)
BY GotoFacts DEF Asking, Planning, BeforeCall

\* Winning claimForPlanning or claimForProcessing: the only runner in the
\* planning phase.
LEMMA PlansClaimed ==
  ASSUME TypeInv, OnePlans, NEW r \in Runners,
         job.status \in {"pending", "gathering"},
         job'.status \in {"planning", "running"},
         NEW step \in {"planCheck", "lookupPrompt"}, Goto(r, step),
         calls' = calls
  PROVE  OnePlans'
<1>1. /\ pc'[r] = step
      /\ \A q \in Runners : q # r => pc'[q] = pc[q]
  BY GotoFacts, StepsFacts DEF TypeInv, TypeOK
<1>2. calls = 0 /\ \A q \in Runners : ~Planning(q)
  BY DEF OnePlans
<1>3. \A q \in Runners : q # r => ~Planning(q)'
  BY <1>1, <1>2 DEF Planning
<1>4. QED
  BY <1>1, <1>2, <1>3 DEF OnePlans, Planning, BeforeCall

\* A step of runClaimedPlanning calls the provider once and lets nobody in.
LEMMA PlanClaims ==
  ASSUME IndInv, NEW r \in Runners, Plan(r)
  PROVE  ClaimsInv'
<1> USE DEF IndInv, ClaimsInv
<1>1. pc \in [Runners -> Steps] /\ job \in Jobs
  BY DEF TypeInv, TypeOK
<1>2. Planning(r)
  BY FailureWritesFacts DEF Plan, PlanCheck, Retrieve, PlanRecheck, PlanCall, PlanWrite,
    Planning, PlanSteps
<1>3. job.status \notin {"absent", "pending", "gathering"} /\ submit # "idle"
  BY <1>2 DEF OnePlans, Unsubmitted
<1>4. /\ submit' = submit /\ requests' = requests
      /\ job'.status \notin {"absent", "pending", "gathering"}
  <2>1. CASE PlanWrite(r)
    BY <1>1, <2>1, UpdateStatusFacts, FailureWritesFacts
    DEF PlanWrite, Statuses, engineVars
  <2>2. CASE PlanCheck(r) \/ Retrieve(r) \/ PlanRecheck(r) \/ PlanCall(r)
    BY <1>3, <2>2 DEF PlanCheck, Retrieve, PlanRecheck, PlanCall, engineVars
  <2>3. QED
    BY <2>1, <2>2 DEF Plan
<1>5. Unsubmitted'
  BY <1>3, <1>4 DEF Unsubmitted
<1>6. CASE PlanCall(r)
  <2>1. PICK step \in {"writeCompleted", "writePlanFailed"} : Goto(r, step)
    BY <1>6 DEF PlanCall
  <2>2. /\ \A d \in Runners : Asking(d)' => Asking(d)
        /\ \A q \in Runners : Planning(q)' => Planning(q)
        /\ \A q \in Runners : BeforeCall(q)' => BeforeCall(q)
    BY <1>1, <1>2, <2>1, PhasesKept, StepsFacts
  <2>3. pc[r] = "planCall" /\ pc'[r] = step
    BY <1>1, <1>6, <2>1, GotoFacts, StepsFacts DEF PlanCall
  <2>4. calls = 0 /\ calls' = 1
    BY <1>6, <2>3 DEF PlanCall, OnePlans, BeforeCall
  <2>5. \A q \in Runners : ~BeforeCall(q)'
    BY <1>2, <2>1, <2>2, <2>3 DEF OnePlans, Planning, BeforeCall, PlanSteps
  <2>6. OnePlans'
    BY <1>4, <2>2, <2>4, <2>5 DEF OnePlans
  <2>7. QED
    BY <1>4, <1>5, <2>2, <2>6, AsksKept DEF Runners
<1>7. CASE PlanCheck(r) \/ Retrieve(r) \/ PlanRecheck(r) \/ PlanWrite(r)
  <2>1. calls' = calls
    BY <1>7 DEF PlanCheck, Retrieve, PlanRecheck, PlanWrite
  <2>2. \E step \in Steps :
          /\ Goto(r, step)
          /\ step \notin {"check", "resolve", "publish"}
          /\ step \in {"lookupPrompt", "planCheck", "retrieve", "planRecheck", "planCall"}
               => BeforeCall(r)
    BY <1>7, StepsFacts DEF PlanCheck, Retrieve, PlanRecheck, PlanWrite, PlanStepFails,
      BeforeCall
  <2>3. /\ \A d \in Runners : Asking(d)' => Asking(d)
        /\ \A q \in Runners : Planning(q)' => Planning(q)
        /\ \A q \in Runners : BeforeCall(q)' => BeforeCall(q)
    BY <1>1, <1>2, <2>2, PhasesKept
  <2>4. QED
    BY <1>4, <1>5, <2>1, <2>3, AsksKept, PlansKept DEF Runners
<1>8. QED
  BY <1>6, <1>7 DEF Plan

\* The actions of the request handler, the timer and the environment move no
\* runner closer to a call, and claim nothing.
LEMMA OthersClaims ==
  ASSUME IndInv,
         SubmitStep \/ Timeout \/ TimeoutTell \/ TimeoutError
         \/ EngineSend \/ Redeliver \/ Deactivate \/ Reactivate \/ Crash
         \/ UNCHANGED vars
  PROVE  ClaimsInv'
<1> USE DEF IndInv, ClaimsInv
<1>1. pc \in [Runners -> Steps] /\ job \in Jobs
  BY DEF TypeInv, TypeOK
<1>2. CASE Crash
  <2>1. /\ requests' = requests /\ calls' = calls /\ job' = job
        /\ submit' = "idle" => submit = "idle"
    BY <1>2 DEF Crash, engineVars
  <2>2. \A r \in Runners : pc'[r] \in {"idle", "done"} \/ pc'[r] = pc[r]
    BY <1>2 DEF Crash
  <2>3. \A r \in Runners : pc[r] = "idle" => pc'[r] = "idle"
    BY <1>2 DEF Crash, Running
  <2>4. OneAsks'
    BY <2>1, <2>2, AsksKept DEF Asking, Runners
  <2>5. OnePlans'
    BY <2>1, <2>2, PlansKept DEF Planning, PlanSteps, BeforeCall
  <2>6. Unsubmitted'
    BY <1>2, <2>1, <2>3 DEF Unsubmitted, Crash, Running, Runners
  <2>7. QED
    BY <2>4, <2>5, <2>6
<1>3. CASE SubmitStep
  <2>1. /\ requests' = requests /\ calls' = calls /\ pc' = pc /\ submit' # "idle"
    BY <1>3 DEF SubmitStep, SubmitCreate, SubmitEnqueue, SubmitMarkFailed, engineVars
  <2>2. \/ job'.status = job.status
        \/ job'.status = "failed"
        \/ job.status = "absent" /\ job'.status = "pending"
    BY <1>1, <1>3, CreateFacts, UpdateStatusFacts
    DEF SubmitStep, SubmitCreate, SubmitEnqueue, SubmitMarkFailed, Statuses, Unsubmitted
  <2>3. Unsubmitted'
    BY <2>1 DEF Unsubmitted
  <2>4. QED
    BY <2>1, <2>2, <2>3, AsksKept, PlansKept DEF Asking, Planning, BeforeCall
<1>4. CASE Timeout \/ TimeoutTell \/ TimeoutError
           \/ EngineSend \/ Redeliver \/ Deactivate \/ Reactivate \/ UNCHANGED vars
  <2>1. /\ requests' = requests /\ calls' = calls /\ pc' = pc
        /\ submit' = submit /\ queued' = queued
    BY <1>4 DEF Timeout, TimeoutTell, TimeoutError, EngineSend, Redeliver,
                Deactivate, Reactivate, vars, engineVars
  <2>2. \/ job' = job
        \/ job.status = "gathering" /\ job'.status = "failed"
    BY <1>1, <1>4, FailIfStillGatheringFacts
    DEF Timeout, TimeoutTell, TimeoutError, EngineSend, Redeliver, Deactivate,
        Reactivate, vars, StillGathering
  <2>3. Unsubmitted'
    BY <2>1, <2>2 DEF Unsubmitted
  <2>4. QED
    BY <2>1, <2>2, <2>3, AsksKept, PlansKept DEF Asking, Planning, BeforeCall
<1>5. QED
  BY <1>2, <1>3, <1>4

\* A delivery claims the job, or publishes after it did.
LEMMA DeliveryClaims ==
  ASSUME IndInv, NEW d \in Deliveries, DeliveryStep(d) \/ Stall(d) \/ Throw(d)
  PROVE  ClaimsInv'
<1> USE DEF IndInv, ClaimsInv
<1>1. /\ pc \in [Runners -> Steps] /\ job \in Jobs /\ requests \in Nat
      /\ d \in Runners /\ d # Consumer
  BY RunnersAssumption DEF TypeInv, TypeOK, Runners
<1>2. CASE Plan(d)
  BY <1>1, <1>2, PlanClaims
<1>3. CASE Claim(d)
  <2>1. CASE CanClaimPending(job)
    <3>1. job.status = "pending" /\ job'.status = "gathering"
      BY <1>1, <1>3, <2>1, ClaimForGatheringFacts DEF Claim, CanClaimPending
    <3>2. pc'[d] = "check" /\ \A r \in Runners : r # d => pc'[r] = pc[r]
      BY <1>1, <1>3, <2>1, GotoFacts, StepsFacts DEF Claim
    <3>3. /\ submit' = submit /\ requests' = requests /\ calls' = calls
          /\ requests = 0 /\ calls = 0 /\ submit # "idle"
      BY <1>3, <3>1 DEF Claim, engineVars, OneAsks, OnePlans, Unsubmitted
    <3>4. OneAsks'
      BY <3>1, <3>2, <3>3 DEF OneAsks, Asking, Runners
    <3>5. OnePlans'
      BY <3>1, <3>2, <3>3, PlansKept DEF Planning, PlanSteps, BeforeCall
    <3>6. QED
      BY <3>3, <3>4, <3>5 DEF Unsubmitted
  <2>2. CASE ~CanClaimPending(job)
    <3>1. Goto(d, "done") /\ job' = job /\ requests' = requests
          /\ calls' = calls /\ submit' = submit
      BY <1>3, <2>2 DEF Claim, engineVars
    <3>2. /\ \A q \in Runners : Asking(q)' => Asking(q)
          /\ \A q \in Runners : Planning(q)' => Planning(q)
          /\ \A q \in Runners : BeforeCall(q)' => BeforeCall(q)
      BY <1>1, <3>1, PhasesKept, StepsFacts DEF PlanSteps
    <3>3. submit # "idle"
      BY <1>3 DEF Claim, Unsubmitted
    <3>4. QED
      BY <3>1, <3>2, <3>3, AsksKept, PlansKept DEF Runners, Unsubmitted
  <2>3. QED
    BY <2>1, <2>2
<1>4. CASE Publish(d)
  <2>1. PICK step \in {"schedule", "writePublishFailed"} : Goto(d, step)
    BY <1>4 DEF Publish
  <2>2. Asking(d) /\ requests = 0 /\ requests' \in {0, 1}
        /\ job.status \notin {"absent", "pending"} /\ submit # "idle"
    BY <1>4 DEF Publish, Asking, OneAsks, Unsubmitted
  <2>3. job' = job /\ calls' = calls /\ submit' = submit
    BY <1>4 DEF Publish
  <2>4. pc'[d] = step /\ \A r \in Runners : r # d => pc'[r] = pc[r]
    BY <1>1, <2>1, GotoFacts, StepsFacts
  <2>5. \A e \in Deliveries : ~Asking(e)'
    BY <1>1, <2>2, <2>4 DEF OneAsks, Asking, Runners
  <2>6. OneAsks'
    BY <2>2, <2>3, <2>5 DEF OneAsks
  <2>7. OnePlans'
    BY <2>3, <2>4, PlansKept DEF Planning, PlanSteps, BeforeCall
  <2>8. QED
    BY <2>2, <2>3, <2>6, <2>7 DEF Unsubmitted
<1>5. CASE ClaimPlan(d)
  <2>1. requests' = requests /\ calls' = calls /\ submit' = submit /\ submit # "idle"
    BY <1>5 DEF ClaimPlan, engineVars, Unsubmitted
  <2>2. CASE StillGathering(job)
    <3>1. job.status = "gathering" /\ job'.status = "planning"
      BY <1>1, <1>5, <2>2, ClaimForPlanningFacts DEF ClaimPlan, StillGathering
    <3>2. Goto(d, "planCheck")
      BY <1>5, <2>2 DEF ClaimPlan
    <3>3. OnePlans'
      BY <1>1, <2>1, <3>1, <3>2, PlansClaimed
    <3>4. \A e \in Deliveries : Asking(e)' => Asking(e)
      BY <1>1, <3>2, GotoFacts, StepsFacts DEF Asking, Runners
    <3>5. QED
      BY <2>1, <3>1, <3>3, <3>4, AsksKept DEF Unsubmitted
  <2>3. CASE ~StillGathering(job)
    <3>1. Goto(d, "done") /\ job' = job
      BY <1>5, <2>3 DEF ClaimPlan
    <3>2. /\ \A q \in Runners : Asking(q)' => Asking(q)
          /\ \A q \in Runners : Planning(q)' => Planning(q)
          /\ \A q \in Runners : BeforeCall(q)' => BeforeCall(q)
      BY <1>1, <3>1, PhasesKept, StepsFacts DEF PlanSteps
    <3>3. QED
      BY <2>1, <3>1, <3>2, AsksKept, PlansKept DEF Runners, Unsubmitted
  <2>4. QED
    BY <2>2, <2>3
<1>6. CASE Deliver(d) \/ CheckUser(d) \/ Resolve(d) \/ ScheduleTimeout(d)
           \/ WriteFailure(d) \/ Tell(d) \/ Throw(d)
  <2>1. /\ requests' = requests /\ calls' = calls /\ submit' = submit
        /\ submit # "idle"
    BY <1>6, FailureWritesFacts
    DEF Deliver, CheckUser, Resolve, ScheduleTimeout, WriteFailure, Tell,
        Throw, Throwing, TellSteps, engineVars, Unsubmitted
  <2>2. job' = job \/ job'.status = "failed"
    <3>1. CASE WriteFailure(d)
      <4>1. job' = UpdateStatus(job, "failed") /\ "failed" \in Statuses
        BY <3>1 DEF WriteFailure, Statuses
      <4>2. QED
        BY <1>1, <4>1, UpdateStatusFacts
    <3>2. CASE Deliver(d) \/ CheckUser(d) \/ Resolve(d) \/ ScheduleTimeout(d)
               \/ Tell(d) \/ Throw(d)
      BY <3>2 DEF Deliver, CheckUser, Resolve, ScheduleTimeout, Tell, Throw
    <3>3. QED
      BY <1>6, <3>1, <3>2
  <2>3. \E step \in Steps :
          /\ Goto(d, step)
          /\ step \in {"check", "resolve", "publish"} => Asking(d)
          /\ step \notin PlanSteps
    BY <1>6, StepsFacts
    DEF Deliver, CheckUser, Resolve, ScheduleTimeout, WriteFailure, Tell,
        Throw, Asking, PlanSteps
  <2>4. /\ \A q \in Runners : Asking(q)' => Asking(q)
        /\ \A q \in Runners : Planning(q)' => Planning(q)
        /\ \A q \in Runners : BeforeCall(q)' => BeforeCall(q)
    BY <1>1, <2>3, PhasesKept DEF PlanSteps
  <2>5. QED
    BY <2>1, <2>2, <2>4, AsksKept, PlansKept DEF Runners, Unsubmitted
<1>7. CASE Stall(d)
  <2>1. /\ requests' = requests /\ calls' = calls /\ submit' = submit
        /\ job' = job /\ pc' = pc
    BY <1>7 DEF Stall, engineVars
  <2>2. submit # "idle"
    BY <1>7 DEF Stall, Running, Unsubmitted
  <2>3. QED
    BY <2>1, <2>2, AsksKept, PlansKept DEF Asking, Planning, BeforeCall, Unsubmitted
<1>8. CASE ClaimLegacy(d)
  <2>1. /\ requests' = requests /\ calls' = calls /\ submit' = submit
        /\ submit # "idle"
    BY <1>8 DEF ClaimLegacy, engineVars, Unsubmitted
  <2>2. CASE CanClaimPending(job)
    <3>1. job.status = "pending" /\ job'.status = "running"
      BY <1>1, <1>8, <2>2, ClaimForProcessingFacts DEF ClaimLegacy, CanClaimPending
    <3>2. Goto(d, "lookupPrompt")
      BY <1>8, <2>2 DEF ClaimLegacy
    <3>3. OnePlans'
      BY <1>1, <2>1, <3>1, <3>2, PlansClaimed
    <3>4. \A e \in Deliveries : Asking(e)' => Asking(e)
      BY <1>1, <3>2, GotoFacts, StepsFacts DEF Asking, Runners
    <3>5. QED
      BY <2>1, <3>1, <3>3, <3>4, AsksKept DEF Unsubmitted
  <2>3. CASE ~CanClaimPending(job)
    <3>1. Goto(d, "done") /\ job' = job
      BY <1>8, <2>3 DEF ClaimLegacy
    <3>2. /\ \A q \in Runners : Asking(q)' => Asking(q)
          /\ \A q \in Runners : Planning(q)' => Planning(q)
          /\ \A q \in Runners : BeforeCall(q)' => BeforeCall(q)
      BY <1>1, <3>1, PhasesKept, StepsFacts DEF PlanSteps
    <3>3. QED
      BY <2>1, <3>1, <3>2, AsksKept, PlansKept DEF Runners, Unsubmitted
  <2>4. QED
    BY <2>2, <2>3
<1>9. CASE LookupPrompt(d)
  <2>1. /\ requests' = requests /\ calls' = calls /\ submit' = submit
        /\ job' = job /\ submit # "idle" /\ Goto(d, "planCheck")
        /\ Planning(d) /\ BeforeCall(d)
    BY <1>9 DEF LookupPrompt, engineVars, Unsubmitted, Planning, PlanSteps, BeforeCall
  <2>2. /\ \A q \in Runners : Asking(q)' => Asking(q)
        /\ \A q \in Runners : Planning(q)' => Planning(q)
        /\ \A q \in Runners : BeforeCall(q)' => BeforeCall(q)
    BY <1>1, <2>1, PhasesKept, StepsFacts
  <2>3. QED
    BY <2>1, <2>2, AsksKept, PlansKept DEF Runners, Unsubmitted
<1>10. QED
  BY <1>2, <1>3, <1>4, <1>5, <1>6, <1>7, <1>8, <1>9 DEF DeliveryStep

\* The consumer claims the job for planning with a terminal chunk; its other
\* steps move it outside both phases.
LEMMA ConsumerClaims ==
  ASSUME IndInv, Consume \/ Requeue
  PROVE  ClaimsInv'
<1> USE DEF IndInv, ClaimsInv
<1>1. /\ pc \in [Runners -> Steps] /\ job \in Jobs /\ Consumer \in Runners
      /\ snapshot \in SUBSET Nat
  BY DEF TypeInv, TypeOK, Runners
<1>2. \A d \in Deliveries : d \in Runners /\ d # Consumer
  BY RunnersAssumption DEF Runners
<1>3. CASE Plan(Consumer)
  BY <1>1, <1>3, PlanClaims
<1>4. CASE Finalize /\ job'.status = "planning" /\ job.status = "gathering"
  <2>1. /\ requests' = requests /\ calls' = calls /\ submit' = submit
        /\ Goto(Consumer, "planCheck")
    <3>1. FailIfStillGathering(job).status = "failed"
      BY <1>1, FailIfStillGatheringFacts
    <3>2. QED
      BY <1>4, <3>1 DEF Finalize, engineVars, StillGathering
  <2>2. OnePlans'
    BY <1>1, <1>4, <2>1, PlansClaimed
  <2>3. \A d \in Deliveries : Asking(d)' => Asking(d)
    BY <1>1, <1>2, <2>1, GotoFacts, StepsFacts DEF Asking
  <2>4. submit # "idle"
    BY <1>4 DEF Unsubmitted
  <2>5. QED
    BY <1>4, <2>1, <2>2, <2>3, <2>4, AsksKept DEF Unsubmitted
<1>5. CASE /\ Receive \/ Find \/ AppendChunk \/ Relay \/ Requeue \/ Finalize
           /\ ~(Finalize /\ job'.status = "planning" /\ job.status = "gathering")
  <2>1. /\ requests' = requests /\ calls' = calls /\ submit' = submit
        /\ queued' = queued
    BY <1>5 DEF Receive, Find, AppendChunk, Relay, Requeue, Finalize, engineVars
  <2>2. \/ job'.status = job.status
        \/ job.status = "gathering" /\ job'.status = "failed"
    <3>1. CASE Receive \/ Find \/ Relay \/ Requeue
      BY <3>1 DEF Receive, Find, Relay, Requeue
    <3>2. CASE AppendChunk
      <4>1. CASE CanAppend(job, Chunk)
        <5>1. Chunk \in Nat /\ (sent[Chunk] = "data") \in BOOLEAN
          <6>1. chain \in Seq(1 .. Len(sent)) /\ chain # <<>>
            BY <3>2 DEF AppendChunk, TypeInv, TypeOK, HandlingInv
          <6>2. QED
            BY <6>1, QueueFacts DEF Chunk
        <5>2. AppendResultChunk(job, Chunk, sent[Chunk] = "data").status = job.status
          BY <1>1, <5>1, AppendResultChunkFacts
        <5>3. QED
          BY <3>2, <4>1, <5>2 DEF AppendChunk
      <4>2. CASE ~CanAppend(job, Chunk)
        BY <3>2, <4>2 DEF AppendChunk
      <4>3. QED
        BY <4>1, <4>2
    <3>3. CASE Finalize
      <4>1. ClaimForPlanning(job, snapshot).status = "planning"
        BY <1>1, ClaimForPlanningFacts
      <4>2. FailIfStillGathering(job).status = "failed"
        BY <1>1, FailIfStillGatheringFacts
      <4>3. QED
        BY <1>5, <3>3, <4>1, <4>2 DEF Finalize, StillGathering
    <3>4. QED
      BY <1>5, <3>1, <3>2, <3>3
  <2>3. /\ \A q \in Runners : Asking(q)' => Asking(q)
        /\ \A q \in Runners : Planning(q)' => Planning(q)
        /\ \A q \in Runners : BeforeCall(q)' => BeforeCall(q)
    <3>1. CASE UNCHANGED pc
      BY <3>1 DEF Asking, Planning, BeforeCall
    <3>2. CASE \E step \in Steps \ ({"check", "resolve", "publish"} \cup PlanSteps) :
                 Goto(Consumer, step)
      BY <1>1, <3>2, PhasesKept DEF PlanSteps
    <3>3. UNCHANGED pc \/ \E step \in Steps \ ({"check", "resolve", "publish"} \cup PlanSteps) :
                 Goto(Consumer, step)
      <4>1. ClaimForPlanning(job, snapshot).status = "planning"
        BY <1>1, ClaimForPlanningFacts
      <4>2. CASE Receive
        BY <4>2 DEF Receive
      <4>3. CASE Find \/ AppendChunk \/ Relay \/ Requeue
        BY <4>3, StepsFacts DEF Find, AppendChunk, Relay, Requeue, Ack, PlanSteps
      <4>4. CASE Finalize
        BY <1>5, <4>1, <4>4, StepsFacts DEF Finalize, StillGathering, Ack, PlanSteps
      <4>5. QED
        BY <1>5, <4>2, <4>3, <4>4
    <3>4. QED
      BY <3>1, <3>2, <3>3
  <2>4. Unsubmitted'
    <3>1. \A d \in Deliveries : pc'[d] = pc[d]
      BY <1>1, <1>2, <1>5, GotoFacts, StepsFacts
      DEF Receive, Find, AppendChunk, Relay, Requeue, Finalize, Ack, Goto
    <3>2. QED
      BY <2>1, <2>2, <3>1 DEF Unsubmitted
  <2>5. QED
    BY <2>1, <2>2, <2>3, <2>4, AsksKept, PlansKept DEF Runners
<1>6. QED
  BY <1>3, <1>4, <1>5 DEF Consume

\* ClaimsInv is inductive together with the types: nothing but the claims
\* opens the way to a gather request or to the provider.
LEMMA IndInvHolds == Spec => []IndInv
<1>1. Init => IndInv
  <2> SUFFICES ASSUME Init PROVE IndInv
    OBVIOUS
  <2>1. TypeInv
    BY TypeInit
  <2>2. job.status = "absent"
    BY CreateFacts DEF Init
  <2>3. \A r \in Runners : pc[r] = "idle"
    BY DEF Init
  <2>4. QED
    BY <2>1, <2>2, <2>3
    DEF IndInv, ClaimsInv, Unsubmitted, OneAsks, OnePlans, Asking, Planning,
        PlanSteps, BeforeCall, Runners, Init
<1>2. IndInv /\ [Next]_vars => IndInv'
  BY TypeNext, DeliveryClaims, ConsumerClaims, OthersClaims DEF IndInv, Next
<1>3. QED
  BY <1>1, <1>2, PTL DEF Spec

\* The claims, as the runs check them.
THEOREM ClaimsHold == Spec => []ClaimsInv
<1>1. IndInv => ClaimsInv
  BY DEF IndInv
<1>2. QED
  BY <1>1, IndInvHolds, PTL

\* One provider call at most, and one runner at most in the planning phase,
\* whatever BullMQ, the broker and crashes repeat.
THEOREM PlannedOnceHolds == Spec => []PlannedOnce
<1>1. ClaimsInv => PlannedOnce
  BY DEF ClaimsInv, OnePlans, PlannedOnce
<1>2. QED
  BY ClaimsHold, <1>1, PTL

\* One gather request at most leaves for the context engine.
THEOREM RequestedOnceHolds == Spec => []RequestedOnce
<1>1. ClaimsInv => RequestedOnce
  BY DEF ClaimsInv, OneAsks, RequestedOnce
<1>2. QED
  BY ClaimsHold, <1>1, PTL

-----------------------------------------------------------------------------
(* Who is served. *)

\* Behind each check stands only a runner whose check found the account active
\* since the phase began.
ServedInv ==
  /\ active => lapsed = {}
  /\ \A d \in Deliveries : pc[d] \in {"resolve", "publish"} => "gather" \notin lapsed
  /\ \A r \in Runners : /\ pc[r] = "retrieve" => "plan" \notin lapsed
                        /\ pc[r] = "planCall" => "prompt" \notin lapsed

\* The steps behind a check.
Checked == {"resolve", "publish", "retrieve", "planCall"}

\* Runners that do not move, or move out of every phase.
LEMMA ServedKept ==
  ASSUME ServedInv, active' => active, lapsed' = lapsed,
         \A r \in Runners : pc'[r] \notin Checked \/ pc'[r] = pc[r]
  PROVE  ServedInv'
BY DEF ServedInv, Checked, Runners

\* A runner moves to a step behind no check, or had its account checked.
LEMMA ServedMoved ==
  ASSUME TypeInv, ServedInv, active' = active, lapsed' = lapsed,
         NEW r \in Runners, NEW step \in Steps, Goto(r, step),
         step \in {"resolve", "publish"} => active \/ pc[r] \in {"resolve", "publish"},
         step \in {"retrieve", "planCall"} => active
  PROVE  ServedInv'
<1>1. pc'[r] = step /\ \A q \in Runners : q # r => pc'[q] = pc[q]
  BY GotoFacts DEF TypeInv, TypeOK
<1>2. \A d \in Deliveries : pc'[d] \in {"resolve", "publish"} => "gather" \notin lapsed
  BY <1>1 DEF ServedInv, Runners
<1>3. \A q \in Runners : /\ pc'[q] = "retrieve" => "plan" \notin lapsed
                         /\ pc'[q] = "planCall" => "prompt" \notin lapsed
  BY <1>1 DEF ServedInv
<1> QED BY <1>2, <1>3 DEF ServedInv

\* A phase begins, with nobody behind its check.
LEMMA ServedEntered ==
  ASSUME TypeInv, ServedInv, active' = active, NEW phase \in Phases, Enter(phase),
         NEW r \in Runners, NEW step \in Steps \ Checked, Goto(r, step),
         phase = "gather" => \A d \in Deliveries : ~Asking(d),
         phase # "gather" => \A q \in Runners : q # r => ~Planning(q)
  PROVE  ServedInv'
<1>1. pc'[r] = step /\ \A q \in Runners : q # r => pc'[q] = pc[q]
  BY GotoFacts DEF TypeInv, TypeOK
<1>2. lapsed' = lapsed \/ (~active /\ lapsed' = lapsed \cup {phase})
  BY DEF Enter
<1>3. \A d \in Deliveries : pc'[d] \in {"resolve", "publish"} => "gather" \notin lapsed'
  BY <1>1, <1>2 DEF ServedInv, Asking, Checked, Runners
<1>4. \A q \in Runners : /\ pc'[q] = "retrieve" => "plan" \notin lapsed'
                         /\ pc'[q] = "planCall" => "prompt" \notin lapsed'
  BY <1>1, <1>2 DEF ServedInv, Planning, PlanSteps, Checked, Phases
<1> QED BY <1>2, <1>3, <1>4 DEF ServedInv

\* A planning step keeps it: retrieval and call come behind a check.
LEMMA PlanServed ==
  ASSUME IndInv, ServedInv, NEW r \in Runners, Plan(r)
  PROVE  ServedInv'
<1>1. CASE Retrieve(r) /\ Goto(r, "planRecheck")
  <2>1. active' = active /\ (Enter("prompt") \/ lapsed' = lapsed) /\ Planning(r)
    BY <1>1 DEF Retrieve, Planning, PlanSteps
  <2>2. \A q \in Runners : q # r => ~Planning(q)
    BY <2>1 DEF IndInv, ClaimsInv, OnePlans
  <2>3. "prompt" \in Phases /\ "planRecheck" \in Steps \ Checked
    BY StepsFacts DEF Phases, Checked
  <2>4. CASE Enter("prompt")
    BY <1>1, <2>1, <2>2, <2>3, <2>4, ServedEntered DEF IndInv
  <2>5. CASE lapsed' = lapsed
    BY <1>1, <2>1, <2>3, <2>5, ServedMoved DEF IndInv
  <2> QED BY <2>1, <2>4, <2>5
<1>2. CASE ~(Retrieve(r) /\ Goto(r, "planRecheck"))
  <2>1. active' = active /\ lapsed' = lapsed
    BY <1>2 DEF Plan, PlanCheck, Retrieve, PlanRecheck, PlanCall, PlanWrite, historyVars
  <2>2. PICK step \in Steps :
          /\ Goto(r, step) /\ step \notin {"resolve", "publish"}
          /\ step \in {"retrieve", "planCall"} => active
    BY <1>2, StepsFacts DEF Plan, PlanCheck, Retrieve, PlanRecheck, PlanCall, PlanWrite,
      PlanStepFails
  <2> QED BY <2>1, <2>2, ServedMoved DEF IndInv
<1> QED BY <1>1, <1>2

\* At the claims nobody is behind the checks of the phase they begin.
LEMMA DeliveryServed ==
  ASSUME IndInv, ServedInv, NEW d \in Deliveries, DeliveryStep(d) \/ Stall(d) \/ Throw(d)
  PROVE  ServedInv'
<1> USE DEF IndInv
<1>1. pc \in [Runners -> Steps] /\ d \in Runners /\ job \in Jobs
  BY DEF TypeInv, TypeOK, Runners
<1>2. CASE Plan(d)
  BY <1>1, <1>2, PlanServed
<1>3. CASE Claim(d) /\ CanClaimPending(job)
  <2>1. active' = active /\ Enter("gather") /\ Goto(d, "check")
    BY <1>3 DEF Claim
  <2>2. \A e \in Deliveries : ~Asking(e)
    BY <1>3 DEF CanClaimPending, ClaimsInv, OneAsks
  <2>3. "gather" \in Phases /\ "check" \in Steps \ Checked
    BY StepsFacts DEF Phases, Checked
  <2> QED BY <1>1, <2>1, <2>2, <2>3, ServedEntered
<1>4. CASE \/ ClaimLegacy(d) /\ CanClaimPending(job)
           \/ ClaimPlan(d) /\ StillGathering(job)
  <2>1. active' = active /\ Enter("plan")
    BY <1>4 DEF ClaimLegacy, ClaimPlan
  <2>2. PICK step \in {"lookupPrompt", "planCheck"} : Goto(d, step)
    BY <1>4 DEF ClaimLegacy, ClaimPlan
  <2>3. \A r \in Runners : ~Planning(r)
    BY <1>4 DEF CanClaimPending, StillGathering, ClaimsInv, OnePlans
  <2>4. "plan" \in Phases /\ "plan" # "gather" /\ step \in Steps \ Checked
    BY StepsFacts DEF Phases, Checked
  <2> QED BY <1>1, <2>1, <2>2, <2>3, <2>4, ServedEntered
<1>5. CASE \/ Claim(d) /\ ~CanClaimPending(job)
           \/ ClaimLegacy(d) /\ ~CanClaimPending(job)
           \/ ClaimPlan(d) /\ ~StillGathering(job)
  <2>1. active' = active /\ lapsed' = lapsed /\ Goto(d, "done")
    BY <1>5 DEF Claim, ClaimLegacy, ClaimPlan
  <2> QED BY <1>1, <2>1, ServedMoved, StepsFacts
<1>6. CASE Deliver(d) \/ LookupPrompt(d) \/ CheckUser(d) \/ Resolve(d) \/ Publish(d)
           \/ ScheduleTimeout(d) \/ WriteFailure(d) \/ Tell(d) \/ Throw(d)
  <2>1. active' = active /\ lapsed' = lapsed
    BY <1>6 DEF Deliver, LookupPrompt, CheckUser, Resolve, Publish, ScheduleTimeout,
      WriteFailure, Tell, Throw, historyVars
  <2>2. PICK step \in Steps :
          /\ Goto(d, step) /\ step \notin {"retrieve", "planCall"}
          /\ step \in {"resolve", "publish"} => active \/ pc[d] \in {"resolve", "publish"}
    BY <1>6, StepsFacts DEF Deliver, LookupPrompt, CheckUser, Resolve, Publish,
      ScheduleTimeout, WriteFailure, Tell, Throw
  <2> QED BY <1>1, <2>1, <2>2, ServedMoved
<1>7. CASE Stall(d)
  <2>1. active' = active /\ lapsed' = lapsed /\ pc' = pc
    BY <1>7 DEF Stall, historyVars
  <2> QED BY <2>1, ServedKept
<1> QED BY <1>2, <1>3, <1>4, <1>5, <1>6, <1>7 DEF DeliveryStep

\* So do the consumer and a chunk that is requeued.
LEMMA ConsumerServed ==
  ASSUME IndInv, ServedInv, Consume \/ Requeue
  PROVE  ServedInv'
<1> USE DEF IndInv
<1>1. pc \in [Runners -> Steps] /\ Consumer \in Runners
  BY DEF TypeInv, TypeOK, Runners
<1>2. CASE Plan(Consumer)
  BY <1>1, <1>2, PlanServed
<1>3. CASE Finalize /\ StillGathering(job) /\ sent[Chunk] = "completed"
  <2>1. active' = active /\ Enter("plan") /\ Goto(Consumer, "planCheck")
    BY <1>3 DEF Finalize
  <2>2. \A r \in Runners : ~Planning(r)
    BY <1>3 DEF StillGathering, ClaimsInv, OnePlans
  <2>3. "plan" \in Phases /\ "plan" # "gather" /\ "planCheck" \in Steps \ Checked
    BY StepsFacts DEF Phases, Checked
  <2> QED BY <1>1, <2>1, <2>2, <2>3, ServedEntered
<1>4. CASE \/ Find \/ AppendChunk \/ Relay \/ Requeue
           \/ Finalize /\ ~(StillGathering(job) /\ sent[Chunk] = "completed")
  <2>1. active' = active /\ lapsed' = lapsed
    BY <1>4 DEF Find, AppendChunk, Relay, Requeue, Finalize, historyVars
  <2>2. PICK step \in Steps : Goto(Consumer, step) /\ step \notin Checked
    BY <1>4, StepsFacts DEF Find, AppendChunk, Relay, Requeue, Finalize, Ack, Checked
  <2> QED BY <1>1, <2>1, <2>2, ServedMoved DEF Checked
<1>5. CASE Receive
  <2>1. active' = active /\ lapsed' = lapsed /\ pc' = pc
    BY <1>5 DEF Receive, historyVars
  <2> QED BY <2>1, ServedKept
<1> QED BY <1>2, <1>3, <1>4, <1>5 DEF Consume

\* So does every step that moves no runner on; an account that is active again
\* ends every lapse.
LEMMA OthersServed ==
  ASSUME ServedInv,
         SubmitStep \/ Timeout \/ TimeoutTell \/ TimeoutError
         \/ EngineSend \/ Redeliver \/ Deactivate \/ Reactivate \/ Crash
         \/ UNCHANGED vars
  PROVE  ServedInv'
<1>1. CASE Reactivate
  BY <1>1 DEF Reactivate, ServedInv
<1>2. CASE ~Reactivate
  <2>1. (active' => active) /\ lapsed' = lapsed
    BY <1>2 DEF SubmitStep, SubmitCreate, SubmitEnqueue, SubmitMarkFailed, Timeout,
      TimeoutTell, TimeoutError, EngineSend, Redeliver, Deactivate, Crash, vars, historyVars
  <2>2. \A r \in Runners : pc'[r] \in {"idle", "done"} \/ pc'[r] = pc[r]
    BY <1>2 DEF SubmitStep, SubmitCreate, SubmitEnqueue, SubmitMarkFailed, Timeout,
      TimeoutTell, TimeoutError, EngineSend, Redeliver, Deactivate, Crash, vars
  <2> QED BY <2>1, <2>2, ServedKept DEF Checked
<1> QED BY <1>1, <1>2

\* Only Publish asks the context engine, and only PlanCall the provider.
LEMMA WhoAsks ==
  ASSUME [Next]_vars
  PROVE  /\ requests' # requests => \E d \in Deliveries : pc[d] = "publish"
         /\ calls' # calls => \E r \in Runners : pc[r] = "planCall"
<1>1. ASSUME NEW r \in Runners, Plan(r)
      PROVE  requests' = requests /\ (calls' # calls => pc[r] = "planCall")
  BY <1>1 DEF Plan, PlanCheck, Retrieve, PlanRecheck, PlanCall, PlanWrite, engineVars
<1>2. ASSUME NEW d \in Deliveries, DeliveryStep(d) \/ Stall(d) \/ Throw(d), ~Plan(d)
      PROVE  calls' = calls /\ (requests' # requests => pc[d] = "publish")
  BY <1>2 DEF DeliveryStep, Deliver, ClaimLegacy, LookupPrompt, Claim, CheckUser, Resolve,
    ClaimPlan, Publish, ScheduleTimeout, WriteFailure, Tell, Stall, Throw, engineVars
<1>3. ASSUME Consume \/ Requeue, ~Plan(Consumer)
      PROVE  calls' = calls /\ requests' = requests
  BY <1>3 DEF Consume, Receive, Find, AppendChunk, Finalize, Relay, Requeue, engineVars
<1>4. ASSUME SubmitStep \/ Timeout \/ TimeoutTell \/ TimeoutError
             \/ EngineSend \/ Redeliver \/ Deactivate \/ Reactivate \/ Crash
             \/ UNCHANGED vars
      PROVE  calls' = calls /\ requests' = requests
  BY <1>4 DEF SubmitStep, SubmitCreate, SubmitEnqueue, SubmitMarkFailed, Timeout,
    TimeoutTell, TimeoutError, EngineSend, Redeliver, Deactivate, Reactivate, Crash, vars,
    engineVars
<1>5. Consumer \in Runners /\ Deliveries \subseteq Runners
  BY DEF Runners
<1> QED BY <1>1, <1>2, <1>3, <1>4, <1>5 DEF Next

\* Nothing is done for an account that has not been active at any moment since
\* the phase of the job began: no request, no retrieval, no provider call,
\* however often the account is disabled and enabled, and whatever runs late or
\* twice (assertJobUserActive, in all its places).
THEOREM InactiveAccountsNotServed == Spec => InactiveNotServed
<1> DEFINE Served == /\ requests' # requests => "gather" \notin lapsed
                     /\ (\E r \in Runners : Retrieve(r)) => "plan" \notin lapsed
                     /\ calls' # calls => "prompt" \notin lapsed
<1>1. Init => ServedInv
  BY DEF Init, ServedInv, Runners
<1>2. ServedInv /\ IndInv /\ [Next]_vars => ServedInv'
  BY DeliveryServed, ConsumerServed, OthersServed DEF Next
<1>3. ServedInv /\ [Next]_vars => [Served]_vars
  <2> SUFFICES ASSUME ServedInv, [Next]_vars PROVE Served
    OBVIOUS
  <2>1. requests' # requests => "gather" \notin lapsed
    BY WhoAsks DEF ServedInv
  <2>2. (\E r \in Runners : Retrieve(r)) => "plan" \notin lapsed
    BY DEF ServedInv, Retrieve
  <2>3. calls' # calls => "prompt" \notin lapsed
    BY WhoAsks DEF ServedInv
  <2> QED BY <2>1, <2>2, <2>3
<1> QED BY <1>1, <1>2, <1>3, IndInvHolds, PTL DEF Spec, InactiveNotServed

-----------------------------------------------------------------------------
(* The context: which chunks the plan is made from.                        *)

\* Each awaited number stands in line s before every larger one.
InOrder(s, W) ==
  \A p \in 1 .. Len(s) : \A w \in W : w < s[p] => \E q \in 1 .. p - 1 : s[q] = w

\* Each awaited number stands in line s.
InLine(s, W) == \A w \in W : \E p \in 1 .. Len(s) : s[p] = w

\* An order of fewer numbers is an order still.
LEMMA OrderOfFewer ==
  ASSUME NEW s, NEW W, NEW V, V \subseteq W, InOrder(s, W), InLine(s, W)
  PROVE  InOrder(s, V) /\ InLine(s, V)
BY DEF InOrder, InLine

\* Dropping the head of the line keeps the order of the other numbers.
LEMMA OrderOfTail ==
  ASSUME NEW s \in Seq(Nat), s # <<>>, NEW W \in SUBSET Nat,
         NEW V, V \subseteq W \ {Head(s)},
         InOrder(s, W), InLine(s, W)
  PROVE  InOrder(Tail(s), V) /\ InLine(Tail(s), V)
<1>1. /\ Len(s) \in Nat \ {0} /\ Len(Tail(s)) = Len(s) - 1
      /\ \A i \in 1 .. Len(s) - 1 : Tail(s)[i] = s[i + 1]
  BY HeadTailProperties, EmptySeq
<1>2. Head(s) = s[1]
  OBVIOUS
<1>3. InOrder(Tail(s), V)
  <2> SUFFICES ASSUME NEW p \in 1 .. Len(s) - 1, NEW w \in V, w < Tail(s)[p]
               PROVE  \E q \in 1 .. p - 1 : Tail(s)[q] = w
    BY <1>1 DEF InOrder
  <2>1. p + 1 \in 1 .. Len(s) /\ w \in W /\ w < s[p + 1]
    BY <1>1
  <2>2. PICK q \in 1 .. p : s[q] = w
    BY <2>1 DEF InOrder
  <2>3. q # 1
    BY <1>2, <2>2
  <2>4. q - 1 \in 1 .. p - 1 /\ Tail(s)[q - 1] = w
    BY <1>1, <2>2, <2>3
  <2>5. QED
    BY <2>4
<1>4. InLine(Tail(s), V)
  <2> SUFFICES ASSUME NEW w \in V PROVE \E p \in 1 .. Len(s) - 1 : Tail(s)[p] = w
    BY <1>1 DEF InLine
  <2>1. PICK q \in 1 .. Len(s) : s[q] = w
    BY DEF InLine
  <2>2. q # 1
    BY <1>2, <2>1
  <2>3. q - 1 \in 1 .. Len(s) - 1 /\ Tail(s)[q - 1] = w
    BY <1>1, <2>1, <2>2
  <2>4. QED
    BY <2>3
<1>5. QED
  BY <1>3, <1>4

\* A number at the end of the line, awaited or not, has the others before it.
LEMMA OrderOfAppend ==
  ASSUME NEW s \in Seq(Nat), NEW e \in Nat, NEW W \in SUBSET Nat,
         NEW V, \/ V \subseteq W
                \/ V \subseteq W \cup {e} /\ \A p \in 1 .. Len(s) : s[p] <= e,
         InOrder(s, W), InLine(s, W)
  PROVE  InOrder(Append(s, e), V) /\ InLine(Append(s, e), V)
<1> DEFINE t == Append(s, e)
<1>1. /\ Len(s) \in Nat /\ Len(t) = Len(s) + 1 /\ t[Len(s) + 1] = e
      /\ \A i \in 1 .. Len(s) : t[i] = s[i]
      /\ \A i \in 1 .. Len(s) : s[i] \in Nat
  BY AppendProperties, LenProperties, ElementOfSeq
<1> HIDE DEF t
<1>2. InOrder(t, V)
  <2> SUFFICES ASSUME NEW p \in 1 .. Len(s) + 1, NEW w \in V, w < t[p]
               PROVE  \E q \in 1 .. p - 1 : t[q] = w
    BY <1>1 DEF InOrder
  <2>1. CASE p \in 1 .. Len(s)
    <3>1. w \in W
      BY <1>1, <2>1
    <3>2. PICK q \in 1 .. p - 1 : s[q] = w
      BY <1>1, <2>1, <3>1 DEF InOrder
    <3>3. QED
      BY <1>1, <2>1, <3>2
  <2>2. CASE p = Len(s) + 1
    <3>1. w \in W
      BY <1>1, <2>2
    <3>2. PICK q \in 1 .. Len(s) : s[q] = w
      BY <3>1 DEF InLine
    <3>3. QED
      BY <1>1, <2>2, <3>2
  <2>3. QED
    BY <1>1, <2>1, <2>2
<1>3. InLine(t, V)
  <2> SUFFICES ASSUME NEW w \in V PROVE \E q \in 1 .. Len(s) + 1 : t[q] = w
    BY <1>1 DEF InLine
  <2>1. CASE w = e
    BY <1>1, <2>1
  <2>2. CASE w \in W
    <3>1. PICK q \in 1 .. Len(s) : s[q] = w
      BY <2>2 DEF InLine
    <3>2. QED
      BY <1>1, <3>1
  <2>3. QED
    BY <2>1, <2>2
<1>4. QED
  BY <1>2, <1>3 DEF t

\* The elements of a line made of two lines.
LEMMA JoinFacts ==
  ASSUME NEW s \in Seq(Nat), NEW t \in Seq(Nat), NEW x, x = s \o t
  PROVE  /\ x \in Seq(Nat) /\ Len(s) \in Nat /\ Len(t) \in Nat
         /\ Len(x) = Len(s) + Len(t)
         /\ \A i \in 1 .. Len(s) : x[i] = s[i]
         /\ \A i \in 1 .. Len(t) : x[Len(s) + i] = t[i]
OBVIOUS

\* Delivering the front of the line again keeps the order.
LEMMA OrderOfRepeat ==
  ASSUME NEW s \in Seq(Nat), NEW t \in Seq(Nat), NEW W \in SUBSET Nat,
         InOrder(s \o t, W), InLine(s \o t, W)
  PROVE  InOrder(s \o (s \o t), W) /\ InLine(s \o (s \o t), W)
<1> DEFINE u == s \o t
           v == s \o u
<1>1. /\ Len(s) \in Nat /\ Len(t) \in Nat
      /\ Len(u) = Len(s) + Len(t) /\ Len(v) = Len(s) + Len(u)
      /\ \A i \in 1 .. Len(s) : u[i] = s[i] /\ v[i] = s[i]
      /\ \A i \in 1 .. Len(u) : v[Len(s) + i] = u[i]
  <2>1. u = s \o t /\ v = s \o u
    OBVIOUS
  <2> HIDE DEF u, v
  <2>2. /\ u \in Seq(Nat) /\ Len(s) \in Nat /\ Len(t) \in Nat
        /\ Len(u) = Len(s) + Len(t)
        /\ \A i \in 1 .. Len(s) : u[i] = s[i]
    BY <2>1, JoinFacts
  <2>3. /\ Len(v) = Len(s) + Len(u)
        /\ \A i \in 1 .. Len(s) : v[i] = s[i]
        /\ \A i \in 1 .. Len(u) : v[Len(s) + i] = u[i]
    BY <2>1, <2>2, JoinFacts
  <2>4. QED
    BY <2>2, <2>3
<1> HIDE DEF u, v
<1>2. InOrder(v, W)
  <2> SUFFICES ASSUME NEW p \in 1 .. Len(v), NEW w \in W, w < v[p]
               PROVE  \E q \in 1 .. p - 1 : v[q] = w
    BY DEF InOrder
  <2>1. CASE p <= Len(s)
    <3>1. p \in 1 .. Len(u) /\ w < u[p]
      BY <1>1, <2>1
    <3>2. PICK q \in 1 .. p - 1 : u[q] = w
      BY <3>1 DEF InOrder, u
    <3>3. q \in 1 .. Len(s)
      BY <1>1, <2>1
    <3>4. v[q] = w
      BY <1>1, <3>2, <3>3
    <3>5. QED
      BY <3>4
  <2>2. CASE p > Len(s)
    <3> DEFINE i == p - Len(s)
    <3>1. i \in 1 .. Len(u) /\ p = Len(s) + i
      BY <1>1, <2>2
    <3>2. w < u[i]
      BY <1>1, <3>1
    <3>3. PICK q \in 1 .. i - 1 : u[q] = w
      BY <3>1, <3>2 DEF InOrder, u
    <3>4. Len(s) + q \in 1 .. p - 1 /\ v[Len(s) + q] = w
      BY <1>1, <3>1, <3>3
    <3>5. QED
      BY <3>4
  <2>3. QED
    BY <1>1, <2>1, <2>2
<1>3. InLine(v, W)
  <2> SUFFICES ASSUME NEW w \in W PROVE \E p \in 1 .. Len(v) : v[p] = w
    BY DEF InLine
  <2>1. PICK q \in 1 .. Len(u) : u[q] = w
    BY DEF InLine, u
  <2>2. Len(s) + q \in 1 .. Len(v) /\ v[Len(s) + q] = w
    BY <1>1, <2>1
  <2>3. QED
    BY <2>2
<1>4. QED
  BY <1>2, <1>3 DEF u, v

\* Moving the head c of the line behind the messages held, once it is no
\* longer awaited, keeps the order of the others.
LEMMA OrderOfRequeue ==
  ASSUME NEW s \in Seq(Nat), s # <<>>, NEW t \in Seq(Nat), NEW W \in SUBSET Nat,
         NEW V, V \subseteq W \ {Head(s)},
         InOrder(s \o t, W), InLine(s \o t, W)
  PROVE  LET u == Tail(s) \o (<<Head(s)>> \o t)
         IN  InOrder(u, V) /\ InLine(u, V)
<1> DEFINE l == s \o t
           c == Head(s)
           r == <<c>> \o t
           u == Tail(s) \o r
           n == Len(s)
<1>1. /\ n \in Nat \ {0} /\ Len(t) \in Nat
      /\ Len(l) = n + Len(t) /\ Len(u) = n + Len(t)
      /\ l[1] = c /\ u[n] = c
      /\ \A i \in 1 .. n - 1 : u[i] = l[i + 1]
      /\ \A i \in n + 1 .. n + Len(t) : u[i] = l[i]
  <2>1. /\ n \in Nat \ {0} /\ Tail(s) \in Seq(Nat) /\ c \in Nat
        /\ Len(Tail(s)) = n - 1 /\ c = s[1]
        /\ \A i \in 1 .. n - 1 : Tail(s)[i] = s[i + 1]
        /\ <<c>> \in Seq(Nat) /\ Len(<<c>>) = 1 /\ <<c>>[1] = c
    BY HeadTailProperties, EmptySeq
  <2> DEFINE one == <<c>>
             rest == Tail(s)
  <2>2. l = s \o t /\ r = one \o t /\ u = rest \o r
    OBVIOUS
  <2>3. rest \in Seq(Nat) /\ one \in Seq(Nat)
    BY <2>1
  <2>4. /\ Len(rest) = n - 1 /\ Len(one) = 1 /\ one[1] = c
         /\ \A i \in 1 .. n - 1 : rest[i] = s[i + 1]
    BY <2>1
  <2> HIDE DEF u, l, r, one, rest
  <2>5. /\ Len(t) \in Nat /\ Len(l) = n + Len(t)
        /\ \A i \in 1 .. n : l[i] = s[i]
        /\ \A i \in 1 .. Len(t) : l[n + i] = t[i]
    BY <2>2, JoinFacts
  <2>6. /\ r \in Seq(Nat) /\ Len(r) = 1 + Len(t) /\ r[1] = c
        /\ \A i \in 1 .. Len(t) : r[1 + i] = t[i]
    <3>1. /\ r \in Seq(Nat) /\ Len(r) = Len(one) + Len(t)
          /\ \A i \in 1 .. Len(one) : r[i] = one[i]
          /\ \A i \in 1 .. Len(t) : r[Len(one) + i] = t[i]
      BY <2>2, <2>3, JoinFacts
    <3>2. QED
      BY <2>4, <3>1
  <2>7. /\ Len(u) = (n - 1) + Len(r)
        /\ \A i \in 1 .. n - 1 : u[i] = rest[i]
        /\ \A i \in 1 .. Len(r) : u[(n - 1) + i] = r[i]
    <3> r \in Seq(Nat)
      BY <2>6
    <3>1. /\ Len(u) = Len(rest) + Len(r)
          /\ \A i \in 1 .. Len(rest) : u[i] = rest[i]
          /\ \A i \in 1 .. Len(r) : u[Len(rest) + i] = r[i]
      BY <2>2, <2>3, JoinFacts
    <3>2. QED
      BY <2>4, <3>1
  <2> HIDE DEF n, c
  <2>8. \A i \in 1 .. n - 1 : u[i] = l[i + 1]
    BY <2>1, <2>4, <2>5, <2>7
  <2>9. ASSUME NEW i \in n + 1 .. n + Len(t) PROVE u[i] = l[i]
    <3> DEFINE k == i - n
    <3>1. k \in 1 .. Len(t) /\ 1 + k \in 1 .. Len(r)
          /\ i = n + k /\ i = (n - 1) + (1 + k)
      BY <2>1, <2>5, <2>6
    <3> HIDE DEF k
    <3>2. u[(n - 1) + (1 + k)] = t[k] /\ l[n + k] = t[k]
      BY <2>5, <2>6, <2>7, <3>1
    <3>3. QED
      BY <3>1, <3>2
  <2>10. l[1] = c /\ u[n] = c
    <3>1. 1 \in 1 .. n /\ 1 \in 1 .. Len(r) /\ (n - 1) + 1 = n
      BY <2>1, <2>5, <2>6
    <3>2. QED
      BY <2>1, <2>5, <2>6, <2>7, <3>1
  <2>11. QED
    BY <2>1, <2>5, <2>6, <2>7, <2>8, <2>9, <2>10
<1>2. InOrder(l, W) /\ InLine(l, W) /\ V \subseteq W \ {c}
  OBVIOUS
<1> HIDE DEF l, c, r, u, n
<1>3. ASSUME NEW w \in V PROVE ~(w < c)
  <2>1. 1 \in 1 .. Len(l) /\ w \in W
    BY <1>1, <1>2
  <2>2. w < l[1] => \E q \in 1 .. 0 : l[q] = w
    BY <1>2, <2>1 DEF InOrder
  <2>3. QED
    BY <1>1, <2>2
<1>4. ASSUME NEW w \in V, NEW q \in 1 .. Len(l), l[q] = w
      PROVE  /\ q # 1
             /\ q <= n => u[q - 1] = w
             /\ q > n => u[q] = w
  BY <1>1, <1>2, <1>4
<1>5. InOrder(u, V)
  <2> SUFFICES ASSUME NEW p \in 1 .. Len(u), NEW w \in V, w < u[p]
               PROVE  \E q \in 1 .. p - 1 : u[q] = w
    BY DEF InOrder
  <2>1. CASE p < n
    <3>1. p + 1 \in 1 .. Len(l) /\ w \in W /\ w < l[p + 1]
      BY <1>1, <1>2, <2>1
    <3>2. PICK q \in 1 .. p : l[q] = w
      BY <1>2, <3>1 DEF InOrder
    <3>3. q - 1 \in 1 .. p - 1 /\ u[q - 1] = w
      BY <1>1, <1>4, <2>1, <3>2
    <3>4. QED
      BY <3>3
  <2>2. CASE p = n
    BY <1>1, <1>3, <2>2
  <2>3. CASE p > n
    <3>1. p \in 1 .. Len(l) /\ w \in W /\ w < l[p]
      BY <1>1, <1>2, <2>3
    <3>2. PICK q \in 1 .. p - 1 : l[q] = w
      BY <1>2, <3>1 DEF InOrder
    <3>3. q \in 1 .. Len(l) /\ q # 1
      BY <1>1, <1>4, <3>1, <3>2
    <3>4. CASE q <= n
      <4>1. q - 1 \in 1 .. p - 1 /\ u[q - 1] = w
        BY <1>1, <1>4, <2>3, <3>2, <3>3, <3>4
      <4>2. QED
        BY <4>1
    <3>5. CASE q > n
      BY <1>1, <1>4, <3>2, <3>3, <3>5
    <3>6. QED
      BY <1>1, <3>4, <3>5
  <2>4. QED
    BY <1>1, <2>1, <2>2, <2>3
<1>6. InLine(u, V)
  <2> SUFFICES ASSUME NEW w \in V PROVE \E p \in 1 .. Len(u) : u[p] = w
    BY DEF InLine
  <2>1. PICK q \in 1 .. Len(l) : l[q] = w
    BY <1>2 DEF InLine
  <2>2. CASE q <= n
    <3>1. q - 1 \in 1 .. Len(u) /\ u[q - 1] = w
      BY <1>1, <1>4, <2>1, <2>2
    <3>2. QED
      BY <3>1
  <2>3. CASE q > n
    BY <1>1, <1>4, <2>1, <2>3
  <2>4. QED
    BY <1>1, <2>2, <2>3
<1>7. QED
  BY <1>5, <1>6 DEF u, r, c

-----------------------------------------------------------------------------
(* The invariant *)

\* The array and the set of the document agree: a data chunk is in data_chunks
\* exactly when its sequence is recorded.
StoredInv ==
  /\ job.seqs \subseteq 1 .. Len(sent)
  /\ Range(job.data) = {seq \in job.seqs : sent[seq] = "data"}
  /\ IsInjective(job.data)

\* Chunks that are still to be stored, and that no failure has given back.
Awaited == {seq \in 1 .. Len(sent) :
              /\ job.status \notin Terminal /\ sent[seq] # "foreign"
              /\ seq \notin job.seqs /\ seq \notin requeued}

\* The messages the consumer holds, and behind them those of the broker.
Line == chain \o queue

LineInv == InOrder(Line, Awaited) /\ InLine(Line, Awaited)

\* The chunk at work has been stored, and a terminal one has found all that
\* came before it.
HandledInv ==
  /\ pc[Consumer] \notin {"idle", "append"} => Chunk \in job.seqs
  /\ pc[Consumer] = "finalize" /\ job.status \notin Terminal =>
       \A seq \in 1 .. Chunk :
         sent[seq] = "data" /\ seq \notin requeued => seq \in snapshot

EndedInv ==
  /\ submit = "idle" => sent = <<>>
  /\ endedBy > 0 => job.status \notin {"absent", "pending", "gathering"}
  /\ ContextComplete

ContextInv == StoredInv /\ LineInv /\ HandledInv /\ EndedInv

\* The state before the job is submitted.
LEMMA ContextInit == Init => ContextInv
<1> SUFFICES ASSUME Init PROVE ContextInv
  OBVIOUS
<1>1. job.seqs = {} /\ job.data = <<>> /\ job.status = "absent"
  BY DEF Init, NoJob
<1>2. StoredInv
  BY <1>1 DEF Init, StoredInv, Range, IsInjective
<1>3. Line = <<>> /\ Awaited = {}
  BY DEF Init, Line, Awaited
<1>4. LineInv
  BY <1>3 DEF LineInv, InOrder, InLine
<1>5. HandledInv /\ EndedInv
  BY DEF Init, HandledInv, EndedInv, ContextComplete, Runners
<1>6. QED
  BY <1>2, <1>4, <1>5 DEF ContextInv

\* What the claims and the writes of a status may do to a document: no chunk
\* is stored, an ended job stays ended, a claimed one is not offered again, and
\* only a job that still gathers gets a context.
Advances(j, k) ==
  /\ k.seqs = j.seqs /\ k.data = j.data
  /\ k.ctx = j.ctx \/ j.status = "gathering"
  /\ j.status \in Terminal => k.status \in Terminal
  /\ k.status \in {"absent", "pending", "gathering"}
       => j.status \in {"absent", "pending", "gathering"}

\* They do nothing else, whatever the document was.
LEMMA OperationsAdvance ==
  ASSUME NEW j \in Jobs
  PROVE  /\ Advances(j, j)
         /\ \A status \in Terminal : Advances(j, UpdateStatus(j, status))
         /\ CanClaimPending(j) => /\ Advances(j, ClaimForProcessing(j))
                                  /\ Advances(j, ClaimForGathering(j))
         /\ StillGathering(j) =>
              /\ \A context \in SUBSET Nat : Advances(j, ClaimForPlanning(j, context))
              /\ Advances(j, FailIfStillGathering(j))
<1>1. ASSUME NEW status \in Terminal
      PROVE  Advances(j, UpdateStatus(j, status))
  <2>1. status \in Statuses
    BY DEF Terminal, Statuses
  <2>2. LET k == UpdateStatus(j, status)
        IN  k.status = status /\ k.seqs = j.seqs /\ k.data = j.data /\ k.ctx = j.ctx
    BY <2>1, UpdateStatusFacts
  <2> QED BY <2>2 DEF Advances, Terminal
<1>2. CanClaimPending(j) => /\ Advances(j, ClaimForProcessing(j))
                            /\ Advances(j, ClaimForGathering(j))
  BY ClaimForProcessingFacts, ClaimForGatheringFacts DEF CanClaimPending, Advances, Terminal
<1>3. StillGathering(j) =>
        /\ \A context \in SUBSET Nat : Advances(j, ClaimForPlanning(j, context))
        /\ Advances(j, FailIfStillGathering(j))
  BY ClaimForPlanningFacts, FailIfStillGatheringFacts DEF StillGathering, Advances, Terminal
<1>4. Advances(j, j)
  BY DEF Advances
<1> QED BY <1>1, <1>2, <1>3, <1>4

\* Steps that store no chunk and touch no message, do not take an ended job
\* back, and write a context only while no terminal chunk has.
LEMMA ContextKept ==
  ASSUME ContextInv,
         UNCHANGED <<sent, queue, chain, snapshot, requeued, endedBy>>,
         Advances(job, job'),
         submit' = "idle" => submit = "idle",
         pc'[Consumer] \notin {"idle", "append"} => pc[Consumer] \notin {"idle", "append"},
         pc'[Consumer] = "finalize" => pc[Consumer] = "finalize",
         endedBy \in Nat
  PROVE  ContextInv'
<1> USE DEF Advances
<1>1. StoredInv'
  BY DEF ContextInv, StoredInv
<1>2. LineInv'
  <2>1. Line' = Line /\ Awaited' \subseteq Awaited
    BY DEF Line, Awaited
  <2>2. InOrder(Line, Awaited) /\ InLine(Line, Awaited)
    BY DEF ContextInv, LineInv
  <2> HIDE DEF Line, Awaited
  <2>3. InOrder(Line, Awaited') /\ InLine(Line, Awaited')
    BY <2>1, <2>2, OrderOfFewer
  <2>4. QED
    BY <2>1, <2>3 DEF LineInv
<1>3. HandledInv'
  BY DEF ContextInv, HandledInv, Chunk
<1>4. EndedInv'
  BY DEF ContextInv, EndedInv, ContextComplete
<1>5. QED
  BY <1>1, <1>2, <1>3, <1>4 DEF ContextInv

\* The steps of runClaimedPlanning, the consumer's too.
LEMMA PlanContext ==
  ASSUME IndInv, ContextInv, NEW r \in Runners, Plan(r)
  PROVE  ContextInv'
<1>1. /\ job \in Jobs /\ pc \in [Runners -> Steps] /\ endedBy \in Nat
  BY DEF IndInv, TypeInv, TypeOK
<1>2. /\ UNCHANGED <<sent, queue, chain, snapshot, requeued, endedBy, submit>>
  BY DEF Plan, PlanCheck, Retrieve, PlanRecheck, PlanCall, PlanWrite, engineVars, consumerVars
<1>3. Advances(job, job')
  BY <1>1, OperationsAdvance, FailureWritesFacts
  DEF Plan, PlanCheck, Retrieve, PlanRecheck, PlanCall, PlanWrite, Terminal
<1>4. PICK step \in Steps \ {"finalize"} :
        Goto(r, step) /\ pc[r] \notin {"idle", "append"}
  BY StepsFacts, FailureWritesFacts
  DEF Plan, PlanCheck, Retrieve, PlanRecheck, PlanCall, PlanWrite, PlanStepFails
<1>5. /\ pc'[Consumer] \notin {"idle", "append"} => pc[Consumer] \notin {"idle", "append"}
      /\ pc'[Consumer] = "finalize" => pc[Consumer] = "finalize"
  BY <1>1, <1>4, GotoFacts DEF Runners
<1> QED BY <1>1, <1>2, <1>3, <1>5, ContextKept

\* A delivery of the job keeps the context invariant.
LEMMA DeliveryContext ==
  ASSUME IndInv, ContextInv, NEW d \in Deliveries, DeliveryStep(d) \/ Stall(d) \/ Throw(d)
  PROVE  ContextInv'
<1>1. /\ job \in Jobs /\ pc \in [Runners -> Steps] /\ endedBy \in Nat
      /\ d \in Runners /\ d # Consumer /\ Consumer \in Runners
  BY RunnersAssumption DEF IndInv, TypeInv, TypeOK, Runners
<1>2. CASE Plan(d)
  BY <1>1, <1>2, PlanContext
<1>3. CASE Claim(d) \/ ClaimLegacy(d) \/ ClaimPlan(d)
  <2>1. /\ UNCHANGED <<sent, queue, chain, snapshot, requeued, endedBy, submit>>
        /\ \E step \in Steps : Goto(d, step)
    BY <1>3, StepsFacts DEF Claim, ClaimLegacy, ClaimPlan, engineVars, consumerVars
  <2>2. Advances(job, job')
    BY <1>1, <1>3, OperationsAdvance DEF Claim, ClaimLegacy, ClaimPlan
  <2>3. pc'[Consumer] = pc[Consumer]
    BY <1>1, <2>1, GotoFacts
  <2> QED BY <1>1, <2>1, <2>2, <2>3, ContextKept
<1>4. CASE WriteFailure(d)
  <2>1. /\ UNCHANGED <<sent, queue, chain, snapshot, requeued, endedBy, submit>>
        /\ \E step \in Steps : Goto(d, step)
    BY <1>4, StepsFacts DEF WriteFailure, engineVars, consumerVars
  <2>2. Advances(job, job')
    BY <1>1, <1>4, OperationsAdvance, FailureWritesFacts DEF WriteFailure, Terminal
  <2>3. pc'[Consumer] = pc[Consumer]
    BY <1>1, <2>1, GotoFacts
  <2> QED BY <1>1, <2>1, <2>2, <2>3, ContextKept
<1>5. CASE Deliver(d) \/ LookupPrompt(d) \/ CheckUser(d) \/ Resolve(d) \/ Publish(d)
           \/ ScheduleTimeout(d) \/ Tell(d) \/ Throw(d)
  <2>1. /\ UNCHANGED <<job, sent, queue, chain, snapshot, requeued, endedBy, submit>>
    BY <1>5 DEF Deliver, LookupPrompt, CheckUser, Resolve, Publish, ScheduleTimeout,
      Tell, Throw, engineVars, consumerVars
  <2>2. \E step \in Steps : Goto(d, step)
    BY <1>5, StepsFacts DEF Deliver, LookupPrompt, CheckUser, Resolve, Publish,
      ScheduleTimeout, Tell, Throw
  <2>3. pc'[Consumer] = pc[Consumer]
    BY <1>1, <2>2, GotoFacts
  <2> QED BY <1>1, <2>1, <2>3, OperationsAdvance, ContextKept
<1>6. CASE Stall(d)
  <2>1. UNCHANGED <<job, pc, sent, queue, chain, snapshot, requeued, endedBy, submit>>
    BY <1>6 DEF Stall, engineVars, consumerVars
  <2> QED BY <1>1, <2>1, OperationsAdvance, ContextKept
<1> QED BY <1>2, <1>3, <1>4, <1>5, <1>6 DEF DeliveryStep

\* Nothing was sent before the job was submitted, so creating it loses nothing.
LEMMA SubmitContext ==
  ASSUME IndInv, ContextInv, SubmitStep
  PROVE  ContextInv'
<1>1. /\ job \in Jobs /\ endedBy \in 0 .. Len(sent) /\ endedBy \in Nat
      /\ queue \in Seq(1 .. Len(sent)) /\ chain \in Seq(1 .. Len(sent))
      /\ HandlingInv
  BY DEF IndInv, TypeInv, TypeOK
<1>2. CASE SubmitCreate
  <2>1. /\ sent = <<>> /\ sent' = sent /\ queue' = queue /\ chain' = chain
        /\ endedBy' = endedBy /\ pc' = pc /\ submit' # "idle"
        /\ job'.seqs = {} /\ job'.data = <<>>
    BY <1>2 DEF SubmitCreate, ContextInv, EndedInv, engineVars, consumerVars,
      Create, NoJob
  <2>2. endedBy = 0 /\ queue = <<>> /\ chain = <<>>
    <3>1. Len(sent) = 0 /\ 1 .. Len(sent) = {}
      BY <2>1
    <3>2. endedBy = 0
      BY <1>1, <3>1
    <3>3. \A s \in Seq({}) : s = <<>>
      BY HeadTailProperties
    <3>4. QED
      BY <1>1, <3>1, <3>2, <3>3
  <2>3. StoredInv'
    BY <2>1 DEF StoredInv, Range, IsInjective
  <2>4. Line' = <<>>
    BY <2>1, <2>2 DEF Line
  <2>5. Awaited' = {}
    BY <2>1 DEF Awaited
  <2>6. LineInv'
    BY <2>4, <2>5 DEF LineInv, InOrder, InLine
  <2>7. HandledInv'
    BY <1>1, <2>1, <2>2 DEF HandledInv, HandlingInv
  <2>8. EndedInv'
    BY <2>1, <2>2 DEF EndedInv, ContextComplete
  <2> QED BY <2>3, <2>6, <2>7, <2>8 DEF ContextInv
<1>3. CASE SubmitEnqueue \/ SubmitMarkFailed
  <2>1. /\ UNCHANGED <<sent, queue, chain, snapshot, requeued, endedBy, pc>>
        /\ submit' # "idle"
    BY <1>3 DEF SubmitEnqueue, SubmitMarkFailed, engineVars, consumerVars
  <2>2. Advances(job, job')
    BY <1>1, <1>3, OperationsAdvance
    DEF SubmitEnqueue, SubmitMarkFailed, Terminal
  <2> QED BY <1>1, <2>1, <2>2, ContextKept
<1> QED BY <1>2, <1>3 DEF SubmitStep

\* So do the timers and an account that becomes inactive, or active again.
LEMMA TimerContext ==
  ASSUME IndInv, ContextInv,
         Timeout \/ TimeoutTell \/ TimeoutError \/ Deactivate \/ Reactivate
         \/ UNCHANGED vars
  PROVE  ContextInv'
<1>1. job \in Jobs /\ endedBy \in Nat
  BY DEF IndInv, TypeInv, TypeOK
<1>2. UNCHANGED <<sent, queue, chain, snapshot, requeued, endedBy, pc, submit>>
  BY DEF Timeout, TimeoutTell, TimeoutError, Deactivate, Reactivate, vars, engineVars, consumerVars
<1>3. Advances(job, job')
  BY <1>1, OperationsAdvance
  DEF Timeout, TimeoutTell, TimeoutError, Deactivate, Reactivate, vars
<1> QED BY <1>1, <1>2, <1>3, ContextKept

\* What the moves of messages do to the line.
LEMMA LineMoves ==
  ASSUME NEW c \in Seq(Nat), NEW q \in Seq(Nat)
  PROVE  /\ c \o q \in Seq(Nat)
         /\ c # <<>> => /\ c \o q # <<>> /\ Head(c \o q) = Head(c)
                        /\ Tail(c) \o q = Tail(c \o q)
                        /\ \A e \in Nat : Head(Append(c, e)) = Head(c)
         /\ q # <<>> => Append(c, Head(q)) \o Tail(q) = c \o q
         /\ <<>> \o (c \o q) = c \o q
         /\ \A e \in Nat : c \o Append(q, e) = Append(c \o q, e)
<1>1. c \o q \in Seq(Nat)
  BY ConcatProperties
<1>2. ASSUME c # <<>>
      PROVE  /\ c \o q # <<>> /\ Head(c \o q) = Head(c)
             /\ Tail(c) \o q = Tail(c \o q)
             /\ \A e \in Nat : Head(Append(c, e)) = Head(c)
  <2>1. /\ Len(c) \in Nat \ {0} /\ Tail(c) \in Seq(Nat) /\ Len(Tail(c)) = Len(c) - 1
        /\ \A i \in 1 .. Len(c) - 1 : Tail(c)[i] = c[i + 1]
    BY <1>2, HeadTailProperties, EmptySeq
  <2>2. c \o q # <<>> /\ Head(c \o q) = Head(c)
    BY <1>1, <2>1, ConcatProperties, EmptySeq
  <2>3. \A e \in Nat : Head(Append(c, e)) = Head(c)
    BY <1>2, HeadTailAppend
  <2>4. Tail(c) \o q = Tail(c \o q)
    <3> DEFINE x == c \o q
               y == Tail(c)
               z == y \o q
    <3>1. /\ x \in Seq(Nat) /\ Len(q) \in Nat /\ Len(x) = Len(c) + Len(q)
          /\ \A i \in 1 .. Len(c) : x[i] = c[i]
          /\ \A i \in 1 .. Len(q) : x[Len(c) + i] = q[i]
      BY JoinFacts
    <3>2. /\ z \in Seq(Nat) /\ Len(z) = Len(y) + Len(q)
          /\ \A i \in 1 .. Len(y) : z[i] = y[i]
          /\ \A i \in 1 .. Len(q) : z[Len(y) + i] = q[i]
      <4>1. y \in Seq(Nat) /\ z = y \o q
        BY <2>1
      <4> HIDE DEF y, z
      <4> QED BY <4>1, JoinFacts
    <3>3. /\ Tail(x) \in Seq(Nat) /\ Len(Tail(x)) = Len(c) + Len(q) - 1
          /\ \A i \in 1 .. Len(c) + Len(q) - 1 : Tail(x)[i] = x[i + 1]
      BY <2>1, <2>2, <3>1, HeadTailProperties
    <3> DEFINE t == Tail(x)
    <3>4. /\ t \in Seq(Nat) /\ Len(t) = Len(c) + Len(q) - 1
          /\ \A i \in 1 .. Len(c) + Len(q) - 1 : t[i] = x[i + 1]
          /\ Len(y) = Len(c) - 1 /\ \A i \in 1 .. Len(c) - 1 : y[i] = c[i + 1]
      BY <2>1, <3>3
    <3> HIDE DEF x, y, z, t
    <3>5. /\ Len(c) \in Nat \ {0} /\ Len(q) \in Nat
          /\ Len(y) = Len(c) - 1 /\ Len(z) = Len(c) - 1 + Len(q)
      BY <2>1, <3>1, <3>2, <3>4
    <3>6. ASSUME NEW i \in 1 .. Len(z) PROVE z[i] = t[i]
      <4>1. i \in 1 .. Len(c) + Len(q) - 1
        BY <3>5
      <4>2. t[i] = x[i + 1]
        BY <3>4, <4>1
      <4>3. CASE i <= Len(c) - 1
        <5>1. i \in 1 .. Len(y) /\ i \in 1 .. Len(c) - 1 /\ i + 1 \in 1 .. Len(c)
          BY <3>5, <4>1, <4>3
        <5>2. z[i] = y[i] /\ y[i] = c[i + 1] /\ x[i + 1] = c[i + 1]
          BY <3>1, <3>2, <3>4, <5>1
        <5> QED BY <4>2, <5>2
      <4>4. CASE i > Len(c) - 1
        <5> DEFINE k == i - (Len(c) - 1)
        <5>1. k \in 1 .. Len(q) /\ i = Len(y) + k /\ i + 1 = Len(c) + k
          BY <3>5, <4>1, <4>4
        <5> HIDE DEF k
        <5>2. z[Len(y) + k] = q[k] /\ x[Len(c) + k] = q[k]
          BY <3>1, <3>2, <5>1
        <5> QED BY <4>2, <5>1, <5>2
      <4> QED BY <3>5, <4>1, <4>3, <4>4
    <3>7. z = t
      <4>1. Len(z) = Len(t) /\ z \in Seq(Nat) /\ t \in Seq(Nat)
        BY <3>2, <3>4, <3>5
      <4> QED BY <3>6, <4>1, SeqEqual
    <3> QED BY <3>7 DEF x, y, z, t
  <2> QED BY <2>2, <2>3, <2>4
<1>3. ASSUME q # <<>> PROVE Append(c, Head(q)) \o Tail(q) = c \o q
  BY <1>3, HeadTailProperties, EmptySeq
<1>4. <<>> \o (c \o q) = c \o q
  BY <1>1, ConcatEmptySeq
<1>5. ASSUME NEW e \in Nat PROVE c \o Append(q, e) = Append(c \o q, e)
  OBVIOUS
<1> QED BY <1>1, <1>2, <1>3, <1>4, <1>5

\* The line and who is awaited, in sequence numbers.
LEMMA LineFacts ==
  ASSUME IndInv, ContextInv
  PROVE  /\ Line \in Seq(Nat) /\ queue \in Seq(Nat) /\ chain \in Seq(Nat)
         /\ Awaited \in SUBSET Nat /\ Len(sent) \in Nat
         /\ \A p \in 1 .. Len(Line) : Line[p] \in 1 .. Len(sent)
         /\ chain # <<>> => Chunk \in 1 .. Len(sent)
         /\ InOrder(Line, Awaited) /\ InLine(Line, Awaited)
<1> DEFINE S == 1 .. Len(sent)
<1>1. queue \in Seq(S) /\ chain \in Seq(S) /\ Len(sent) \in Nat /\ S \subseteq Nat
  BY DEF IndInv, TypeInv, TypeOK
<1>2. Line \in Seq(S)
  BY <1>1, ConcatProperties DEF Line
<1>3. \A p \in 1 .. Len(Line) : Line[p] \in S
  BY <1>2, ElementOfSeq
<1>4. Line \in Seq(Nat) /\ queue \in Seq(Nat) /\ chain \in Seq(Nat)
  BY <1>1, <1>2, SeqMonotonic
<1>5. chain # <<>> => Chunk \in S
  BY <1>1, QueueFacts DEF Chunk
<1> QED BY <1>1, <1>3, <1>4, <1>5 DEF ContextInv, LineInv, Awaited

\* The consumer is done with a message that is stored, or that came too late.
LEMMA AckContext ==
  ASSUME IndInv, ContextInv, Ack, chain # <<>>,
         Chunk \in job.seqs \/ job.status \in Terminal \/ sent[Chunk] = "foreign",
         UNCHANGED <<job, sent, queue, snapshot, requeued, endedBy, submit>>
  PROVE  ContextInv'
<1>1. StoredInv' /\ EndedInv'
  BY DEF ContextInv, StoredInv, EndedInv, ContextComplete
<1>2. HandledInv'
  BY DEF HandledInv, Ack, Goto, IndInv, TypeInv, TypeOK, Runners
<1>3. LineInv'
  <2>1. Awaited' = Awaited /\ Chunk \notin Awaited
    BY DEF Awaited
  <2>2. /\ Line' = Tail(Line) /\ Head(Line) = Chunk /\ Line # <<>>
    BY LineFacts, LineMoves DEF Line, Ack, Chunk
  <2>3. InOrder(Tail(Line), Awaited) /\ InLine(Tail(Line), Awaited)
    <3>1. /\ Line \in Seq(Nat) /\ Awaited \in SUBSET Nat
          /\ InOrder(Line, Awaited) /\ InLine(Line, Awaited)
          /\ Awaited \subseteq Awaited \ {Head(Line)}
      BY <2>1, <2>2, LineFacts
    <3> QED BY <2>2, <3>1, OrderOfTail
  <2> QED BY <2>1, <2>2, <2>3 DEF LineInv
<1> QED BY <1>1, <1>2, <1>3 DEF ContextInv

\* Messages that move while the line and all else stay as they are.
LEMMA MoveContext ==
  ASSUME IndInv, ContextInv, Receive \/ Crash
  PROVE  ContextInv'
<1>1. /\ UNCHANGED <<job, sent, snapshot, requeued, endedBy>>
      /\ submit' = "idle" => submit = "idle"
  BY DEF Receive, Crash, engineVars
<1>2. StoredInv' /\ EndedInv'
  BY <1>1 DEF ContextInv, StoredInv, EndedInv, ContextComplete
<1>3. Line' = Line /\ Awaited' = Awaited
  <2>1. \/ queue # <<>> /\ chain' = Append(chain, Head(queue)) /\ queue' = Tail(queue)
        \/ chain' = <<>> /\ queue' = chain \o queue
    BY DEF Receive, Crash
  <2>2. chain \in Seq(Nat) /\ queue \in Seq(Nat)
    BY LineFacts
  <2>3. chain' \o queue' = chain \o queue
    <3>1. /\ queue # <<>> => Append(chain, Head(queue)) \o Tail(queue) = chain \o queue
          /\ <<>> \o (chain \o queue) = chain \o queue
      BY <2>2, LineMoves
    <3> QED BY <2>1, <3>1, Zenon
  <2> QED BY <1>1, <2>3 DEF Line, Awaited
<1>4. LineInv'
  BY <1>3, LineFacts DEF LineInv
<1>5. HandledInv'
  <2>1. CASE Crash
    BY <2>1 DEF Crash, HandledInv, Runners
  <2>2. CASE Receive
    <3>1. pc' = pc
      BY <2>2 DEF Receive
    <3>2. pc[Consumer] # "idle" => Chunk' = Chunk
      BY <2>2, LineFacts, LineMoves, HeadTailProperties
      DEF Receive, Chunk, IndInv, TypeInv, HandlingInv
    <3> QED BY <1>1, <3>1, <3>2 DEF ContextInv, HandledInv
  <2> QED BY <2>1, <2>2
<1> QED BY <1>2, <1>4, <1>5 DEF ContextInv

\* What the context engine sends comes last; what is delivered again stands
\* behind what it stood behind before.
LEMMA SendContext ==
  ASSUME IndInv, ContextInv, EngineSend \/ Redeliver
  PROVE  ContextInv'
<1>1. UNCHANGED <<job, chain, snapshot, requeued, endedBy, submit, pc>>
  BY DEF EngineSend, Redeliver
<1>2. CASE EngineSend
  <2> DEFINE n == Len(sent)
  <2>1. PICK kind \in ChunkKinds : sent' = Append(sent, kind)
    BY <1>2 DEF EngineSend
  <2>2. /\ n \in Nat /\ Len(sent') = n + 1
        /\ \A i \in 1 .. n : sent'[i] = sent[i]
    BY <2>1, AppendProperties DEF IndInv, TypeInv, TypeOK
  <2>3. queue' = Append(queue, n + 1)
    BY <1>2, <2>2 DEF EngineSend
  <2> HIDE DEF n
  <2>4. /\ job.seqs \subseteq 1 .. n /\ endedBy \in 0 .. n
        /\ chain # <<>> => Chunk \in 1 .. n
    BY LineFacts DEF IndInv, TypeInv, TypeOK, ContextInv, StoredInv, n
  <2>5. StoredInv'
    BY <1>1, <2>2, <2>4 DEF ContextInv, StoredInv
  <2>6. Line' = Append(Line, n + 1)
    <3>1. n + 1 \in Nat /\ chain \in Seq(Nat) /\ queue \in Seq(Nat)
      BY <2>2, LineFacts
    <3> QED BY <1>1, <2>3, <3>1, LineMoves DEF Line
  <2>7. Awaited' \subseteq Awaited \cup {n + 1}
    BY <1>1, <2>2 DEF Awaited, n
  <2>8. \A p \in 1 .. Len(Line) : Line[p] <= n + 1
    BY <2>2, LineFacts DEF n
  <2>9. LineInv'
    <3>1. n + 1 \in Nat
      BY <2>2
    <3>2. InOrder(Append(Line, n + 1), Awaited') /\ InLine(Append(Line, n + 1), Awaited')
      BY <2>7, <2>8, <3>1, LineFacts, OrderOfAppend
    <3> QED BY <2>6, <3>2 DEF LineInv
  <2>10. HandledInv'
    BY <1>1, <2>2, <2>4 DEF ContextInv, HandledInv, Chunk, IndInv, TypeInv, HandlingInv
  <2>11. EndedInv'
    <3>1. submit # "idle"
      BY <1>2 DEF EngineSend, IndInv, ClaimsInv, Unsubmitted, OneAsks
    <3> QED BY <1>1, <2>2, <2>4, <3>1 DEF ContextInv, EndedInv, ContextComplete
  <2> QED BY <2>5, <2>9, <2>10, <2>11 DEF ContextInv
<1>3. CASE Redeliver
  <2>1. sent' = sent
    BY <1>3 DEF Redeliver, engineVars
  <2>2. StoredInv' /\ HandledInv' /\ EndedInv'
    BY <1>1, <2>1 DEF ContextInv, StoredInv, HandledInv, EndedInv, ContextComplete, Chunk
  <2>3. Awaited' = Awaited
    BY <1>1, <2>1 DEF Awaited
  <2>4. CASE \E seq \in 1 .. Len(sent) : queue' = Append(queue, seq)
    <3>1. PICK seq \in 1 .. Len(sent) : queue' = Append(queue, seq)
      BY <2>4
    <3>2. seq \in Nat
      BY LineFacts
    <3>3. Line' = Append(Line, seq)
      BY <1>1, <3>1, <3>2, LineFacts, LineMoves DEF Line
    <3>4. InOrder(Append(Line, seq), Awaited) /\ InLine(Append(Line, seq), Awaited)
      BY <3>2, LineFacts, OrderOfAppend
    <3>5. LineInv'
      BY <2>3, <3>3, <3>4 DEF LineInv
    <3> QED BY <2>2, <3>5 DEF ContextInv
  <2>5. CASE queue' = chain \o queue
    <3>1. Line' = chain \o (chain \o queue)
      BY <1>1, <2>5 DEF Line
    <3>2. InOrder(chain \o queue, Awaited) /\ InLine(chain \o queue, Awaited)
      BY LineFacts DEF Line
    <3>3. /\ InOrder(chain \o (chain \o queue), Awaited)
          /\ InLine(chain \o (chain \o queue), Awaited)
      BY <3>2, LineFacts, OrderOfRepeat
    <3>4. LineInv'
      BY <2>3, <3>1, <3>3 DEF LineInv
    <3> QED BY <2>2, <3>4 DEF ContextInv
  <2> QED BY <1>3, <2>4, <2>5 DEF Redeliver
<1> QED BY <1>2, <1>3

\* A message given back is no longer awaited, and behind the messages held.
LEMMA RequeueContext ==
  ASSUME IndInv, ContextInv, Requeue
  PROVE  ContextInv'
<1>1. /\ chain # <<>> /\ chain' = Tail(chain) /\ queue' = <<Chunk>> \o queue
      /\ requeued' = requeued \cup {Chunk}
      /\ UNCHANGED <<job, sent, snapshot, endedBy, submit>>
      /\ pc'[Consumer] = "idle"
  BY FailureWritesFacts DEF Requeue, Ack, Goto, engineVars, IndInv, TypeInv, TypeOK,
    HandlingInv, Runners
<1>2. StoredInv' /\ HandledInv' /\ EndedInv'
  BY <1>1 DEF ContextInv, StoredInv, HandledInv, EndedInv, ContextComplete
<1>3. LineInv'
  <2>1. /\ chain \in Seq(Nat) /\ queue \in Seq(Nat) /\ Awaited \in SUBSET Nat
        /\ InOrder(chain \o queue, Awaited) /\ InLine(chain \o queue, Awaited)
    BY LineFacts DEF Line
  <2>2. Awaited' \subseteq Awaited \ {Head(chain)}
    BY <1>1 DEF Awaited, Chunk
  <2>3. Line' = Tail(chain) \o (<<Head(chain)>> \o queue)
    BY <1>1 DEF Line, Chunk
  <2>4. LET u == Tail(chain) \o (<<Head(chain)>> \o queue)
        IN  InOrder(u, Awaited') /\ InLine(u, Awaited')
    BY <1>1, <2>1, <2>2, OrderOfRequeue
  <2> QED BY <2>3, <2>4 DEF LineInv
<1> QED BY <1>2, <1>3 DEF ContextInv

\* The chunk at the head of the line is the smallest that is awaited: what is
\* stored then is all that was sent before it, except what was given back.
LEMMA AppendContext ==
  ASSUME IndInv, ContextInv, AppendChunk, CanAppend(job, Chunk)
  PROVE  ContextInv'
<1>1. /\ UNCHANGED <<chain, sent, queue, requeued, endedBy, submit>>
      /\ chain # <<>> /\ Chunk' = Chunk /\ Chunk \in 1 .. Len(sent) /\ Chunk \in Nat
      /\ job \in Jobs /\ job' = AppendResultChunk(job, Chunk, sent[Chunk] = "data")
      /\ snapshot' = Range(job'.data)
      /\ Chunk \notin job.seqs
  BY LineFacts DEF AppendChunk, CanAppend, Chunk, AssembleContext, IndInv, TypeInv,
    TypeOK, HandlingInv, engineVars
<1>2. /\ job'.status = job.status /\ job'.ctx = job.ctx
      /\ job'.seqs = job.seqs \cup {Chunk}
      /\ job'.data = IF sent[Chunk] = "data" THEN Append(job.data, Chunk) ELSE job.data
  <2>1. (sent[Chunk] = "data") \in BOOLEAN
    OBVIOUS
  <2> QED BY <1>1, <2>1, AppendResultChunkFacts
<1>3. StoredInv'
  <2>1. /\ job.seqs \subseteq 1 .. Len(sent) /\ IsInjective(job.data)
        /\ Range(job.data) = {seq \in job.seqs : sent[seq] = "data"}
        /\ Chunk \notin Range(job.data)
    BY <1>1 DEF ContextInv, StoredInv
  <2>2. CASE sent[Chunk] # "data"
    BY <1>1, <1>2, <2>1, <2>2 DEF StoredInv
  <2>3. CASE sent[Chunk] = "data"
    <3> DEFINE n == Len(job.data)
               t == Append(job.data, Chunk)
    <3>1. job.data \in Seq(Nat)
      BY <1>1 DEF Jobs
    <3>2. /\ DOMAIN job.data = 1 .. n /\ n \in Nat
          /\ DOMAIN t = 1 .. n + 1 /\ t[n + 1] = Chunk
          /\ \A i \in 1 .. n : t[i] = job.data[i]
      BY <1>1, <3>1, AppendProperties, LenProperties
    <3>3. job'.data = t
      BY <1>2, <2>3
    <3> HIDE DEF n, t
    <3>4. Range(t) = Range(job.data) \cup {Chunk}
      <4>1. Range(t) \subseteq Range(job.data) \cup {Chunk}
        BY <3>2 DEF Range
      <4>2. Range(job.data) \subseteq Range(t)
        BY <3>2 DEF Range
      <4>3. Chunk \in Range(t)
        <5>1. n + 1 \in DOMAIN t
          BY <3>2
        <5> QED BY <3>2, <5>1 DEF Range
      <4> QED BY <4>1, <4>2, <4>3
    <3>5. IsInjective(t)
      <4> SUFFICES ASSUME NEW a \in 1 .. n + 1, NEW b \in 1 .. n + 1, t[a] = t[b]
                   PROVE  a = b
        BY <3>2 DEF IsInjective
      <4>1. \A i \in 1 .. n : t[i] \in Range(job.data)
        BY <3>2 DEF Range
      <4>2. CASE a \in 1 .. n /\ b \in 1 .. n
        BY <2>1, <3>2, <4>2 DEF IsInjective
      <4>3. CASE a = n + 1 \/ b = n + 1
        BY <2>1, <3>2, <4>1, <4>3
      <4> QED BY <3>2, <4>2, <4>3
    <3> QED BY <1>1, <1>2, <2>1, <2>3, <3>3, <3>4, <3>5 DEF StoredInv
  <2> QED BY <2>2, <2>3
<1>4. LineInv'
  <2>1. Line' = Line /\ Awaited' \subseteq Awaited
    BY <1>1, <1>2 DEF Line, Awaited
  <2>2. InOrder(Line, Awaited') /\ InLine(Line, Awaited')
    BY <2>1, LineFacts, OrderOfFewer
  <2> QED BY <2>1, <2>2 DEF LineInv
<1>5. HandledInv'
  <2>1. ASSUME NEW seq \in 1 .. Chunk, job.status \notin Terminal,
               sent[seq] = "data", seq \notin requeued
        PROVE  seq \in snapshot'
    <3>1. seq \in 1 .. Len(sent) /\ seq \in Nat
      BY <1>1, LineFacts
    <3>2. seq \in job'.seqs
      <4>1. CASE seq = Chunk
        BY <1>2, <4>1
      <4>2. CASE seq < Chunk
        <5>1. Line # <<>> /\ Head(Line) = Chunk /\ Line \in Seq(Nat)
          BY <1>1, LineFacts, LineMoves DEF Line, Chunk
        <5>2. Len(Line) \in Nat \ {0} /\ Line[1] = Chunk
          BY <5>1, EmptySeq
        <5>3. seq \notin Awaited
          BY <4>2, <5>2, LineFacts DEF InOrder
        <5> QED BY <1>2, <2>1, <3>1, <5>3 DEF Awaited
      <4> QED BY <1>1, <4>1, <4>2
    <3> QED BY <1>1, <1>3, <2>1, <3>2 DEF StoredInv
  <2> QED BY <1>1, <1>2, <2>1 DEF HandledInv
<1>6. EndedInv'
  BY <1>1, <1>2 DEF ContextInv, EndedInv, ContextComplete
<1> QED BY <1>3, <1>4, <1>5, <1>6 DEF ContextInv

\* Every step of the consumer: the claim of a terminal chunk takes over what
\* its own append found.
LEMMA ConsumerContext ==
  ASSUME IndInv, ContextInv, Consume \/ Requeue
  PROVE  ContextInv'
<1>1. /\ job \in Jobs /\ pc \in [Runners -> Steps] /\ Consumer \in Runners
      /\ pc[Consumer] # "idle" => chain # <<>>
      /\ endedBy \in Nat /\ snapshot \in SUBSET Nat
  BY DEF IndInv, TypeInv, TypeOK, HandlingInv, Runners
<1>2. CASE Plan(Consumer)
  BY <1>1, <1>2, PlanContext
<1>3. CASE Receive \/ Requeue
  BY <1>3, MoveContext, RequeueContext
<1>4. CASE Find
  <2>1. CASE Ack /\ (sent[Chunk] = "foreign" \/ job.status \in Terminal)
    BY <1>4, <2>1, AckContext DEF Find, engineVars
  <2>2. CASE Goto(Consumer, "append") /\ UNCHANGED chain
    <3>1. UNCHANGED <<job, sent, queue, chain, snapshot, requeued, endedBy, submit>>
          /\ pc'[Consumer] = "append"
      BY <1>1, <1>4, <2>2 DEF Find, Goto, engineVars
    <3> QED BY <1>1, <3>1, OperationsAdvance, ContextKept
  <2> QED BY <1>4, <2>1, <2>2 DEF Find
<1>5. CASE AppendChunk
  <2>1. CASE CanAppend(job, Chunk)
    BY <1>5, <2>1, AppendContext
  <2>2. CASE ~CanAppend(job, Chunk)
    BY <1>1, <1>5, <2>2, AckContext DEF AppendChunk, CanAppend, engineVars
  <2> QED BY <2>1, <2>2
<1>6. CASE Finalize
  <2>1. CASE StillGathering(job) /\ sent[Chunk] = "completed"
    <3>1. /\ UNCHANGED <<chain, sent, queue, requeued, snapshot, submit>>
          /\ pc[Consumer] = "finalize" /\ pc'[Consumer] = "planCheck"
          /\ job' = ClaimForPlanning(job, snapshot)
          /\ endedBy' = Chunk /\ Chunk' = Chunk /\ Chunk \in job.seqs
          /\ job.status = "gathering"
      BY <1>1, <1>6, <2>1 DEF Finalize, Goto, Chunk, engineVars, StillGathering,
        ContextInv, HandledInv
    <3>2. job'.status = "planning" /\ job'.seqs = job.seqs /\ job'.data = job.data
          /\ job'.ctx = snapshot
      BY <1>1, <3>1, ClaimForPlanningFacts
    <3>3. StoredInv'
      BY <3>1, <3>2 DEF ContextInv, StoredInv
    <3>4. Line' = Line /\ Awaited' = Awaited
      BY <3>1, <3>2 DEF Line, Awaited, Terminal
    <3>5. LineInv'
      BY <3>4, LineFacts DEF LineInv
    <3>6. HandledInv'
      BY <3>1, <3>2 DEF HandledInv
    <3>7. EndedInv'
      BY <3>1, <3>2 DEF ContextInv, HandledInv, EndedInv, ContextComplete, Terminal
    <3> QED BY <3>3, <3>5, <3>6, <3>7 DEF ContextInv
  <2>2. CASE StillGathering(job) /\ sent[Chunk] = "failed"
    <3>1. /\ UNCHANGED <<chain, sent, queue, requeued, snapshot, endedBy, submit>>
          /\ pc[Consumer] = "finalize" /\ pc'[Consumer] = "tellFailed"
      BY <1>1, <1>6, <2>2 DEF Finalize, Goto, engineVars
    <3>2. Advances(job, job')
      BY <1>1, <1>6, <2>2, OperationsAdvance DEF Finalize
    <3> QED BY <1>1, <3>1, <3>2, ContextKept
  <2>3. CASE ~StillGathering(job)
    <3>1. /\ UNCHANGED <<job, sent, queue, requeued, snapshot, endedBy, submit>>
          /\ Ack /\ chain # <<>> /\ Chunk \in job.seqs
      BY <1>1, <1>6, <2>3 DEF Finalize, engineVars, ContextInv, HandledInv
    <3> QED BY <3>1, AckContext
  <2> QED BY <1>6, <2>1, <2>2, <2>3 DEF Finalize
<1>7. CASE Relay
  <2>1. /\ UNCHANGED <<job, sent, queue, requeued, snapshot, endedBy, submit>>
        /\ Ack /\ chain # <<>> /\ Chunk \in job.seqs
    BY <1>1, <1>7 DEF Relay, TellSteps, engineVars, ContextInv, HandledInv
  <2> QED BY <2>1, AckContext
<1> QED BY <1>2, <1>3, <1>4, <1>5, <1>6, <1>7 DEF Consume

\* The context invariant holds in every state.
LEMMA ContextInvHolds == Spec => []ContextInv
<1>1. ContextInv /\ IndInv /\ [Next]_vars => ContextInv'
  BY SubmitContext, DeliveryContext, ConsumerContext, TimerContext, MoveContext,
    SendContext DEF Next
<1> QED BY <1>1, ContextInit, IndInvHolds, PTL DEF Spec

\* However often a chunk is repeated, redelivered or requeued, and wherever the
\* consumer crashes, data_chunks holds it once (appendResultChunk), whatever
\* the prefetch window.
THEOREM ChunksStoredOnce == Spec => []ChunkStoredOnce
<1>1. ContextInv => ChunkStoredOnce
  BY DEF ContextInv, StoredInv, ChunkStoredOnce
<1> QED BY <1>1, ContextInvHolds, PTL

\* The context a terminal chunk claims the job with holds every data chunk sent
\* before it, except those given back after a failure (jobChains and
\* finalizeCompleted), with any number of chunks in flight, delivered twice or
\* redelivered after a crash.
THEOREM ContextsAreComplete == Spec => []ContextComplete
<1>1. ContextInv => ContextComplete
  BY DEF ContextInv, EndedInv
<1> QED BY <1>1, ContextInvHolds, PTL
-----------------------------------------------------------------------------
(* The promises of JobLifecycle, whether or not a reply is lost.           *)

\* Steps between claimForGathering and the gather request, or the failure that
\* takes its place.
GatherSteps == {"check", "resolve", "publish", "claimPlan", "writeInactive",
                "writeCheckError", "writePublishFailed"}

\* Where the contract wants the job, or ended after a false report.
At(places) == job.status \in places \/ (unsure /\ job.status \in Terminal)

\* Whoever may write the job's end without a condition is alone with it, or a
\* reply was lost: the request handler before anything is queued, the delivery
\* that gathers before the context engine or the timeout can answer, the runner
\* that plans.
SubmitterAlone ==
  /\ submit \in {"idle", "enqueue"} => ~unsure
  /\ submit # "idle" => job.status # "absent"
  /\ submit \in {"enqueue", "markFailed"} /\ ~unsure =>
       job.status = "pending" /\ ~queued /\ \A d \in Deliveries : pc[d] = "idle"

GathererAlone ==
  /\ \A d \in Deliveries : pc[d] \in GatherSteps =>
       \/ At({"gathering"}) /\ requests = 0
       \/ unsure /\ pc[d] = "writePublishFailed" /\ job.status \notin {"absent", "pending"}
  /\ \A d, e \in Deliveries : pc[d] \in GatherSteps /\ pc[e] \in GatherSteps => d = e
  /\ requests = 0 => timer = "off" /\ sent = <<>> /\ \A d \in Deliveries : pc[d] # "schedule"

PlannerAlone ==
  \A r \in Runners :
    /\ Planning(r) => At({"planning", "running"})
    /\ pc[r] = "writeCompleted" => calls = 1

\* What is told is what is stored, or was before a reply was lost.
TellersRight ==
  /\ \A r \in Runners : /\ pc[r] = "tellCompleted" => At({"completed"}) /\ calls = 1
                        /\ pc[r] = "tellFailed" => At({"failed"})
  /\ timer = "tell" => At({"failed"})
  /\ job.status = "absent" => job.ctx = {}

LifeInv == SubmitterAlone /\ GathererAlone /\ PlannerAlone /\ TellersRight

\* The contract's At is this one.
LEMMA AtIsAt == \A places : Lifecycle!At(places) <=> At(places)
BY DEF Lifecycle!At, Lifecycle!Ends, At, Terminal

\* A step that only moves one runner, not into a phase it was not in.
LEMMA LifeMoved ==
  ASSUME TypeInv, LifeInv, NEW r \in Runners, NEW step \in Steps, Goto(r, step),
         job'.status = job.status, job'.ctx = job.ctx,
         UNCHANGED <<submit, requests, calls, timer, sent, unsure>>,
         submit \in {"enqueue", "markFailed"} => r \notin Deliveries \/ unsure,
         queued' => queued \/ r \in Deliveries,
         step \in GatherSteps => pc[r] \in GatherSteps \ {"writePublishFailed"},
         step \in PlanSteps => Planning(r),
         step \notin {"schedule", "writeCompleted", "tellCompleted", "tellFailed"}
  PROVE  LifeInv'
<1>1. pc'[r] = step /\ \A q \in Runners : q # r => pc'[q] = pc[q]
  BY GotoFacts DEF TypeInv, TypeOK
<1>2. Deliveries \subseteq Runners
  BY DEF Runners
<1>3. SubmitterAlone'
  BY <1>1, <1>2 DEF LifeInv, SubmitterAlone
<1>4. GathererAlone'
  BY <1>1, <1>2 DEF LifeInv, GathererAlone, At, GatherSteps
<1>5. PlannerAlone'
  BY <1>1 DEF LifeInv, PlannerAlone, Planning, At
<1>6. TellersRight'
  BY <1>1 DEF LifeInv, TellersRight, At
<1> QED BY <1>3, <1>4, <1>5, <1>6 DEF LifeInv

\* Nobody writes or tells the end of a job that still waits for it.
LEMMA NobodyTells ==
  ASSUME LifeInv, job.status \notin Terminal
  PROVE  /\ \A r \in Runners : pc[r] \notin {"tellCompleted", "tellFailed"}
         /\ timer # "tell"
BY DEF LifeInv, TellersRight, At, Terminal

\* What a recorded failure leaves of the document.
LEMMA FailedFacts ==
  ASSUME NEW j \in Jobs
  PROVE  LET k == UpdateStatus(j, "failed")
         IN  k.status = "failed" /\ k.ctx = j.ctx
<1>1. "failed" \in Statuses
  BY DEF Statuses
<1> QED BY <1>1, UpdateStatusFacts

\* A teller whose end is stored, or was before a false report, may tell it.
LEMMA Told ==
  ASSUME NEW end \in {"completed", "failed"}, At({end}), end = "completed" => calls = 1,
         announced' = announced \cup {end},
         UNCHANGED <<job, requests, calls, unsure>>
  PROVE  \E e \in Lifecycle!Ends : Lifecycle!Tell(e)
<1>1. end \in Lifecycle!Ends
  BY DEF Lifecycle!Ends
<1>2. Lifecycle!At({}) \/ job.status = end
  BY DEF Lifecycle!At, Lifecycle!Ends, At, Terminal
<1>3. Lifecycle!Tell(end)
  BY <1>2 DEF Lifecycle!Tell
<1> QED BY <1>1, <1>3

\* The request handler is alone until the job is queued.
LEMMA SubmitLife ==
  ASSUME IndInv, LifeInv, SubmitStep
  PROVE  LifeInv' /\ [Lifecycle!Next]_(Lifecycle!vars)
<1>1. job \in Jobs /\ pc \in [Runners -> Steps] /\ Deliveries \subseteq Runners
  BY DEF IndInv, TypeInv, TypeOK, Runners
<1>2. CASE SubmitCreate
  <2>1. /\ job.status = "absent" /\ ~queued /\ \A d \in Deliveries : pc[d] = "idle"
    BY <1>2 DEF SubmitCreate, IndInv, ClaimsInv, Unsubmitted
  <2>2. /\ requests = 0 /\ calls = 0 /\ \A r \in Runners : ~Planning(r)
    BY <2>1 DEF IndInv, ClaimsInv, OneAsks, OnePlans
  <2>3. /\ job'.status = "pending" /\ job'.ctx = {} /\ submit' = "enqueue"
        /\ UNCHANGED <<queued, pc, timer, requests, sent, calls, announced, unsure>>
    BY <1>2, CreateFacts DEF SubmitCreate, timerVars, engineVars, historyVars
  <2>4. /\ \A r \in Runners : pc[r] \notin {"tellCompleted", "tellFailed"}
        /\ timer # "tell"
    BY <2>1, NobodyTells DEF Terminal
  <2>5. SubmitterAlone' /\ GathererAlone'
    BY <1>2, <2>1, <2>2, <2>3 DEF SubmitCreate, LifeInv, SubmitterAlone, GathererAlone,
      GatherSteps, At
  <2>6. PlannerAlone' /\ TellersRight'
    BY <2>2, <2>3, <2>4 DEF LifeInv, PlannerAlone, TellersRight, Planning, PlanSteps
  <2>7. Lifecycle!Submit
    BY <2>1, <2>3 DEF Lifecycle!Submit, LifeInv, TellersRight
  <2> QED BY <2>5, <2>6, <2>7 DEF LifeInv, Lifecycle!Next
<1>3. CASE SubmitEnqueue
  <2>1. /\ UNCHANGED <<job, pc, timer, requests, sent, calls, announced>>
        /\ submit = "enqueue" /\ submit' \in {"done", "markFailed"}
        /\ \/ unsure' = unsure /\ (submit' = "markFailed" => ~queued')
           \/ unsure' = TRUE
    BY <1>3 DEF SubmitEnqueue, timerVars, engineVars
  <2>2. /\ ~unsure /\ job.status = "pending" /\ \A d \in Deliveries : pc[d] = "idle"
    BY <2>1 DEF LifeInv, SubmitterAlone
  <2>3. /\ \A r \in Runners : pc[r] \notin {"tellCompleted", "tellFailed"} /\ ~Planning(r)
        /\ timer # "tell"
    BY <2>2, NobodyTells DEF Terminal, IndInv, ClaimsInv, OnePlans
  <2>4. SubmitterAlone' /\ GathererAlone'
    BY <2>1, <2>2 DEF LifeInv, SubmitterAlone, GathererAlone, GatherSteps
  <2>5. PlannerAlone' /\ TellersRight'
    BY <2>1, <2>2, <2>3 DEF LifeInv, PlannerAlone, TellersRight, Planning
  <2>6. Lifecycle!FalseReport \/ UNCHANGED Lifecycle!vars
    BY <2>1, <2>2 DEF Lifecycle!FalseReport, Lifecycle!vars
  <2> QED BY <2>4, <2>5, <2>6 DEF LifeInv, Lifecycle!Next
<1>4. CASE SubmitMarkFailed
  <2>1. /\ job.status # "absent" /\ submit = "markFailed" /\ submit' = "done"
        /\ UNCHANGED <<queued, pc, timer, requests, sent, calls, announced, unsure>>
    BY <1>4 DEF SubmitMarkFailed, LifeInv, SubmitterAlone, timerVars, engineVars, historyVars
  <2>2. \/ job' = job
        \/ job'.status = "failed" /\ job'.ctx = job.ctx
    BY <1>1, <1>4, FailedFacts DEF SubmitMarkFailed
  <2>3. CASE unsure
    <3>1. SubmitterAlone' /\ GathererAlone'
      BY <2>1, <2>2, <2>3 DEF LifeInv, SubmitterAlone, GathererAlone, At, Terminal
    <3>2. PlannerAlone' /\ TellersRight'
      BY <2>1, <2>2, <2>3 DEF LifeInv, PlannerAlone, TellersRight, Planning, At, Terminal
    <3>3. Lifecycle!Fail \/ UNCHANGED Lifecycle!vars
      <4>1. job.status \in {"pending", "running", "gathering", "planning"} \cup Lifecycle!Ends
        BY <1>1, <2>1 DEF Lifecycle!Ends, Jobs, Statuses
      <4>2. Lifecycle!At({"pending", "running", "gathering", "planning"})
        BY <2>3, <4>1 DEF Lifecycle!At
      <4> QED BY <2>1, <2>2, <4>2 DEF Lifecycle!Fail, Lifecycle!vars
    <3> QED BY <3>1, <3>2, <3>3 DEF LifeInv, Lifecycle!Next
  <2>4. CASE ~unsure
    <3>1. job.status = "pending" /\ \A d \in Deliveries : pc[d] = "idle"
      BY <2>1, <2>4 DEF LifeInv, SubmitterAlone
    <3>2. /\ requests = 0 /\ calls = 0 /\ \A r \in Runners : ~Planning(r)
      BY <3>1 DEF IndInv, ClaimsInv, OneAsks, OnePlans
    <3>3. /\ \A r \in Runners : pc[r] \notin {"tellCompleted", "tellFailed"}
          /\ timer # "tell"
      BY <3>1, NobodyTells DEF Terminal
    <3>4. SubmitterAlone' /\ GathererAlone'
      BY <2>1, <2>2, <3>1, <3>2 DEF LifeInv, SubmitterAlone, GathererAlone, GatherSteps
    <3>5. PlannerAlone' /\ TellersRight'
      BY <2>1, <2>2, <3>2, <3>3 DEF LifeInv, PlannerAlone, TellersRight, Planning, PlanSteps
    <3>6. Lifecycle!Fail \/ UNCHANGED Lifecycle!vars
      BY <2>1, <2>2, <3>1 DEF Lifecycle!Fail, Lifecycle!vars, Lifecycle!At
    <3> QED BY <3>4, <3>5, <3>6 DEF LifeInv, Lifecycle!Next
  <2> QED BY <2>3, <2>4
<1> QED BY <1>2, <1>3, <1>4 DEF SubmitStep

\* The steps of runClaimedPlanning: the planner calls once, and then ends the
\* job that nobody else can end.
LEMMA PlanLife ==
  ASSUME IndInv, LifeInv, NEW r \in Runners, Plan(r)
  PROVE  LifeInv' /\ [Lifecycle!Next]_(Lifecycle!vars)
<1>1. /\ job \in Jobs /\ pc \in [Runners -> Steps] /\ Deliveries \subseteq Runners
      /\ TypeInv /\ OnePlans /\ Planning(r)
  BY FailureWritesFacts DEF IndInv, TypeInv, TypeOK, Runners, ClaimsInv, Plan, PlanCheck,
    Retrieve, PlanRecheck, PlanCall, PlanWrite, Planning, PlanSteps
<1>2. At({"planning", "running"})
  BY <1>1 DEF LifeInv, PlannerAlone
<1>3. submit \in {"enqueue", "markFailed"} => r \notin Deliveries \/ unsure
  BY <1>1 DEF LifeInv, SubmitterAlone, Planning, PlanSteps
<1>4. CASE PlanCheck(r) \/ Retrieve(r) \/ PlanRecheck(r)
  <2>1. UNCHANGED <<job, submit, queued, requests, calls, timer, sent, announced, unsure>>
    BY <1>4 DEF PlanCheck, Retrieve, PlanRecheck, timerVars, engineVars, historyVars
  <2>2. PICK step \in {"retrieve", "planRecheck", "planCall", "writePlanInactive",
                       "writePlanFailed"} : Goto(r, step)
    BY <1>4 DEF PlanCheck, Retrieve, PlanRecheck, PlanStepFails
  <2>3. step \in Steps /\ step \notin GatherSteps
    BY StepsFacts DEF GatherSteps
  <2>4. LifeInv'
    BY <1>1, <1>3, <2>1, <2>2, <2>3, LifeMoved
  <2>5. UNCHANGED Lifecycle!vars
    BY <2>1 DEF Lifecycle!vars
  <2> QED BY <2>4, <2>5
<1>5. CASE PlanCall(r)
  <2>1. /\ UNCHANGED <<job, submit, queued, requests, timer, sent, announced, unsure>>
        /\ pc[r] = "planCall" /\ calls' = calls + 1
        /\ \E step \in {"writeCompleted", "writePlanFailed"} : Goto(r, step)
    BY <1>5 DEF PlanCall, timerVars, engineVars, historyVars
  <2>2. PICK step \in {"writeCompleted", "writePlanFailed"} : Goto(r, step)
    BY <2>1
  <2>3. pc'[r] = step /\ \A q \in Runners : q # r => pc'[q] = pc[q]
    BY <1>1, <2>2, GotoFacts, StepsFacts
  <2>4. calls = 0
    BY <1>1, <2>1 DEF OnePlans, BeforeCall
  <2>5. \A q \in Runners : q # r => ~Planning(q)
    BY <1>1 DEF OnePlans
  <2>6. SubmitterAlone' /\ GathererAlone'
    BY <1>1, <1>3, <2>1, <2>3 DEF LifeInv, SubmitterAlone, GathererAlone, GatherSteps, At
  <2>7. PlannerAlone'
    BY <1>2, <2>1, <2>3, <2>4, <2>5 DEF PlannerAlone, Planning, PlanSteps, At
  <2>8. TellersRight'
    BY <2>1, <2>3, <2>4 DEF LifeInv, TellersRight, At
  <2>9. Lifecycle!Call
    BY <1>2, <2>1, <2>4, AtIsAt DEF Lifecycle!Call
  <2> QED BY <2>6, <2>7, <2>8, <2>9 DEF LifeInv, Lifecycle!Next
<1>6. CASE PlanWrite(r)
  <2>1. UNCHANGED <<submit, queued, requests, calls, timer, sent, announced, unsure>>
    BY <1>6 DEF PlanWrite, timerVars, engineVars, historyVars
  <2>2. /\ job'.ctx = job.ctx
        /\ \/ pc[r] = "writeCompleted" /\ job'.status = "completed" /\ Goto(r, "tellCompleted")
           \/ job'.status = "failed" /\ Goto(r, "tellFailed")
    <3>1. CASE pc[r] = "writeCompleted"
      <4>1. /\ job' = UpdateStatus(job, "completed") /\ Goto(r, "tellCompleted")
        BY <1>6, <3>1, FailureWritesFacts DEF PlanWrite
      <4>2. job'.status = "completed" /\ job'.ctx = job.ctx
        BY <1>1, <4>1, UpdateStatusFacts DEF Statuses
      <4> QED BY <3>1, <4>1, <4>2
    <3>2. CASE pc[r] # "writeCompleted"
      <4>1. /\ job' = UpdateStatus(job, "failed") /\ Goto(r, "tellFailed")
        BY <1>6, <3>2 DEF PlanWrite
      <4>2. job'.status = "failed" /\ job'.ctx = job.ctx
        BY <1>1, <4>1, FailedFacts
      <4> QED BY <4>1, <4>2
    <3> QED BY <3>1, <3>2
  <2>3. /\ \A q \in Runners : q # r => pc'[q] = pc[q]
        /\ \/ pc'[r] = "tellCompleted" /\ job'.status = "completed" /\ calls = 1
           \/ pc'[r] = "tellFailed" /\ job'.status = "failed"
    BY <1>1, <2>2, GotoFacts, StepsFacts DEF LifeInv, PlannerAlone
  <2>4. /\ \A q \in Runners : pc[q] \in {"tellCompleted", "tellFailed"} => unsure
        /\ timer = "tell" => unsure
    BY <1>2 DEF LifeInv, TellersRight, At
  <2>5. /\ \A q \in Runners : q # r => ~Planning(q)
        /\ \A d \in Deliveries : pc[d] \in GatherSteps => unsure
    BY <1>1, <1>2 DEF OnePlans, LifeInv, GathererAlone, At
  <2>6. SubmitterAlone' /\ GathererAlone'
    BY <1>1, <1>2, <1>3, <2>1, <2>3, <2>5 DEF LifeInv, SubmitterAlone, GathererAlone,
      GatherSteps, At, Terminal
  <2>7. PlannerAlone'
    BY <2>3, <2>5 DEF PlannerAlone, Planning, PlanSteps
  <2>8. TellersRight'
    BY <2>1, <2>3, <2>4 DEF LifeInv, TellersRight, At, Terminal
  <2>9. Lifecycle!Complete \/ Lifecycle!Fail
    BY <1>2, <2>1, <2>2 DEF Lifecycle!Complete, Lifecycle!Fail, Lifecycle!At,
      Lifecycle!Ends, At, Terminal, LifeInv, PlannerAlone
  <2> QED BY <2>6, <2>7, <2>8, <2>9 DEF LifeInv, Lifecycle!Next
<1> QED BY <1>4, <1>5, <1>6 DEF Plan

\* A delivery wins a claim, or moves on with the one it won.
LEMMA DeliveryLife ==
  ASSUME IndInv, LifeInv, NEW d \in Deliveries,
         DeliveryStep(d) \/ Stall(d) \/ Throw(d)
  PROVE  LifeInv' /\ [Lifecycle!Next]_(Lifecycle!vars)
<1>1. /\ job \in Jobs /\ pc \in [Runners -> Steps] /\ Deliveries \subseteq Runners
      /\ TypeInv /\ OnePlans /\ OneAsks /\ Unsubmitted /\ d \in Runners
  BY DEF IndInv, TypeInv, TypeOK, Runners, ClaimsInv
<1>2. pc[d] # "idle" \/ queued =>
        /\ submit \notin {"idle", "enqueue"} /\ job.status # "absent"
        /\ submit = "markFailed" => unsure
  BY <1>1 DEF LifeInv, SubmitterAlone, Unsubmitted
<1>3. CASE Plan(d)
  BY <1>1, <1>3, PlanLife
<1>4. CASE Deliver(d) \/ LookupPrompt(d) \/ CheckUser(d) \/ Resolve(d) \/ Throw(d)
           \/ (Claim(d) /\ ~CanClaimPending(job))
           \/ (ClaimLegacy(d) /\ ~CanClaimPending(job))
           \/ (ClaimPlan(d) /\ ~StillGathering(job))
  <2>1. /\ UNCHANGED <<job, submit, requests, calls, timer, sent, unsure>>
        /\ announced' = announced \/ announced' = announced \cup {"retrying"}
    BY <1>4 DEF Deliver, LookupPrompt, CheckUser, Resolve, Throw, Claim, ClaimLegacy,
      ClaimPlan, timerVars, engineVars, historyVars
  <2>2. pc[d] # "idle" \/ queued
    BY <1>4, FailureWritesFacts DEF Deliver, LookupPrompt, CheckUser, Resolve, Throw, Throwing,
      Claim, ClaimLegacy, ClaimPlan
  <2>3. PICK step \in Steps :
          /\ Goto(d, step)
          /\ step \in GatherSteps => pc[d] \in GatherSteps \ {"writePublishFailed"}
          /\ step \in PlanSteps => Planning(d)
          /\ step \notin {"schedule", "writeCompleted", "tellCompleted", "tellFailed"}
    BY <1>4, StepsFacts DEF Deliver, LookupPrompt, CheckUser, Resolve, Throw, Claim,
      ClaimLegacy, ClaimPlan, GatherSteps, PlanSteps, Planning
  <2>4. LifeInv'
    BY <1>1, <1>2, <2>1, <2>2, <2>3, LifeMoved
  <2>5. job.status # "absent"
    BY <1>2, <2>2
  <2>6. Lifecycle!FailAttempt \/ UNCHANGED Lifecycle!vars
    BY <2>1, <2>5 DEF Lifecycle!FailAttempt, Lifecycle!vars
  <2> QED BY <2>4, <2>6 DEF Lifecycle!Next
<1>5. CASE Stall(d)
  <2>1. /\ UNCHANGED <<job, submit, pc, requests, calls, timer, sent, announced, unsure>>
        /\ pc[d] # "idle"
    BY <1>5 DEF Stall, Running, timerVars, engineVars, historyVars
  <2>2. LifeInv'
    BY <1>2, <2>1 DEF LifeInv, SubmitterAlone, GathererAlone, PlannerAlone, TellersRight,
      Planning, At
  <2>3. UNCHANGED Lifecycle!vars
    BY <2>1 DEF Lifecycle!vars
  <2> QED BY <2>2, <2>3
<1>6. CASE Claim(d) /\ CanClaimPending(job)
  <2>1. /\ UNCHANGED <<submit, queued, requests, calls, timer, sent, announced, unsure>>
        /\ pc[d] = "claim" /\ job.status = "pending" /\ Goto(d, "check")
        /\ job'.status = "gathering" /\ job'.ctx = job.ctx
    BY <1>1, <1>6, ClaimForGatheringFacts DEF Claim, CanClaimPending, timerVars, engineVars
  <2>2. pc'[d] = "check" /\ \A q \in Runners : q # d => pc'[q] = pc[q]
    BY <1>1, <2>1, GotoFacts, StepsFacts
  <2>3. /\ requests = 0 /\ \A r \in Runners : ~Planning(r)
        /\ \A e \in Deliveries : pc[e] \notin GatherSteps
    BY <1>1, <2>1 DEF OneAsks, OnePlans, LifeInv, GathererAlone, At, Terminal
  <2>4. /\ \A q \in Runners : pc[q] \notin {"tellCompleted", "tellFailed"}
        /\ timer # "tell"
    BY <2>1, NobodyTells DEF Terminal
  <2>5. SubmitterAlone' /\ GathererAlone'
    BY <1>1, <1>2, <2>1, <2>2, <2>3 DEF LifeInv, SubmitterAlone, GathererAlone, At
  <2>6. PlannerAlone' /\ TellersRight'
    BY <2>1, <2>2, <2>3, <2>4 DEF PlannerAlone, TellersRight, Planning, PlanSteps
  <2>7. Lifecycle!Begin
    BY <2>1 DEF Lifecycle!Begin
  <2> QED BY <2>5, <2>6, <2>7 DEF LifeInv, Lifecycle!Next
<1>7. CASE \/ ClaimLegacy(d) /\ CanClaimPending(job)
           \/ ClaimPlan(d) /\ StillGathering(job)
  <2>1. /\ UNCHANGED <<submit, queued, requests, calls, timer, sent, announced, unsure>>
        /\ pc[d] \in {"claim", "claimPlan"}
        /\ \/ job.status = "pending" /\ job'.status = "running" /\ job'.ctx = job.ctx
           \/ job.status = "gathering" /\ job'.status = "planning" /\ job'.ctx = {}
              /\ pc[d] = "claimPlan"
        /\ \E step \in {"lookupPrompt", "planCheck"} : Goto(d, step)
    BY <1>1, <1>7, ClaimForProcessingFacts, ClaimForPlanningFacts
    DEF ClaimLegacy, ClaimPlan, CanClaimPending, StillGathering, timerVars, engineVars
  <2>2. PICK step \in {"lookupPrompt", "planCheck"} : Goto(d, step)
    BY <2>1
  <2>3. pc'[d] = step /\ \A q \in Runners : q # d => pc'[q] = pc[q]
    BY <1>1, <2>2, GotoFacts, StepsFacts
  <2>4. /\ \A r \in Runners : ~Planning(r)
        /\ \A e \in Deliveries : e # d => pc[e] \notin GatherSteps
    BY <1>1, <2>1 DEF OnePlans, LifeInv, GathererAlone, GatherSteps, At, Terminal
  <2>5. /\ \A q \in Runners : pc[q] \notin {"tellCompleted", "tellFailed"}
        /\ timer # "tell"
    BY <2>1, NobodyTells DEF Terminal
  <2>6. SubmitterAlone' /\ GathererAlone'
    BY <1>1, <1>2, <2>1, <2>3, <2>4 DEF LifeInv, SubmitterAlone, GathererAlone, GatherSteps
  <2>7. PlannerAlone' /\ TellersRight'
    BY <2>1, <2>3, <2>4, <2>5 DEF PlannerAlone, TellersRight, Planning, PlanSteps, At
  <2>8. Lifecycle!Run \/ Lifecycle!Resolve
    BY <2>1 DEF Lifecycle!Run, Lifecycle!Resolve
  <2> QED BY <2>6, <2>7, <2>8 DEF LifeInv, Lifecycle!Next
<1>8. CASE Publish(d)
  <2>1. /\ UNCHANGED <<job, submit, queued, calls, timer, sent, announced>>
        /\ pc[d] = "publish"
        /\ \/ requests' = requests + 1 /\ Goto(d, "schedule") /\ unsure' = unsure
           \/ requests' = requests /\ Goto(d, "writePublishFailed") /\ unsure' = unsure
           \/ requests' = requests + 1 /\ Goto(d, "writePublishFailed") /\ unsure' = TRUE
    BY <1>8 DEF Publish, timerVars
  <2>2. /\ requests = 0 /\ At({"gathering"})
        /\ \A e \in Deliveries : e # d => pc[e] \notin GatherSteps
    BY <2>1 DEF LifeInv, GathererAlone, GatherSteps
  <2>3. /\ \A q \in Runners : q # d => pc'[q] = pc[q]
        /\ \/ requests' = 1 /\ pc'[d] = "schedule" /\ unsure' = unsure
           \/ requests' = 0 /\ pc'[d] = "writePublishFailed" /\ unsure' = unsure
           \/ requests' = 1 /\ pc'[d] = "writePublishFailed" /\ unsure' = TRUE
    BY <1>1, <2>1, <2>2, GotoFacts, StepsFacts
  <2>4. SubmitterAlone'
    BY <1>1, <1>2, <2>1, <2>3 DEF LifeInv, SubmitterAlone
  <2>5. GathererAlone'
    BY <1>1, <2>1, <2>2, <2>3 DEF LifeInv, GathererAlone, GatherSteps, At, Terminal
  <2>6. PlannerAlone' /\ TellersRight'
    BY <2>1, <2>3 DEF LifeInv, PlannerAlone, TellersRight, Planning, PlanSteps, At
  <2>7. Lifecycle!Request \/ UNCHANGED Lifecycle!vars
    BY <2>1, <2>2, <2>3, AtIsAt DEF Lifecycle!Request, Lifecycle!vars
  <2> QED BY <2>4, <2>5, <2>6, <2>7 DEF LifeInv, Lifecycle!Next
<1>9. CASE ScheduleTimeout(d)
  <2>1. /\ UNCHANGED <<job, submit, queued, requests, calls, sent, announced, unsure>>
        /\ pc[d] = "schedule" /\ Goto(d, "tellGathering")
        /\ timer' = IF timer = "off" THEN "set" ELSE timer
    BY <1>9 DEF ScheduleTimeout, engineVars, historyVars
  <2>2. pc'[d] = "tellGathering" /\ \A q \in Runners : q # d => pc'[q] = pc[q]
    BY <1>1, <2>1, GotoFacts, StepsFacts
  <2>3. requests # 0
    BY <2>1 DEF LifeInv, GathererAlone
  <2>4. SubmitterAlone' /\ GathererAlone'
    BY <1>1, <1>2, <2>1, <2>2, <2>3 DEF LifeInv, SubmitterAlone, GathererAlone, GatherSteps, At
  <2>5. PlannerAlone' /\ TellersRight'
    BY <2>1, <2>2 DEF LifeInv, PlannerAlone, TellersRight, Planning, PlanSteps, At
  <2>6. UNCHANGED Lifecycle!vars
    BY <2>1 DEF Lifecycle!vars
  <2> QED BY <2>4, <2>5, <2>6 DEF LifeInv
<1>10. CASE WriteFailure(d)
  <2>1. /\ UNCHANGED <<submit, queued, requests, calls, timer, sent, announced, unsure>>
        /\ pc[d] \in GatherSteps /\ Goto(d, "tellFailed")
        /\ job'.status = "failed" /\ job'.ctx = job.ctx
    <3>1. /\ UNCHANGED <<submit, queued, requests, calls, timer, sent, announced, unsure>>
          /\ Goto(d, "tellFailed")
          /\ job' = UpdateStatus(job, "failed")
      BY <1>10 DEF WriteFailure, timerVars, engineVars, historyVars
    <3>2. pc[d] \in GatherSteps
      BY <1>10 DEF WriteFailure, FailureWrites, PlanSteps, GatherSteps
    <3> QED BY <1>1, <3>1, <3>2, FailedFacts
  <2>2. pc'[d] = "tellFailed" /\ \A q \in Runners : q # d => pc'[q] = pc[q]
    BY <1>1, <2>1, GotoFacts, StepsFacts
  <2>3. /\ At({"gathering", "planning"}) \/ unsure
        /\ job.status \notin {"absent", "pending"}
        /\ \A e \in Deliveries : e # d => pc[e] \notin GatherSteps
    BY <2>1 DEF LifeInv, GathererAlone, At, Terminal
  <2>4. ~unsure => job.status = "gathering"
    BY <2>1 DEF LifeInv, GathererAlone, At
  <2>5. SubmitterAlone' /\ GathererAlone'
    BY <1>1, <1>2, <2>1, <2>2, <2>3 DEF LifeInv, SubmitterAlone, GathererAlone, GatherSteps
  <2>6. PlannerAlone' /\ TellersRight'
    <3>1. CASE unsure
      BY <2>1, <2>2, <3>1 DEF LifeInv, PlannerAlone, TellersRight, Planning, PlanSteps, At, Terminal
    <3>2. CASE ~unsure
      <4>1. \A r \in Runners : ~Planning(r)
        BY <1>1, <2>4, <3>2 DEF OnePlans
      <4>2. /\ \A q \in Runners : pc[q] \notin {"tellCompleted", "tellFailed"}
            /\ timer # "tell"
        BY <2>4, <3>2, NobodyTells DEF Terminal
      <4> QED BY <2>1, <2>2, <4>1, <4>2 DEF PlannerAlone, TellersRight, Planning, PlanSteps, At
    <3> QED BY <3>1, <3>2
  <2>7. Lifecycle!Fail
    BY <1>1, <2>1, <2>3, <2>4 DEF Lifecycle!Fail, Lifecycle!At, Lifecycle!Ends, Jobs, Statuses
  <2> QED BY <2>5, <2>6, <2>7 DEF LifeInv, Lifecycle!Next
<1>11. CASE Tell(d)
  <2>1. /\ UNCHANGED <<job, submit, queued, requests, calls, timer, sent, unsure>>
        /\ pc[d] \in TellSteps /\ Goto(d, "done")
    BY <1>11 DEF Tell, timerVars, engineVars, historyVars
  <2>2. LifeInv'
    BY <1>1, <1>2, <2>1, StepsFacts, LifeMoved DEF GatherSteps, PlanSteps, TellSteps
  <2>3. \/ announced' = announced
        \/ announced' = announced \cup {"completed"} /\ At({"completed"}) /\ calls = 1
        \/ announced' = announced \cup {"failed"} /\ At({"failed"})
    BY <1>1, <1>11 DEF Tell, TellSteps, LifeInv, TellersRight
  <2>4. (\E end \in Lifecycle!Ends : Lifecycle!Tell(end)) \/ UNCHANGED Lifecycle!vars
    BY <2>1, <2>3, Told DEF Lifecycle!vars
  <2> QED BY <2>2, <2>4 DEF Lifecycle!Next
<1> QED BY <1>3, <1>4, <1>5, <1>6, <1>7, <1>8, <1>9, <1>10, <1>11 DEF DeliveryStep

\* A terminal chunk ends the gathering only after the gather request was sent,
\* so no delivery is about to end the job too.
LEMMA ConsumerLife ==
  ASSUME IndInv, LifeInv, Consume \/ Requeue
  PROVE  LifeInv' /\ [Lifecycle!Next]_(Lifecycle!vars)
<1>1. /\ job \in Jobs /\ pc \in [Runners -> Steps] /\ Deliveries \subseteq Runners
      /\ TypeInv /\ OnePlans /\ Consumer \in Runners /\ Consumer \notin Deliveries
      /\ pc[Consumer] # "idle" => chain # <<>>
      /\ chain \in Seq(1 .. Len(sent)) /\ snapshot \in SUBSET Nat
  BY RunnersAssumption DEF IndInv, TypeInv, TypeOK, Runners, ClaimsInv, HandlingInv
<1>2. CASE Plan(Consumer)
  BY <1>1, <1>2, PlanLife
<1>3. CASE Receive
  <2>1. UNCHANGED <<job, submit, queued, pc, requests, calls, timer, sent, announced, unsure>>
    BY <1>3 DEF Receive, timerVars, engineVars, historyVars
  <2>2. LifeInv'
    BY <2>1 DEF LifeInv, SubmitterAlone, GathererAlone, PlannerAlone, TellersRight, Planning, At
  <2>3. UNCHANGED Lifecycle!vars
    BY <2>1 DEF Lifecycle!vars
  <2> QED BY <2>2, <2>3
<1>4. CASE Find \/ AppendChunk \/ Requeue \/ (Finalize /\ ~StillGathering(job))
  <2>1. UNCHANGED <<submit, queued, requests, calls, timer, sent, announced, unsure>>
    BY <1>4 DEF Find, AppendChunk, Requeue, Finalize, timerVars, engineVars, historyVars
  <2>2. job'.status = job.status /\ job'.ctx = job.ctx
    <3>1. CASE job' = job
      BY <3>1
    <3>2. CASE AppendChunk /\ CanAppend(job, Chunk)
      <4>1. Chunk \in Nat /\ (sent[Chunk] = "data") \in BOOLEAN
        <5>1. chain # <<>> /\ 1 .. Len(sent) \subseteq Nat
          BY <1>1, <3>2 DEF AppendChunk
        <5> QED BY <1>1, <5>1, QueueFacts DEF Chunk
      <4>2. PICK isData \in BOOLEAN : job' = AppendResultChunk(job, Chunk, isData)
        BY <3>2, <4>1 DEF AppendChunk
      <4> QED BY <1>1, <4>1, <4>2, AppendResultChunkFacts
    <3> QED BY <1>4, <3>1, <3>2 DEF Find, AppendChunk, Requeue, Finalize
  <2>3. PICK step \in {"idle", "append", "relay", "finalize"} : Goto(Consumer, step)
    BY <1>4 DEF Find, AppendChunk, Requeue, Finalize, Ack
  <2>4. LifeInv'
    BY <1>1, <2>1, <2>2, <2>3, StepsFacts, LifeMoved DEF GatherSteps, PlanSteps
  <2>5. UNCHANGED Lifecycle!vars
    BY <2>1, <2>2 DEF Lifecycle!vars
  <2> QED BY <2>4, <2>5
<1>5. CASE Relay
  <2>1. /\ UNCHANGED <<job, submit, queued, requests, calls, timer, sent, unsure>>
        /\ Goto(Consumer, "idle")
    BY <1>5 DEF Relay, Ack, timerVars, engineVars, historyVars
  <2>2. LifeInv'
    BY <1>1, <2>1, StepsFacts, LifeMoved DEF GatherSteps, PlanSteps
  <2>3. \/ announced' = announced
        \/ announced' = announced \cup {"completed"} /\ At({"completed"}) /\ calls = 1
        \/ announced' = announced \cup {"failed"} /\ At({"failed"})
    BY <1>1, <1>5 DEF Relay, TellSteps, LifeInv, TellersRight
  <2>4. (\E end \in Lifecycle!Ends : Lifecycle!Tell(end)) \/ UNCHANGED Lifecycle!vars
    BY <2>1, <2>3, Told DEF Lifecycle!vars
  <2> QED BY <2>2, <2>4 DEF Lifecycle!Next
<1>6. CASE Finalize /\ StillGathering(job)
  <2>1. /\ UNCHANGED <<submit, queued, requests, calls, timer, sent, announced, unsure>>
        /\ job.status = "gathering" /\ pc[Consumer] = "finalize"
        /\ \/ job' = ClaimForPlanning(job, snapshot) /\ Goto(Consumer, "planCheck")
           \/ /\ job' = FailIfStillGathering(job)
              /\ Goto(Consumer, "tellFailed")
    BY <1>6 DEF Finalize, StillGathering, timerVars, engineVars, historyVars
  <2>2. /\ \A q \in Runners : q # Consumer => pc'[q] = pc[q]
        /\ \/ /\ job'.status = "planning" /\ job'.ctx = snapshot
              /\ pc'[Consumer] = "planCheck"
           \/ /\ job'.status = "failed" /\ job'.ctx = job.ctx
              /\ pc'[Consumer] = "tellFailed"
    BY <1>1, <2>1, GotoFacts, StepsFacts, ClaimForPlanningFacts, FailIfStillGatheringFacts
  <2>3. requests # 0
    <3>1. chain # <<>>
      BY <1>1, <2>1
    <3>2. sent # <<>>
      <4> SUFFICES ASSUME sent = <<>> PROVE FALSE
        OBVIOUS
      <4>1. 1 .. Len(sent) = {}
        OBVIOUS
      <4>2. Head(chain) \in {}
        BY <1>1, <3>1, <4>1, HeadTailProperties
      <4> QED BY <4>2
    <3> QED BY <3>2 DEF LifeInv, GathererAlone
  <2>4. /\ \A d \in Deliveries : pc[d] \in GatherSteps =>
             unsure /\ pc[d] = "writePublishFailed"
        /\ \A r \in Runners : ~Planning(r)
    BY <1>1, <2>1, <2>3 DEF OnePlans, LifeInv, GathererAlone
  <2>5. /\ \A q \in Runners : pc[q] \notin {"tellCompleted", "tellFailed"}
        /\ timer # "tell"
    BY <2>1, NobodyTells DEF Terminal
  <2>6. SubmitterAlone' /\ GathererAlone'
    BY <1>1, <2>1, <2>2, <2>3, <2>4 DEF LifeInv, SubmitterAlone, GathererAlone, GatherSteps
  <2>7. PlannerAlone' /\ TellersRight'
    BY <2>1, <2>2, <2>4, <2>5 DEF PlannerAlone, TellersRight, Planning, PlanSteps, At
  <2>8. Lifecycle!Resolve \/ Lifecycle!Fail
    BY <1>1, <2>1, <2>2 DEF Lifecycle!Resolve, Lifecycle!Fail, Lifecycle!At
  <2> QED BY <2>6, <2>7, <2>8 DEF LifeInv, Lifecycle!Next
<1> QED BY <1>2, <1>3, <1>4, <1>5, <1>6 DEF Consume

\* The timeout runs only after the gather request was sent; the environment
\* and a crash change nothing that was promised.
LEMMA OthersLife ==
  ASSUME IndInv, LifeInv,
         Timeout \/ TimeoutTell \/ TimeoutError \/ EngineSend \/ Redeliver
         \/ Deactivate \/ Reactivate \/ Crash \/ UNCHANGED vars
  PROVE  LifeInv' /\ [Lifecycle!Next]_(Lifecycle!vars)
<1>1. /\ job \in Jobs /\ pc \in [Runners -> Steps] /\ Deliveries \subseteq Runners
      /\ OnePlans /\ Consumer \in Runners /\ Consumer \notin Deliveries
  BY RunnersAssumption DEF IndInv, TypeInv, TypeOK, Runners, ClaimsInv
<1>2. CASE Timeout /\ StillGathering(job)
  <2>1. /\ UNCHANGED <<submit, queued, pc, requests, calls, sent, announced, unsure>>
        /\ timer = "set" /\ timer' = "tell" /\ job.status = "gathering"
        /\ job'.status = "failed" /\ job'.ctx = job.ctx
    BY <1>1, <1>2, FailIfStillGatheringFacts DEF Timeout, StillGathering, engineVars,
      historyVars
  <2>2. /\ requests # 0
        /\ \A d \in Deliveries : pc[d] \in GatherSteps =>
             unsure /\ pc[d] = "writePublishFailed"
        /\ \A r \in Runners : ~Planning(r)
    BY <1>1, <2>1 DEF LifeInv, GathererAlone, OnePlans
  <2>3. /\ \A q \in Runners : pc[q] \notin {"tellCompleted", "tellFailed"}
    BY <2>1, NobodyTells DEF Terminal
  <2>4. SubmitterAlone' /\ GathererAlone'
    BY <2>1, <2>2 DEF LifeInv, SubmitterAlone, GathererAlone
  <2>5. PlannerAlone' /\ TellersRight'
    BY <2>1, <2>2, <2>3 DEF PlannerAlone, TellersRight, Planning, PlanSteps, At
  <2>6. Lifecycle!Fail
    BY <2>1 DEF Lifecycle!Fail, Lifecycle!At
  <2> QED BY <2>4, <2>5, <2>6 DEF LifeInv, Lifecycle!Next
<1>3. CASE TimeoutTell
  <2>1. /\ UNCHANGED <<job, submit, queued, pc, requests, calls, sent, unsure>>
        /\ timer = "tell" /\ timer' = "done" /\ announced' = announced \cup {"failed"}
    BY <1>3 DEF TimeoutTell, engineVars, historyVars
  <2>2. At({"failed"})
    BY <2>1 DEF LifeInv, TellersRight
  <2>3. LifeInv'
    BY <2>1 DEF LifeInv, SubmitterAlone, GathererAlone, PlannerAlone, TellersRight, Planning,
      At
  <2>4. \E end \in Lifecycle!Ends : Lifecycle!Tell(end)
    BY <2>1, <2>2, Told
  <2> QED BY <2>3, <2>4 DEF Lifecycle!Next
<1>4. CASE \/ Timeout /\ ~StillGathering(job)
           \/ TimeoutError \/ EngineSend \/ Redeliver \/ Deactivate \/ Reactivate \/ UNCHANGED vars
  <2>1. /\ UNCHANGED <<job, submit, queued, pc, requests, calls, announced, unsure>>
        /\ timer' = timer \/ (timer = "set" /\ timer' \in {"set", "done"})
        /\ sent' = sent \/ requests > 0
    BY <1>4 DEF Timeout, TimeoutError, EngineSend, Redeliver, Deactivate, Reactivate, vars,
      timerVars, engineVars, historyVars
  <2>2. LifeInv'
    BY <2>1 DEF LifeInv, SubmitterAlone, GathererAlone, PlannerAlone, TellersRight, Planning,
      At
  <2>3. UNCHANGED Lifecycle!vars
    BY <2>1 DEF Lifecycle!vars
  <2> QED BY <2>2, <2>3
<1>5. CASE Crash
  <2>1. /\ UNCHANGED <<job, requests, calls, sent, announced, unsure>>
        /\ submit' = IF submit = "idle" THEN "idle" ELSE "done"
        /\ timer' = timer \/ (timer = "tell" /\ timer' = "set")
        /\ \A r \in Runners : pc'[r] \in {"idle", "done"}
    BY <1>5 DEF Crash, Running, engineVars, historyVars
  <2>2. SubmitterAlone' /\ GathererAlone'
    BY <1>1, <2>1 DEF LifeInv, SubmitterAlone, GathererAlone, GatherSteps
  <2>3. PlannerAlone' /\ TellersRight'
    BY <2>1 DEF LifeInv, PlannerAlone, TellersRight, Planning, PlanSteps, At
  <2>4. UNCHANGED Lifecycle!vars
    BY <2>1 DEF Lifecycle!vars
  <2> QED BY <2>2, <2>3, <2>4 DEF LifeInv
<1> QED BY <1>2, <1>3, <1>4, <1>5

\* Both paths implement JobLifecycle, whatever is delivered twice, stalls,
\* fails, comes late, crashes, or takes effect although its reply is lost:
\* nobody asks, plans, completes or tells what the contract does not let him,
\* and until a lost reply was taken for a failure an ended job stays as it is.
THEOREM LifecycleKept == Spec => LifecycleSpec
<1>1. Init => LifeInv /\ Lifecycle!Init
  <2> SUFFICES ASSUME Init PROVE LifeInv /\ Lifecycle!Init
    OBVIOUS
  <2>1. job.status = "absent" /\ job.ctx = {}
    BY CreateFacts DEF Init
  <2>2. LifeInv
    BY <2>1 DEF Init, LifeInv, SubmitterAlone, GathererAlone, PlannerAlone, TellersRight,
      Planning, PlanSteps, GatherSteps, Runners
  <2>3. Lifecycle!Init
    BY <2>1 DEF Init, Lifecycle!Init
  <2> QED BY <2>2, <2>3
<1>2. IndInv /\ LifeInv /\ [Next]_vars => LifeInv' /\ [Lifecycle!Next]_(Lifecycle!vars)
  BY SubmitLife, DeliveryLife, ConsumerLife, OthersLife DEF Next
<1> QED BY <1>1, <1>2, IndInvHolds, PTL DEF Spec, LifecycleSpec, Lifecycle!Spec

-----------------------------------------------------------------------------
(* Induction and recursion over numbers, for any set and any function: the  *)
(* library's theorems take a predicate.                                    *)

Smaller == {p \in Nat \X Nat : p[1] < p[2]}

\* A set of numbers that is not empty has a least one.
LEMMA LeastNumber ==
  ASSUME NEW S, S \subseteq Nat, S # {}
  PROVE  \E n \in S : \A m \in S : n <= m
<1>1. IsWellFoundedOn(Smaller, Nat)
  <2>1. OpToRel(<, Nat) = Smaller
    BY Zenon DEF OpToRel, Smaller
  <2> QED BY <2>1, NatLessThanWellFounded, Zenon
<1>2. \A m, n \in Nat : m < n => <<m, n>> \in Smaller
  BY DEF Smaller
<1>3. PICK n \in S : \A m \in S : <<m, n>> \notin Smaller
  BY <1>1, WFMin
<1>4. ASSUME NEW m \in S PROVE n <= m
  <2>1. m \in Nat /\ n \in Nat
    OBVIOUS
  <2>2. ~(m < n)
    BY <1>2, <1>3, <2>1, Zenon
  <2> QED BY <2>1, <2>2
<1> QED BY <1>4

\* Induction up to a bound, over a set instead of a predicate.
LEMMA UpTo ==
  ASSUME NEW N \in Nat, NEW S, 0 \in S,
         \A n \in 0 .. N : n + 1 \in 0 .. N /\ n \in S => n + 1 \in S
  PROVE  0 .. N \subseteq S
<1> DEFINE Missing == (0 .. N) \ S
<1>1. SUFFICES ASSUME Missing # {} PROVE FALSE
  OBVIOUS
<1>2. PICK n \in Missing : \A m \in Missing : n <= m
  <2>1. Missing \subseteq Nat
    OBVIOUS
  <2> HIDE DEF Missing
  <2> QED BY <1>1, <2>1, LeastNumber
<1>3. n # 0 /\ n \in 1 .. N
  BY <1>2
<1>4. n - 1 \in S
  BY <1>2, <1>3
<1> QED BY <1>2, <1>3, <1>4

\* A computation of N steps, each from what the one before it left.
Iterates(f, A, a, N, step) ==
  /\ f \in [0 .. N -> A] /\ f[0] = a
  /\ \A n \in 1 .. N : f[n] = step[<<n, f[n - 1]>>]

\* Every such computation can be carried out.
LEMMA Iteration ==
  ASSUME NEW A, NEW a \in A, NEW N \in Nat, NEW step \in [(1 .. N) \X A -> A]
  PROVE  \E f : Iterates(f, A, a, N, step)
<1> DEFINE Computes(f, m) == f[0] = a /\ \A n \in 1 .. m : f[n] = step[<<n, f[n - 1]>>]
           S == {m \in 0 .. N : \E f \in [0 .. m -> A] : Computes(f, m)}
<1>1. 0 \in S
  <2> DEFINE g == [n \in 0 .. 0 |-> a]
  <2>1. g \in [0 .. 0 -> A] /\ g[0] = a
    OBVIOUS
  <2>2. Computes(g, 0)
    BY <2>1
  <2>3. \E f \in [0 .. 0 -> A] : Computes(f, 0)
    <3> HIDE DEF g
    <3> QED BY <2>1, <2>2
  <2> QED BY <2>3
<1>2. ASSUME NEW m \in 0 .. N, m + 1 \in 0 .. N, m \in S PROVE m + 1 \in S
  <2>1. PICK f \in [0 .. m -> A] : Computes(f, m)
    BY <1>2
  <2> DEFINE g == [n \in 0 .. m + 1 |-> IF n = m + 1 THEN step[<<m + 1, f[m]>>] ELSE f[n]]
  <2>2. f[m] \in A /\ <<m + 1, f[m]>> \in (1 .. N) \X A
    BY <1>2
  <2>3. g \in [0 .. m + 1 -> A]
    BY <2>2
  <2>4. g[0] = a
    BY <2>1
  <2>5. ASSUME NEW n \in 1 .. m + 1 PROVE g[n] = step[<<n, g[n - 1]>>]
    <3>1. n - 1 \in 0 .. m /\ n \in 0 .. m + 1 /\ n - 1 # m + 1
      OBVIOUS
    <3>2. g[n - 1] = f[n - 1]
      BY <3>1
    <3>3. CASE n = m + 1
      <4>1. g[n] = step[<<m + 1, f[m]>>] /\ n - 1 = m
        BY <3>1, <3>3
      <4> HIDE DEF g
      <4> QED BY <3>2, <3>3, <4>1
    <3>4. CASE n # m + 1
      <4>1. n \in 1 .. m /\ g[n] = f[n]
        BY <3>1, <3>4
      <4>2. f[n] = step[<<n, f[n - 1]>>]
        BY <2>1, <4>1
      <4> HIDE DEF g
      <4> QED BY <3>2, <4>1, <4>2
    <3> HIDE DEF g
    <3> QED BY <3>3, <3>4
  <2> QED BY <1>2, <2>3, <2>4, <2>5
<1>3. N \in S
  <2> HIDE DEF S
  <2> QED BY <1>1, <1>2, UpTo
<1> QED BY <1>3 DEF Iterates

-----------------------------------------------------------------------------
(* PlanningSources: the length of what is rendered.                        *)

\* The lengths of the texts made of the first n blocks, for each n.
IsLengths(f, blocks) ==
  /\ f \in [0 .. Len(blocks) -> Int] /\ f[0] = 0
  /\ \A n \in 1 .. Len(blocks) :
       f[n] = f[n - 1] + (IF n = 1 THEN 0 ELSE 2) + blocks[n].header + blocks[n].excerpt

Measured(blocks) ==
  /\ blocks \in Seq(Range(blocks))
  /\ \A n \in DOMAIN blocks : blocks[n].header \in Int /\ blocks[n].excerpt \in Int

\* There are such lengths, and RenderedLength is the last of them.
LEMMA RenderedLengths ==
  ASSUME NEW s, Measured(s)
  PROVE  \E f : IsLengths(f, s) /\ RenderedLength(s) = f[Len(s)]
<1> DEFINE N == Len(s)
           Add(n, x) == x + (IF n = 1 THEN 0 ELSE 2) + s[n].header + s[n].excerpt
           Def(f) == f = [n \in 0 .. Len(s) |->
                            IF n = 0 THEN 0
                            ELSE f[n - 1] + (IF n = 1 THEN 0 ELSE 2)
                                   + s[n].header + s[n].excerpt]
<1>1. N \in Nat /\ DOMAIN s = 1 .. N
  BY DEF Measured
<1>2. PICK g : IsLengths(g, s)
  <2> DEFINE step == [p \in (1 .. N) \X Int |-> Add(p[1], p[2])]
  <2>1. ASSUME NEW n \in 1 .. N, NEW x \in Int
        PROVE  Add(n, x) \in Int /\ step[<<n, x>>] = Add(n, x)
    <3>1. n \in DOMAIN s
      BY <1>1
    <3>2. Add(n, x) \in Int
      BY <3>1 DEF Measured
    <3> QED BY <3>2
  <2>2. step \in [(1 .. N) \X Int -> Int]
    <3>1. ASSUME NEW p \in (1 .. N) \X Int PROVE Add(p[1], p[2]) \in Int
      <4> HIDE DEF Add, step, N
      <4> QED BY <2>1
    <3> HIDE DEF Add, N
    <3> QED BY <3>1
  <2>3. PICK f : Iterates(f, Int, 0, N, step)
    <3>1. 0 \in Int
      OBVIOUS
    <3> HIDE DEF step, N
    <3> QED BY <1>1, <2>2, <3>1, Iteration
  <2>4. ASSUME NEW n \in 1 .. N PROVE f[n] = Add(n, f[n - 1])
    <3>1. f[n - 1] \in Int
      BY <1>1, <2>3 DEF Iterates
    <3> HIDE DEF Add, step
    <3> QED BY <2>1, <2>3, <3>1 DEF Iterates
  <2> QED BY <2>3, <2>4 DEF IsLengths, Iterates
<1>3. Def(g)
  BY <1>1, <1>2 DEF IsLengths
<1> DEFINE length == CHOOSE f : Def(f)
<1>4. Def(length)
  <2> HIDE DEF Def
  <2> QED BY <1>3
<1>5. RenderedLength(s) = length[Len(s)]
  BY DEF RenderedLength
<1> HIDE DEF length
<1>6. length[N] = g[N]
  <2> DEFINE S == {n \in 0 .. N : length[n] = g[n]}
  <2>1. 0 \in S
    BY <1>1, <1>3, <1>4
  <2>2. ASSUME NEW n \in 0 .. N, n + 1 \in 0 .. N, n \in S PROVE n + 1 \in S
    <3>1. n + 1 # 0 /\ (n + 1) - 1 = n
      BY <1>1
    <3>2. length[n + 1] = Add(n + 1, length[n])
      BY <1>4, <2>2, <3>1
    <3>3. g[n + 1] = Add(n + 1, g[n])
      BY <1>3, <2>2, <3>1
    <3> HIDE DEF Add, Def
    <3> QED BY <2>2, <3>2, <3>3
  <2>3. 0 .. N \subseteq S
    <3> HIDE DEF S, N
    <3> QED BY <1>1, <2>1, <2>2, UpTo
  <2> QED BY <1>1, <2>3
<1> QED BY <1>2, <1>5, <1>6

\* No text has no length.
LEMMA RenderedEmpty == RenderedLength(<<>>) = 0
<1>1. Measured(<<>>)
  BY DEF Measured
<1>2. PICK f : IsLengths(f, <<>>) /\ RenderedLength(<<>>) = f[Len(<<>>)]
  BY <1>1, RenderedLengths
<1> QED BY <1>2 DEF IsLengths

\* One block more adds its header, its excerpt and, unless it is the first,
\* the blank line before it.
LEMMA RenderedAppend ==
  ASSUME NEW s, NEW x, Measured(s), Measured(Append(s, x))
  PROVE  /\ RenderedLength(s) \in Int
         /\ RenderedLength(Append(s, x))
              = RenderedLength(s) + (IF s = <<>> THEN 0 ELSE 2) + x.header + x.excerpt
<1> DEFINE t == Append(s, x)
           N == Len(s)
<1>1. /\ N \in Nat /\ Len(t) = N + 1 /\ t[N + 1] = x
      /\ \A n \in 1 .. N : t[n] = s[n]
  BY DEF Measured
<1>2. PICK f : IsLengths(f, s) /\ RenderedLength(s) = f[N]
  BY RenderedLengths
<1>3. PICK g : IsLengths(g, t) /\ RenderedLength(t) = g[N + 1]
  BY <1>1, RenderedLengths
<1>4. g[N] = f[N]
  <2> DEFINE S == {n \in 0 .. N : g[n] = f[n]}
  <2>1. 0 \in S
    BY <1>1, <1>2, <1>3 DEF IsLengths
  <2>2. ASSUME NEW n \in 0 .. N, n + 1 \in 0 .. N, n \in S PROVE n + 1 \in S
    <3>1. n + 1 \in 1 .. N /\ n + 1 \in 1 .. N + 1 /\ (n + 1) - 1 = n /\ t[n + 1] = s[n + 1]
      BY <1>1, <2>2
    <3> HIDE DEF t, N
    <3>2. f[n + 1] = f[n] + (IF n + 1 = 1 THEN 0 ELSE 2) + s[n + 1].header + s[n + 1].excerpt
      BY <1>2, <3>1 DEF IsLengths, N
    <3>3. g[n + 1] = g[n] + (IF n + 1 = 1 THEN 0 ELSE 2) + t[n + 1].header + t[n + 1].excerpt
      BY <1>1, <1>3, <3>1 DEF IsLengths
    <3> QED BY <2>2, <3>1, <3>2, <3>3
  <2>3. 0 .. N \subseteq S
    <3> HIDE DEF S, N
    <3> QED BY <1>1, <2>1, <2>2, UpTo
  <2> QED BY <1>1, <2>3
<1>5. g[N + 1] = g[N] + (IF N + 1 = 1 THEN 0 ELSE 2) + x.header + x.excerpt
  <2>1. N + 1 \in 1 .. Len(t) /\ (N + 1) - 1 = N
    BY <1>1
  <2> HIDE DEF t, N
  <2> QED BY <1>1, <1>3, <2>1 DEF IsLengths
<1>6. N + 1 = 1 <=> s = <<>>
  BY <1>1 DEF Measured
<1>7. f[N] \in Int
  BY <1>1, <1>2 DEF IsLengths
<1> HIDE DEF t, N
<1> QED BY <1>2, <1>3, <1>4, <1>5, <1>6, <1>7 DEF t

-----------------------------------------------------------------------------
(* The inductive invariant of a job's sources, and what its operators      *)
(* return.                                                                 *)

Budgeting == stage = "admit"

\* A section brings its own document.
BindingInv ==
  stage # "submit" /\ asked.binding.section # None
    => asked.binding.document = DocumentOf[asked.binding.section]

\* The rows are the owner's, each section once; the bound section comes first;
\* those of the first query are of the bound document.
RowsInv ==
  /\ \A k \in DOMAIN retrieved : OwnerOf[DocumentOf[retrieved[k].section]] = User
  /\ \A j, k \in DOMAIN retrieved :
       j # k => retrieved[j].section # retrieved[k].section
  /\ \A k \in DOMAIN retrieved :
       retrieved[k].section = asked.binding.section => k = 1 /\ retrieved[k].bound
  /\ stage = "other" =>
       \A k \in DOMAIN retrieved :
         DocumentOf[retrieved[k].section] = asked.binding.document

\* What is still empty before a stage, or empty after it.
StagesInv ==
  /\ stage \in {"submit", "bound"} => retrieved = <<>>
  /\ ~Budgeting => pending = {} /\ sources = <<>> /\ remaining = MaxChars /\ dropped = 0

\* Every candidate with text is waiting, shown or counted as dropped.
CountInv ==
  Budgeting =>
    /\ pending \subseteq DOMAIN Candidates
    /\ Len(sources) + dropped + Cardinality(pending \cap WithText) = Cardinality(WithText)

\* What is rendered and what is left are the budget.
RenderedInv ==
  /\ RenderedLength(sources) + remaining = MaxChars
  /\ \A k \in DOMAIN sources : sources[k].id = k

\* What still waits comes after what was admitted and shows no section again;
\* once a source is admitted the bound section does not wait.
PendingInv ==
  \A k \in DOMAIN sources, p \in pending :
    /\ Rank(sources[k].group) <= Rank(Candidates[p].group)
    /\ Candidates[p].group # "connector" =>
         /\ Candidates[p].ref # sources[k].ref
         /\ Candidates[p].ref # asked.binding.section

SourcesInv ==
  /\ SourcesTypes /\ BindingInv /\ RowsInv /\ StagesInv
  /\ CountInv /\ RenderedInv /\ PendingInv
  /\ SourcesDistinct

Rows == [section : Sections, text : Texts, bound : BOOLEAN]

\* A user's document is the one that was bound, also when its section is gone.
LEMMA BoundDocumentIsBound ==
  ASSUME SourcesTypes, BindingInv, stage # "submit"
  PROVE  BoundDocument = asked.binding.document
<1>1. /\ asked.binding.section \in Sections \cup {None}
      /\ asked.binding.section \in Sections => DocumentOf[asked.binding.section] # None
  BY SourcesAssumption DEF SourcesTypes, Documents
<1> QED BY <1>1 DEF BindingInv, BoundDocument

\* LIMIT keeps the first rows, as they are.
LEMMA LimitedFacts ==
  ASSUME NEW R, NEW rows \in Seq(R)
  PROVE  /\ Limited(rows) \in Seq(R)
         /\ Len(Limited(rows)) <= Limit /\ Len(Limited(rows)) <= Len(rows)
         /\ \A k \in DOMAIN Limited(rows) : k \in DOMAIN rows /\ Limited(rows)[k] = rows[k]
<1> DEFINE n == IF Len(rows) < Limit THEN Len(rows) ELSE Limit
<1>1. n \in Nat /\ n <= Limit /\ n <= Len(rows)
  BY SourcesAssumption
<1>2. Limited(rows) = SubSeq(rows, 1, n)
  BY DEF Limited
<1> HIDE DEF n
<1>3. /\ SubSeq(rows, 1, n) \in Seq(R) /\ Len(SubSeq(rows, 1, n)) = n
      /\ \A k \in 1 .. n : SubSeq(rows, 1, n)[k] = rows[k]
      /\ DOMAIN SubSeq(rows, 1, n) = 1 .. n /\ 1 .. n \subseteq DOMAIN rows
  BY <1>1
<1> QED BY <1>1, <1>2, <1>3

\* An order lists each of the sections once.
LEMMA OrdersFacts ==
  ASSUME NEW found, found \subseteq Sections, NEW order \in Orders(found)
  PROVE  /\ order \in Seq(found)
         /\ \A j, k \in DOMAIN order : j # k => order[j] # order[k]
<1>1. Cardinality(found) \in Nat
  BY SourcesAssumption, FS_Subset, FS_CardinalityType
<1>2. order \in [1 .. Cardinality(found) -> found] /\ IsInjective(order)
  BY DEF Orders, Bijection, Injection
<1> QED BY <1>1, <1>2 DEF IsInjective

\* The rows of a query in an order.
LEMMA RowsFacts ==
  ASSUME SourcesTypes, NEW found, found \subseteq Owned, NEW order \in Orders(found),
         NEW rows, rows = [k \in DOMAIN order |-> rows[k]],
         \A k \in DOMAIN order :
           \E inBound \in BOOLEAN : rows[k] = Row(order[k], inBound)
  PROVE  /\ rows \in Seq(Rows) /\ DOMAIN rows = DOMAIN order
         /\ \A k \in DOMAIN rows : rows[k].section = order[k]
         /\ \A k \in DOMAIN rows : rows[k].section \in found
         /\ \A j, k \in DOMAIN rows : j # k => rows[j].section # rows[k].section
<1>1. found \subseteq Sections
  BY DEF Owned
<1>2. /\ order \in Seq(found)
      /\ \A j, k \in DOMAIN order : j # k => order[j] # order[k]
  BY <1>1, OrdersFacts
<1>3. ASSUME NEW k \in DOMAIN order
      PROVE  /\ order[k] \in found /\ rows[k] \in Rows
             /\ rows[k].section = order[k]
  <2>1. order[k] \in found
    BY <1>2
  <2>2. order[k] \in Sections /\ sections[order[k]] \in Texts
    BY <2>1 DEF Owned, SourcesTypes
  <2>3. PICK inBound \in BOOLEAN : rows[k] = Row(order[k], inBound)
    OBVIOUS
  <2> QED BY <2>1, <2>2, <2>3 DEF Row, Rows
<1>4. rows \in Seq(Rows) /\ DOMAIN rows = DOMAIN order
  BY <1>2, <1>3
<1>5. \A j, k \in DOMAIN rows : j # k => rows[j].section # rows[k].section
  BY <1>2, <1>3, <1>4
<1> QED BY <1>3, <1>4, <1>5

\* The groups have an order of their own.
LEMMA RankFacts ==
  /\ \A group \in Groups : Rank(group) \in 0 .. 2
  /\ Rank("bound-document") = 0
BY DEF Groups, Rank

\* Each candidate is a row or a chunk.
LEMMA CandidatesFacts ==
  ASSUME SourcesTypes, stage # "submit"
  PROVE  /\ Candidates \in Seq([group : Groups, ref : Sections \cup {None}, text : Nat])
         /\ \A k \in DOMAIN Candidates :
              /\ k \in Nat \ {0} /\ Candidates[k].group \in Groups
              /\ Candidates[k].ref \in Sections \cup {None}
              /\ Candidates[k].text \in Nat
         /\ \A k \in DOMAIN Candidates : Candidates[k].group # "connector" =>
              /\ k \in DOMAIN retrieved
              /\ Candidates[k].ref = retrieved[k].section
              /\ Candidates[k].ref \in Sections
              /\ retrieved[k].bound => Candidates[k].group = "bound-document"
         /\ \A k \in DOMAIN Candidates : Candidates[k].group = "connector" =>
              Candidates[k].ref = None
<1> DEFINE C == [group : Groups, ref : Sections \cup {None}, text : Nat]
           R == Len(retrieved)
           M == Len(asked.context)
<1>1. retrieved \in Seq(Rows) /\ asked.context \in Seq(Nat) /\ R \in Nat /\ M \in Nat
  BY SourcesAssumption DEF SourcesTypes, Rows
<1>2. DOMAIN Candidates = 1 .. R + M
  BY DEF Candidates
<1>3. ASSUME NEW k \in 1 .. R + M, k <= R
      PROVE  /\ Candidates[k] = SectionCandidate(retrieved[k])
             /\ k \in DOMAIN retrieved /\ Candidates[k] \in C
             /\ Candidates[k].group # "connector" /\ Candidates[k].ref = retrieved[k].section
             /\ Candidates[k].ref \in Sections
             /\ retrieved[k].bound => Candidates[k].group = "bound-document"
  <2>1. Candidates[k] = SectionCandidate(retrieved[k])
    BY <1>3 DEF Candidates
  <2>2. k \in DOMAIN retrieved /\ retrieved[k] \in Rows
    BY <1>1, <1>3
  <2>3. retrieved[k].section \in Sections /\ retrieved[k].text \in Nat
    BY <2>2, SourcesAssumption DEF Rows
  <2> QED BY <2>1, <2>2, <2>3 DEF SectionCandidate, Groups
<1>4. ASSUME NEW k \in 1 .. R + M, k > R
      PROVE  /\ Candidates[k] \in C
             /\ Candidates[k].group = "connector" /\ Candidates[k].ref = None
  <2>1. Candidates[k] = ConnectorCandidate(asked.context[k - R])
    BY <1>1, <1>4 DEF Candidates
  <2>2. asked.context[k - R] \in Nat
    BY <1>1, <1>4
  <2> QED BY <2>1, <2>2 DEF ConnectorCandidate, Groups
<1>5. Candidates \in Seq(C)
  <2>1. Candidates \in [1 .. R + M -> C]
    <3>1. \A k \in 1 .. R + M : Candidates[k] \in C
      BY <1>1, <1>3, <1>4
    <3> HIDE DEF C
    <3> QED BY <3>1 DEF Candidates
  <2>2. R + M \in Nat
    BY <1>1
  <2> HIDE DEF C, R, M
  <2> QED BY <2>1, <2>2
<1>6. ASSUME NEW k \in DOMAIN Candidates
      PROVE  /\ k \in Nat \ {0} /\ Candidates[k].group \in Groups
             /\ Candidates[k].ref \in Sections \cup {None}
             /\ Candidates[k].text \in Nat
  <2>1. k \in 1 .. R + M /\ (k <= R \/ k > R)
    <3> HIDE DEF R, M
    <3> QED BY <1>1, <1>2, <1>6
  <2>2. Candidates[k] \in C
    <3> HIDE DEF C, R, M
    <3> QED BY <1>3, <1>4, <2>1
  <2>3. k \in Nat \ {0}
    <3> HIDE DEF R, M
    <3> QED BY <1>1, <2>1
  <2> QED
    <3> HIDE DEF R, M
    <3> QED BY <2>2, <2>3
<1>7. ASSUME NEW k \in DOMAIN Candidates
      PROVE  \/ k \in 1 .. R + M /\ k <= R
             \/ k \in 1 .. R + M /\ k > R
  <2> HIDE DEF R, M
  <2> QED BY <1>1, <1>2, <1>7
<1>8. \A k \in DOMAIN Candidates : Candidates[k].group # "connector" =>
        /\ k \in DOMAIN retrieved
        /\ Candidates[k].ref = retrieved[k].section
        /\ Candidates[k].ref \in Sections
        /\ retrieved[k].bound => Candidates[k].group = "bound-document"
  <2> HIDE DEF C, R, M
  <2> QED BY <1>3, <1>4, <1>7
<1>9. \A k \in DOMAIN Candidates : Candidates[k].group = "connector" =>
        Candidates[k].ref = None
  <2> HIDE DEF C, R, M
  <2> QED BY <1>3, <1>4, <1>7
<1> QED BY <1>5, <1>6, <1>8, <1>9

\* A text is cut to at most the length allowed, and never to nothing.
LEMMA CutFacts ==
  ASSUME NEW length \in Nat, NEW max \in Nat, NEW cut \in CutAtBoundary(length, max)
  PROVE  /\ cut \in Nat
         /\ length > 0 => cut \in 1 .. max
BY DEF CutAtBoundary

\* The candidates something is left of are finitely many.
LEMMA WithTextFinite ==
  ASSUME SourcesTypes, stage # "submit"
  PROVE  IsFiniteSet(WithText)
<1>1. Candidates \in Seq([group : Groups, ref : Sections \cup {None}, text : Nat])
  BY CandidatesFacts
<1>2. Len(Candidates) \in Nat /\ DOMAIN Candidates = 1 .. Len(Candidates)
  BY <1>1
<1>3. IsFiniteSet(DOMAIN Candidates)
  BY <1>2, FS_Interval
<1> QED BY <1>3, FS_Subset DEF WithText

-----------------------------------------------------------------------------
(* Submission and retrieval keep it.                                       *)

\* While nothing is admitted, what is said of the sources says nothing.
LEMMA NothingAdmitted ==
  ASSUME sources' = <<>>, remaining' = MaxChars
  PROVE  RenderedInv' /\ PendingInv' /\ SourcesDistinct'
<1>1. DOMAIN sources' = {} /\ FromSections' = {}
  BY DEF FromSections
<1>2. RenderedLength(sources') = 0
  BY RenderedEmpty
<1>3. MaxChars \in Int
  BY SourcesAssumption
<1> QED
  BY <1>1, <1>2, <1>3 DEF RenderedInv, PendingInv, SourcesDistinct

\* A job that is being submitted has nothing yet.
LEMMA SourcesInitially == SourcesInit => SourcesInv
<1> SUFFICES ASSUME SourcesInit PROVE SourcesInv
  OBVIOUS
<1> USE DEF SourcesInit
<1>1. SourcesTypes
  <2>1. sections \in [Sections -> Texts \cup {None}]
    BY SourcesAssumption
  <2>2. edits \in 0 .. MaxEdits /\ remaining \in 0 .. MaxChars /\ Len(retrieved) <= Limit
    BY SourcesAssumption
  <2>3. /\ stage = "submit" /\ pending \subseteq Nat /\ dropped \in Nat
        /\ retrieved = <<>> /\ sources = <<>>
    OBVIOUS
  <2> QED BY <2>1, <2>2, <2>3 DEF SourcesTypes
<1>2. BindingInv /\ RowsInv /\ StagesInv /\ CountInv
  BY DEF BindingInv, RowsInv, StagesInv, CountInv, Budgeting
<1>3. RenderedInv /\ PendingInv
  BY RenderedEmpty, SourcesAssumption DEF RenderedInv, PendingInv
<1>4. SourcesDistinct
  BY DEF SourcesDistinct, FromSections
<1> QED BY <1>1, <1>2, <1>3, <1>4 DEF SourcesInv

\* Submitting: a section brings its own document (resolveAndValidateBinding).
LEMMA SubmitKeeps ==
  ASSUME SourcesInv, Submit
  PROVE  SourcesInv'
<1>1. /\ stage = "submit" /\ stage' = "bound"
      /\ UNCHANGED <<sections, edits, retrieved, pending, sources, remaining, dropped>>
  BY DEF Submit, world, budget
<1>2. SourcesTypes /\ StagesInv
  BY DEF SourcesInv
<1>3. /\ sources' = <<>> /\ pending' = {} /\ remaining' = MaxChars /\ dropped' = 0
      /\ retrieved' = <<>>
  BY <1>1, <1>2 DEF StagesInv, Budgeting
<1>4. PICK document \in Documents \cup {None}, section \in Sections \cup {None},
           context \in Contexts :
        asked' = [binding |-> ResolveBinding(document, section), context |-> context]
  BY DEF Submit
<1>5. /\ ResolveBinding(document, section) \in
           [document : Documents \cup {None}, section : Sections \cup {None}]
      /\ ResolveBinding(document, section).section = section
      /\ section # None =>
           ResolveBinding(document, section).document = DocumentOf[section]
  BY DEF ResolveBinding, Documents
<1>6. SourcesTypes'
  BY <1>1, <1>2, <1>4, <1>5 DEF SourcesTypes
<1>7. BindingInv'
  BY <1>4, <1>5 DEF BindingInv
<1>8. RowsInv' /\ StagesInv' /\ CountInv'
  BY <1>1, <1>3 DEF RowsInv, StagesInv, CountInv, Budgeting
<1> QED BY <1>3, <1>6, <1>7, <1>8, NothingAdmitted DEF SourcesInv

\* The first query finds the owner's sections of the bound document.
LEMMA SearchBoundKeeps ==
  ASSUME SourcesInv, SearchBound
  PROVE  SourcesInv'
<1>1. /\ stage = "bound" /\ stage' = "other"
      /\ UNCHANGED <<sections, edits, asked, pending, sources, remaining, dropped>>
  BY DEF SearchBound, world, budget
<1>2. SourcesTypes /\ BindingInv /\ StagesInv
  BY DEF SourcesInv
<1>3. /\ sources' = <<>> /\ pending' = {} /\ remaining' = MaxChars /\ dropped' = 0
  BY <1>1, <1>2 DEF StagesInv, Budgeting
<1> DEFINE found == {s \in Owned : DocumentOf[s] = BoundDocument}
<1>4. PICK matching \in SUBSET found, order \in Orders(found) :
        /\ \A j, k \in DOMAIN order : j < k => order[k] # asked.binding.section
        /\ retrieved' = Limited([k \in DOMAIN order |->
                                   Row(order[k], TRUE)])
  BY DEF SearchBound
<1> DEFINE rows == [k \in DOMAIN order |-> Row(order[k], TRUE)]
<1>5. /\ rows \in Seq(Rows) /\ DOMAIN rows = DOMAIN order
      /\ \A k \in DOMAIN rows :
           rows[k].section = order[k] /\ rows[k].bound /\ rows[k].section \in found
      /\ \A j, k \in DOMAIN rows : j # k => rows[j].section # rows[k].section
  <2>1. found \subseteq Owned
    OBVIOUS
  <2> HIDE DEF found
  <2>2. /\ rows = [k \in DOMAIN order |-> rows[k]]
        /\ \A k \in DOMAIN order :
             /\ rows[k].bound
             /\ \E inBound \in BOOLEAN : rows[k] = Row(order[k], inBound)
    <3>1. ASSUME NEW k \in DOMAIN order
          PROVE  /\ rows[k].bound
                 /\ \E inBound \in BOOLEAN : rows[k] = Row(order[k], inBound)
      <4>1. rows[k] = Row(order[k], TRUE)
        OBVIOUS
      <4> HIDE DEF rows
      <4>2. rows[k].bound
        BY <4>1 DEF Row
      <4> QED BY <4>1, <4>2
    <3> QED BY <3>1
  <2> HIDE DEF rows
  <2> QED BY <1>2, <2>1, <2>2, RowsFacts
<1> HIDE DEF rows
<1>6. /\ retrieved' \in Seq(Rows) /\ Len(retrieved') <= Limit
      /\ \A k \in DOMAIN retrieved' : k \in DOMAIN rows /\ retrieved'[k] = rows[k]
  <2>1. retrieved' = Limited(rows)
    BY <1>4 DEF rows
  <2> QED BY <1>5, <2>1, LimitedFacts
<1>7. SourcesTypes'
  BY <1>1, <1>2, <1>6 DEF SourcesTypes, Rows
<1>8. RowsInv'
  <2>1. ASSUME NEW k \in DOMAIN retrieved'
        PROVE  /\ OwnerOf[DocumentOf[retrieved'[k].section]] = User
               /\ DocumentOf[retrieved'[k].section] = asked'.binding.document
               /\ retrieved'[k].section = asked'.binding.section
                    => k = 1 /\ retrieved'[k].bound
    <3>1. k \in DOMAIN rows /\ retrieved'[k] = rows[k]
      BY <1>6
    <3>2. rows[k].section \in found
      BY <1>5, <3>1
    <3>3. DocumentOf[rows[k].section] = asked.binding.document
      BY <1>1, <1>2, <3>2, BoundDocumentIsBound
    <3>4. OwnerOf[DocumentOf[rows[k].section]] = User
      BY <3>2 DEF Owned
    <3>5. ASSUME rows[k].section = asked.binding.section PROVE k = 1 /\ rows[k].bound
      <4>1. k \in DOMAIN order /\ 1 \in DOMAIN order /\ k \in Nat /\ k >= 1
        BY <1>5, <3>1
      <4>2. ~(1 < k)
        BY <1>4, <1>5, <3>1, <3>5, <4>1
      <4> QED BY <1>5, <3>1, <4>1, <4>2
    <3> QED BY <1>1, <3>1, <3>3, <3>4, <3>5
  <2>2. \A j, k \in DOMAIN retrieved' :
          j # k => retrieved'[j].section # retrieved'[k].section
    BY <1>5, <1>6
  <2> QED BY <2>1, <2>2 DEF RowsInv
<1>9. BindingInv' /\ StagesInv' /\ CountInv'
  BY <1>1, <1>2, <1>3 DEF BindingInv, StagesInv, CountInv, Budgeting
<1> QED BY <1>3, <1>7, <1>8, <1>9, NothingAdmitted DEF SourcesInv

\* The second query finds sections of the owner's other documents, so none that
\* the first one found, and not the bound one.
LEMMA SearchOtherKeeps ==
  ASSUME SourcesInv, SearchOther
  PROVE  SourcesInv'
<1>1. /\ stage = "other" /\ stage' = "budget"
      /\ UNCHANGED <<sections, edits, asked, pending, sources, remaining, dropped>>
  BY DEF SearchOther, world, budget
<1>2. SourcesTypes /\ BindingInv /\ StagesInv /\ RowsInv
  BY DEF SourcesInv
<1>3. /\ sources' = <<>> /\ pending' = {} /\ remaining' = MaxChars /\ dropped' = 0
  BY <1>1, <1>2 DEF StagesInv, Budgeting
<1>4. PICK matching \in SUBSET {s \in Owned : DocumentOf[s] # BoundDocument} :
        \E order \in Orders(matching) :
          retrieved' = Limited(retrieved \o
             Limited([k \in DOMAIN order |-> Row(order[k], FALSE)]))
  BY DEF SearchOther
<1>5. PICK order \in Orders(matching) :
        retrieved' = Limited(retrieved \o
           Limited([k \in DOMAIN order |-> Row(order[k], FALSE)]))
  BY <1>4
<1> DEFINE rows == [k \in DOMAIN order |-> Row(order[k], FALSE)]
           other == Limited(rows)
<1>6. /\ rows \in Seq(Rows)
      /\ \A k \in DOMAIN rows : rows[k].section \in matching
      /\ \A j, k \in DOMAIN rows : j # k => rows[j].section # rows[k].section
  <2>1. matching \subseteq Owned
    OBVIOUS
  <2>2. /\ rows = [k \in DOMAIN order |-> rows[k]]
        /\ \A k \in DOMAIN order :
             \E inBound \in BOOLEAN : rows[k] = Row(order[k], inBound)
    OBVIOUS
  <2> HIDE DEF rows
  <2> QED BY <1>2, <2>1, <2>2, RowsFacts
<1> HIDE DEF rows
<1>7. /\ other \in Seq(Rows)
      /\ \A k \in DOMAIN other : k \in DOMAIN rows /\ other[k] = rows[k]
  BY <1>6, LimitedFacts
<1>8. /\ \A k \in DOMAIN other : other[k].section \in matching
      /\ \A j, k \in DOMAIN other : j # k => other[j].section # other[k].section
  BY <1>6, <1>7
<1>9. retrieved' = Limited(retrieved \o other) /\ retrieved \in Seq(Rows)
  BY <1>2, <1>5 DEF rows, SourcesTypes, Rows
<1> HIDE DEF other
<1> DEFINE all == retrieved \o other
           R == Len(retrieved)
<1>10. /\ all \in Seq(Rows) /\ Len(all) = R + Len(other) /\ R \in Nat /\ Len(other) \in Nat
       /\ \A k \in DOMAIN all :
            \/ k \in DOMAIN retrieved /\ all[k] = retrieved[k]
            \/ k > R /\ k - R \in DOMAIN other /\ all[k] = other[k - R]
  BY <1>7, <1>9
<1>11. /\ retrieved' \in Seq(Rows) /\ Len(retrieved') <= Limit
       /\ \A k \in DOMAIN retrieved' : k \in DOMAIN all /\ retrieved'[k] = all[k]
  BY <1>9, <1>10, LimitedFacts
<1>12. SourcesTypes'
  BY <1>1, <1>2, <1>11 DEF SourcesTypes, Rows
<1>13. ASSUME NEW s \in matching
       PROVE  /\ s \in Sections /\ OwnerOf[DocumentOf[s]] = User
              /\ DocumentOf[s] # asked.binding.document /\ s # asked.binding.section
  <2>1. s \in Owned /\ DocumentOf[s] # asked.binding.document
    BY <1>1, <1>2, <1>4, BoundDocumentIsBound
  <2>2. s \in Sections /\ s # None
    BY <2>1, SourcesAssumption DEF Owned
  <2> QED BY <1>1, <1>2, <2>1, <2>2 DEF Owned, BindingInv
<1> HIDE DEF all, R
<1>14. ASSUME NEW k \in DOMAIN all
       PROVE  /\ OwnerOf[DocumentOf[all[k].section]] = User
              /\ all[k].section = asked.binding.section => k = 1 /\ all[k].bound
  <2>1. CASE k \in DOMAIN retrieved /\ all[k] = retrieved[k]
    BY <1>2, <2>1 DEF RowsInv
  <2>2. CASE k - R \in DOMAIN other /\ all[k] = other[k - R]
    BY <1>8, <1>13, <2>2
  <2> QED BY <1>10, <2>1, <2>2
<1>15. ASSUME NEW j \in DOMAIN all, NEW k \in DOMAIN all, j # k
       PROVE  all[j].section # all[k].section
  <2>1. CASE /\ j \in DOMAIN retrieved /\ all[j] = retrieved[j]
             /\ k \in DOMAIN retrieved /\ all[k] = retrieved[k]
    BY <1>2, <1>15, <2>1 DEF RowsInv
  <2>2. \A i \in DOMAIN retrieved : \A s \in matching : retrieved[i].section # s
    BY <1>1, <1>2, <1>13 DEF RowsInv
  <2>3. CASE /\ j \in DOMAIN retrieved /\ all[j] = retrieved[j]
             /\ k - R \in DOMAIN other /\ all[k] = other[k - R]
    BY <1>8, <2>2, <2>3
  <2>4. CASE /\ k \in DOMAIN retrieved /\ all[k] = retrieved[k]
             /\ j - R \in DOMAIN other /\ all[j] = other[j - R]
    BY <1>8, <2>2, <2>4
  <2>5. CASE /\ j - R \in DOMAIN other /\ all[j] = other[j - R]
             /\ k - R \in DOMAIN other /\ all[k] = other[k - R]
    <3>1. j \in Int /\ k \in Int /\ R \in Int
      BY <1>10
    <3>2. j - R # k - R
      BY <1>15, <3>1
    <3> QED BY <1>8, <2>5, <3>2
  <2> QED BY <1>10, <2>1, <2>3, <2>4, <2>5
<1>16. RowsInv'
  <2>1. \A k \in DOMAIN retrieved' :
          /\ OwnerOf[DocumentOf[retrieved'[k].section]] = User
          /\ retrieved'[k].section = asked.binding.section => k = 1 /\ retrieved'[k].bound
    BY <1>11, <1>14
  <2>2. \A j, k \in DOMAIN retrieved' :
          j # k => retrieved'[j].section # retrieved'[k].section
    BY <1>11, <1>15
  <2> QED BY <1>1, <2>1, <2>2 DEF RowsInv
<1>17. BindingInv' /\ StagesInv' /\ CountInv'
  BY <1>1, <1>2, <1>3 DEF BindingInv, StagesInv, CountInv, Budgeting
<1> QED BY <1>3, <1>12, <1>16, <1>17, NothingAdmitted DEF SourcesInv

\* Without sections there is nothing to keep.
LEMMA RetrievalFailsKeeps ==
  ASSUME SourcesInv, RetrievalFails
  PROVE  SourcesInv'
<1>1. /\ stage \in {"bound", "other"} /\ stage' = "budget" /\ retrieved' = <<>>
      /\ UNCHANGED <<sections, edits, asked, pending, sources, remaining, dropped>>
  BY DEF RetrievalFails, world, budget
<1>2. SourcesTypes /\ BindingInv /\ StagesInv
  BY DEF SourcesInv
<1>3. /\ sources' = <<>> /\ pending' = {} /\ remaining' = MaxChars /\ dropped' = 0
  BY <1>1, <1>2 DEF StagesInv, Budgeting
<1>4. SourcesTypes'
  BY <1>1, <1>2, SourcesAssumption DEF SourcesTypes
<1>5. RowsInv' /\ BindingInv' /\ StagesInv' /\ CountInv'
  BY <1>1, <1>2, <1>3 DEF RowsInv, BindingInv, StagesInv, CountInv, Budgeting
<1> QED BY <1>3, <1>4, <1>5, NothingAdmitted DEF SourcesInv

\* An edit changes no row that was read.
LEMMA EditKeeps ==
  ASSUME SourcesInv, Edit
  PROVE  SourcesInv'
<1>1. /\ stage \in {"submit", "bound", "other"}
      /\ UNCHANGED <<asked, stage, retrieved, pending, sources, remaining, dropped>>
  BY DEF Edit, budget
<1>2. SourcesTypes /\ BindingInv /\ RowsInv /\ StagesInv
  BY DEF SourcesInv
<1>3. /\ sources' = <<>> /\ pending' = {} /\ remaining' = MaxChars /\ dropped' = 0
  BY <1>1, <1>2 DEF StagesInv, Budgeting
<1>4. PICK s \in Sections, text \in Texts \cup {None} :
        /\ edits < MaxEdits /\ edits' = edits + 1
        /\ sections' = [sections EXCEPT ![s] = text]
  BY DEF Edit
<1>5. sections' \in [Sections -> Texts \cup {None}] /\ edits' \in 0 .. MaxEdits
  BY <1>2, <1>4, SourcesAssumption DEF SourcesTypes
<1>6. SourcesTypes'
  BY <1>1, <1>2, <1>5 DEF SourcesTypes
<1>7. RowsInv' /\ BindingInv' /\ StagesInv' /\ CountInv'
  BY <1>1, <1>2, <1>3 DEF RowsInv, BindingInv, StagesInv, CountInv, Budgeting
<1> QED BY <1>3, <1>6, <1>7, NothingAdmitted DEF SourcesInv

-----------------------------------------------------------------------------
(* Preparing the candidates and admitting them.                            *)

\* The candidates are those of the rows and of the job.
LEMMA CandidatesStay ==
  ASSUME UNCHANGED <<asked, retrieved>>
  PROVE  Candidates' = Candidates /\ WithText' = WithText
BY DEF Candidates, WithText

\* All candidates wait at first.
LEMMA PrepareKeeps ==
  ASSUME SourcesInv, Prepare
  PROVE  SourcesInv'
<1>1. /\ stage = "budget" /\ stage' = "admit"
      /\ pending' = DOMAIN Candidates
      /\ UNCHANGED <<sections, edits, asked, retrieved, sources, remaining, dropped>>
  BY DEF Prepare, world
<1>2. SourcesTypes /\ BindingInv /\ RowsInv /\ StagesInv
  BY DEF SourcesInv
<1>3. /\ sources' = <<>> /\ remaining' = MaxChars /\ dropped' = 0
  BY <1>1, <1>2 DEF StagesInv, Budgeting
<1>4. Candidates' = Candidates /\ WithText' = WithText
  BY <1>1, CandidatesStay
<1>5. pending' \subseteq Nat
  <2>1. Candidates \in Seq([group : Groups, ref : Sections \cup {None}, text : Nat])
    BY <1>1, <1>2, CandidatesFacts
  <2> QED BY <1>1, <2>1
<1>6. SourcesTypes'
  BY <1>1, <1>2, <1>5 DEF SourcesTypes
<1>7. RowsInv' /\ BindingInv' /\ StagesInv'
  BY <1>1, <1>2, <1>3 DEF RowsInv, BindingInv, StagesInv, Budgeting
<1>8. CountInv'
  <2>1. pending' \cap WithText = WithText
    BY <1>1 DEF WithText
  <2>2. Cardinality(WithText) \in Nat
    BY <1>1, <1>2, WithTextFinite, FS_CardinalityType
  <2>3. Len(sources') = 0 /\ dropped' = 0
    BY <1>3
  <2>4. Len(sources') + dropped' + Cardinality(pending' \cap WithText')
          = Cardinality(WithText')
    <3>1. pending' \cap WithText' = WithText /\ WithText' = WithText
      BY <1>4, <2>1
    <3>2. Cardinality(pending' \cap WithText') = Cardinality(WithText')
      BY <3>1, Zenon
    <3>3. Cardinality(WithText') \in Nat
      BY <2>2, <3>1, Zenon
    <3> QED BY <2>3, <3>2, <3>3
  <2>5. pending' \subseteq DOMAIN Candidates'
    BY <1>1, <1>4
  <2> QED BY <2>4, <2>5 DEF CountInv
<1> QED BY <1>3, <1>6, <1>7, <1>8, NothingAdmitted DEF SourcesInv

\* Taking one candidate with text away leaves one fewer.
LEMMA OneFewer ==
  ASSUME SourcesTypes, stage # "submit", NEW k, k \in pending, k \in WithText
  PROVE  /\ Cardinality(pending \cap WithText) \in Nat
         /\ Cardinality((pending \ {k}) \cap WithText)
              = Cardinality(pending \cap WithText) - 1
<1> DEFINE W == pending \cap WithText
<1>1. IsFiniteSet(W)
  BY WithTextFinite, FS_Subset
<1>2. k \in W /\ W \ {k} = (pending \ {k}) \cap WithText
  OBVIOUS
<1> HIDE DEF W
<1>3. Cardinality(W \ {k}) = Cardinality(W) - 1 /\ Cardinality(W) \in Nat
  BY <1>1, <1>2, FS_RemoveElement, FS_CardinalityType
<1> QED BY <1>2, <1>3 DEF W

\* What every outcome for a candidate leaves as it is.
LEMMA AdmitFrame ==
  ASSUME SourcesInv, NEW k \in pending, stage = "admit", pending' = pending \ {k},
         UNCHANGED <<sections, edits, asked, stage, retrieved>>
  PROVE  /\ stage # "submit" /\ k \in DOMAIN Candidates
         /\ Candidates' = Candidates /\ WithText' = WithText
         /\ BindingInv' /\ RowsInv' /\ StagesInv'
         /\ pending' \subseteq Nat
<1>1. SourcesTypes /\ BindingInv /\ RowsInv /\ StagesInv /\ CountInv
  BY DEF SourcesInv
<1>2. Candidates' = Candidates /\ WithText' = WithText
  BY CandidatesStay
<1>3. BindingInv' /\ RowsInv' /\ StagesInv'
  BY <1>1 DEF BindingInv, RowsInv, StagesInv, Budgeting
<1>4. k \in DOMAIN Candidates
  BY <1>1 DEF CountInv, Budgeting
<1> QED BY <1>1, <1>2, <1>3, <1>4 DEF SourcesTypes

\* A candidate redaction emptied, or dropped: the sources stay as they are.
LEMMA SkipKeeps ==
  ASSUME SourcesInv, NEW k \in pending, stage = "admit", pending' = pending \ {k},
         UNCHANGED <<sections, edits, asked, stage, retrieved>>,
         UNCHANGED <<sources, remaining>>,
         \/ Candidates[k].text = 0 /\ dropped' = dropped
         \/ Candidates[k].text > 0 /\ dropped' = dropped + 1
  PROVE  SourcesInv'
<1>1. /\ SourcesTypes /\ CountInv /\ RenderedInv /\ PendingInv /\ SourcesDistinct
      /\ Budgeting
  BY DEF SourcesInv, Budgeting
<1>2. /\ stage # "submit" /\ k \in DOMAIN Candidates
      /\ Candidates' = Candidates /\ WithText' = WithText
      /\ BindingInv' /\ RowsInv' /\ StagesInv' /\ pending' \subseteq Nat
  BY AdmitFrame
<1>3. SourcesTypes'
  BY <1>1, <1>2 DEF SourcesTypes
<1>4. CountInv'
  <2>1. pending' \subseteq DOMAIN Candidates
    BY <1>1 DEF CountInv
  <2>2. /\ Len(sources) + dropped + Cardinality(pending \cap WithText)
             = Cardinality(WithText)
        /\ Len(sources) \in Nat /\ dropped \in Nat
    BY <1>1 DEF CountInv, SourcesTypes
  <2>3. CASE Candidates[k].text = 0 /\ dropped' = dropped
    <3>1. pending' \cap WithText = pending \cap WithText
      BY <2>3 DEF WithText
    <3> QED BY <1>2, <2>1, <2>2, <2>3, <3>1 DEF CountInv
  <2>4. CASE Candidates[k].text > 0 /\ dropped' = dropped + 1
    <3>1. k \in WithText
      BY <1>2, <2>1, <2>4 DEF WithText
    <3>2. /\ Cardinality(pending \cap WithText) \in Nat
          /\ Cardinality(pending' \cap WithText) = Cardinality(pending \cap WithText) - 1
      BY <1>1, <1>2, <3>1, OneFewer
    <3> QED BY <1>2, <2>1, <2>2, <2>4, <3>2 DEF CountInv
  <2> QED BY <2>3, <2>4
<1>5. RenderedInv'
  BY <1>1 DEF RenderedInv
<1>6. PendingInv'
  BY <1>1, <1>2 DEF PendingInv
<1>7. SourcesDistinct'
  BY <1>1 DEF SourcesDistinct, FromSections
<1> QED BY <1>2, <1>3, <1>4, <1>5, <1>6, <1>7 DEF SourcesInv

\* A candidate that is admitted: the sources grow by it.
LEMMA GrowKeeps ==
  ASSUME SourcesInv, NEW k \in pending, stage = "admit", pending' = pending \ {k},
         \A j \in pending \ {k} : Before(k, j),
         UNCHANGED <<sections, edits, asked, stage, retrieved, dropped>>,
         Candidates[k].text > 0,
         NEW header \in Headers,
         NEW room, room = remaining - Separator(Len(sources) + 1) - header,
         room >= AtMost(MinExcerpt, Candidates[k].text),
         NEW excerpt \in CutAtBoundary(Candidates[k].text, AtMost(MaxExcerpt, room)),
         sources' = Append(sources,
           [id |-> Len(sources) + 1, group |-> Candidates[k].group,
            ref |-> Candidates[k].ref, header |-> header, excerpt |-> excerpt]),
         remaining' = room - excerpt
  PROVE  SourcesInv'
<1> DEFINE N == Len(sources)
           c == Candidates[k]
           source == [id |-> N + 1, group |-> c.group, ref |-> c.ref,
                      header |-> header, excerpt |-> excerpt]
           Shown == [id : Nat, group : Groups, ref : Sections \cup {None},
                     header : Nat, excerpt : 1..MaxExcerpt]
<1>1. /\ SourcesTypes /\ RowsInv /\ CountInv /\ RenderedInv /\ PendingInv
      /\ SourcesDistinct /\ Budgeting
  BY DEF SourcesInv, Budgeting
<1>2. /\ stage # "submit" /\ k \in DOMAIN Candidates
      /\ Candidates' = Candidates /\ WithText' = WithText
      /\ BindingInv' /\ RowsInv' /\ StagesInv' /\ pending' \subseteq Nat
  BY AdmitFrame
<1>3. /\ \A i \in DOMAIN Candidates : i \in Nat \ {0} /\ Candidates[i].group \in Groups
      /\ \A i \in DOMAIN Candidates : Candidates[i].group # "connector" =>
           /\ i \in DOMAIN retrieved
           /\ Candidates[i].ref = retrieved[i].section
           /\ Candidates[i].ref \in Sections
           /\ retrieved[i].bound => Candidates[i].group = "bound-document"
      /\ \A i \in DOMAIN Candidates : Candidates[i].group = "connector" =>
           Candidates[i].ref = None
  BY <1>1, <1>2, CandidatesFacts
<1>4. /\ c.group \in Groups /\ c.ref \in Sections \cup {None}
      /\ c.text \in Nat
  BY <1>1, <1>2, CandidatesFacts
<1>5. /\ sources \in Seq(Shown) /\ N \in Nat /\ DOMAIN sources = 1 .. N
      /\ remaining \in 0 .. MaxChars
  BY <1>1 DEF SourcesTypes
<1>6. header \in Nat
  BY SourcesAssumption
<1>7. /\ excerpt \in 1 .. MaxExcerpt /\ excerpt <= room
      /\ room = remaining - Separator(N + 1) - header
      /\ room \in Int
  <2>1. room = remaining - Separator(N + 1) - header /\ room \in Int
    BY <1>5, <1>6 DEF Separator
  <2>2. room >= 1
    BY <1>4, <2>1, SourcesAssumption DEF AtMost
  <2>3. AtMost(MaxExcerpt, room) \in 1 .. MaxExcerpt /\ AtMost(MaxExcerpt, room) <= room
    BY <2>1, <2>2, SourcesAssumption DEF AtMost
  <2>4. excerpt \in 1 .. AtMost(MaxExcerpt, room)
    <3>1. c.text \in Nat /\ c.text > 0 /\ AtMost(MaxExcerpt, room) \in Nat
      BY <1>4, <2>3
    <3> QED BY <3>1, CutFacts
  <2> QED BY <2>1, <2>3, <2>4, SourcesAssumption
<1>8. source \in Shown
  <2> HIDE DEF c
  <2> QED BY <1>4, <1>5, <1>6, <1>7
<1>9. sources' = Append(sources, source)
  OBVIOUS
<1>10. /\ source.id = N + 1 /\ source.group = c.group /\ source.ref = c.ref
       /\ source.header = header /\ source.excerpt = excerpt
  OBVIOUS
<1> HIDE DEF source, Shown, c
<1>11. /\ sources' \in Seq(Shown) /\ Len(sources') = N + 1 /\ DOMAIN sources' = 1 .. N + 1
       /\ sources'[N + 1] = source /\ \A i \in 1 .. N : sources'[i] = sources[i]
  BY <1>5, <1>8, <1>9
<1>12. SourcesTypes'
  <2>1. remaining' \in 0 .. MaxChars
    <3>1. Separator(N + 1) \in Nat
      BY <1>5 DEF Separator
    <3>2. remaining' \in Int /\ remaining' >= 0 /\ remaining' <= remaining
      <4> HIDE DEF N
      <4> QED BY <1>5, <1>6, <1>7, <3>1
    <3> QED BY <1>5, <3>2, SourcesAssumption
  <2> QED BY <1>1, <1>2, <1>11, <2>1 DEF SourcesTypes, Shown
<1>13. CountInv'
  <2>1. pending' \subseteq DOMAIN Candidates
    BY <1>1 DEF CountInv
  <2>2. /\ N + dropped + Cardinality(pending \cap WithText) = Cardinality(WithText)
        /\ dropped \in Nat
    BY <1>1 DEF CountInv, SourcesTypes
  <2>3. k \in WithText
    BY <1>2, <2>1 DEF WithText, c
  <2>4. /\ Cardinality(pending \cap WithText) \in Nat
        /\ Cardinality(pending' \cap WithText) = Cardinality(pending \cap WithText) - 1
    BY <1>1, <1>2, <2>3, OneFewer
  <2> HIDE DEF N
  <2>5. Len(sources') + dropped' + Cardinality(pending' \cap WithText)
          = Cardinality(WithText)
    <3>1. \A d, x, w \in Nat : N + d + x = w => N + 1 + d + (x - 1) = w
      BY <1>5
    <3>2. Cardinality(WithText) \in Nat
      BY <1>5, <2>2, <2>4
    <3> QED BY <1>11, <2>2, <2>4, <3>1, <3>2
  <2>6. pending' \subseteq DOMAIN Candidates' /\ WithText' = WithText
    BY <1>2, <2>1
  <2> QED BY <2>5, <2>6 DEF CountInv
<1>14. RenderedInv'
  <2>1. Measured(sources) /\ Measured(sources')
    <3>1. ASSUME NEW s \in Seq(Shown) PROVE Measured(s)
      <4>1. s \in Seq(Range(s))
        BY DEF Range
      <4>2. ASSUME NEW n \in DOMAIN s PROVE s[n].header \in Int /\ s[n].excerpt \in Int
        <5>1. s[n] \in Shown
          OBVIOUS
        <5> QED BY <5>1, SourcesAssumption DEF Shown
      <4> QED BY <4>1, <4>2 DEF Measured
    <3> QED BY <1>5, <1>11, <3>1
  <2>2. /\ RenderedLength(sources) \in Int
        /\ RenderedLength(sources')
             = RenderedLength(sources) + (IF sources = <<>> THEN 0 ELSE 2)
                 + source.header + source.excerpt
    BY <1>9, <2>1, RenderedAppend
  <2>3. Separator(N + 1) = IF sources = <<>> THEN 0 ELSE 2
    BY <1>5 DEF Separator
  <2>4. RenderedLength(sources') + remaining' = MaxChars
    <3>1. RenderedLength(sources) + remaining = MaxChars
      BY <1>1 DEF RenderedInv
    <3> DEFINE sep == Separator(N + 1)
    <3>2. /\ header \in Int /\ sep \in Int /\ remaining \in Int /\ excerpt \in Int
          /\ MaxChars \in Int /\ room = remaining - sep - header /\ room \in Int
      BY <1>5, <1>6, <1>7, <2>3, SourcesAssumption
    <3>3. RenderedLength(sources') = RenderedLength(sources) + sep + header + excerpt
      BY <1>10, <2>2, <2>3
    <3>4. remaining' = room - excerpt
      OBVIOUS
    <3> HIDE DEF sep
    <3> QED BY <2>2, <3>1, <3>2, <3>3, <3>4
  <2>5. \A i \in DOMAIN sources' : sources'[i].id = i
    <3>1. \A i \in 1 .. N : sources[i].id = i
      BY <1>1, <1>5 DEF RenderedInv
    <3> HIDE DEF N
    <3> QED BY <1>5, <1>10, <1>11, <3>1
  <2> QED BY <2>4, <2>5 DEF RenderedInv
<1>15. ASSUME c.group # "connector"
       PROVE  /\ k \in DOMAIN retrieved /\ c.ref = retrieved[k].section
              /\ c.ref \in Sections /\ OwnerOf[DocumentOf[c.ref]] = User
  <2>1. k \in DOMAIN retrieved /\ c.ref = retrieved[k].section
    BY <1>2, <1>3, <1>15 DEF c
  <2>2. c.ref \in Sections
    BY <1>2, <1>3, <1>15 DEF c
  <2> QED BY <1>1, <2>1, <2>2 DEF RowsInv
<1>16. SourcesDistinct'
  <2>1. FromSections' = {i \in 1 .. N + 1 : sources'[i].group # "connector"}
    BY <1>11 DEF FromSections
  <2>2. FromSections = {i \in 1 .. N : sources[i].group # "connector"}
    BY <1>5 DEF FromSections
  <2>3. ASSUME NEW i \in 1 .. N + 1, i # N + 1
        PROVE  /\ i \in 1 .. N /\ sources'[i] = sources[i]
               /\ i \in FromSections' => i \in FromSections
               /\ i < N + 1
    BY <1>5, <1>11, <2>1, <2>2, <2>3
  <2>4. \A i \in FromSections' : OwnerOf[DocumentOf[sources'[i].ref]] = User
    <3>1. ASSUME NEW i \in FromSections' PROVE OwnerOf[DocumentOf[sources'[i].ref]] = User
      <4>1. CASE i = N + 1
        BY <1>10, <1>11, <1>15, <2>1, <4>1
      <4>2. CASE i # N + 1
        BY <1>1, <2>1, <2>3, <4>2 DEF SourcesDistinct
      <4> QED BY <4>1, <4>2
    <3> QED BY <3>1
  <2>5. ASSUME N + 1 \in FromSections', NEW i \in 1 .. N
        PROVE  sources[i].ref # c.ref /\ c.ref # asked.binding.section
    <3>1. c.group # "connector"
      BY <1>10, <1>11, <2>1, <2>5
    <3> QED BY <1>1, <1>5, <3>1 DEF PendingInv, c
  <2>6. ASSUME NEW i \in FromSections', NEW j \in FromSections', i # j
        PROVE  sources'[i].ref # sources'[j].ref
    <3>1. CASE i = N + 1
      BY <1>10, <1>11, <2>1, <2>3, <2>5, <2>6, <3>1
    <3>2. CASE j = N + 1
      BY <1>10, <1>11, <2>1, <2>3, <2>5, <2>6, <3>2
    <3>3. CASE i # N + 1 /\ j # N + 1
      BY <1>1, <2>1, <2>3, <2>6, <3>3 DEF SourcesDistinct
    <3> QED BY <3>1, <3>2, <3>3
  <2>7. ASSUME NEW i \in 1 .. N + 1, NEW j \in 1 .. N + 1, i < j
        PROVE  /\ Rank(sources'[i].group) <= Rank(sources'[j].group)
               /\ j \in FromSections' => sources'[j].ref # asked.binding.section
    <3>1. i \in 1 .. N /\ sources'[i] = sources[i]
      BY <1>5, <1>11, <2>7
    <3>2. CASE j = N + 1
      <4>1. Rank(sources[i].group) <= Rank(c.group)
        BY <1>1, <1>5, <3>1 DEF PendingInv, c
      <4> QED BY <1>10, <1>11, <2>5, <3>1, <3>2, <4>1
    <3>3. CASE j # N + 1
      BY <1>1, <1>5, <2>3, <2>7, <3>1, <3>3 DEF SourcesDistinct
    <3> QED BY <3>2, <3>3
  <2>8. DOMAIN sources' = 1 .. N + 1 /\ asked' = asked
    BY <1>11
  <2>9. \A i, j \in DOMAIN sources' : i < j =>
          /\ Rank(sources'[i].group) <= Rank(sources'[j].group)
          /\ j \in FromSections' => sources'[j].ref # asked'.binding.section
    BY <2>7, <2>8
  <2>10. \A i, j \in FromSections' : i # j => sources'[i].ref # sources'[j].ref
    BY <2>6
  <2> QED BY <2>4, <2>9, <2>10 DEF SourcesDistinct
<1>17. PendingInv'
  <2>1. ASSUME NEW p \in pending'
        PROVE  /\ p \in pending /\ p # k /\ p \in DOMAIN Candidates /\ p \in Nat
               /\ Candidates[p].group \in Groups
               /\ Rank(c.group) <= Rank(Candidates[p].group)
               /\ Rank(c.group) = Rank(Candidates[p].group) => k < p
    <3>1. p \in pending /\ p # k /\ p \in DOMAIN Candidates
      BY <1>1 DEF CountInv
    <3>2. Candidates[p].group \in Groups /\ p \in Nat /\ k \in Nat
      BY <1>2, <1>3, <3>1
    <3>3. Rank(Candidates[p].group) \in Int /\ Rank(c.group) \in Int
      BY <1>4, <3>2, RankFacts
    <3>4. Before(k, p)
      BY <3>1
    <3> QED BY <3>1, <3>2, <3>3, <3>4 DEF Before, c
  <2>2. ASSUME NEW p \in pending', Candidates[p].group # "connector"
        PROVE  Candidates[p].ref # c.ref /\ Candidates[p].ref # asked.binding.section
    <3>1. /\ p \in DOMAIN retrieved /\ Candidates[p].ref = retrieved[p].section
          /\ retrieved[p].bound => Candidates[p].group = "bound-document"
      BY <1>3, <2>1, <2>2
    <3>2. retrieved[p].section \in Sections
      BY <1>3, <2>1, <2>2
    <3>3. Candidates[p].ref # c.ref
      <4>1. CASE c.group = "connector"
        BY <1>2, <1>3, <3>1, <3>2, <4>1, SourcesAssumption DEF c
      <4>2. CASE c.group # "connector"
        BY <1>1, <1>15, <2>1, <3>1, <4>2 DEF RowsInv
      <4> QED BY <4>1, <4>2
    <3>4. ASSUME Candidates[p].ref = asked.binding.section PROVE FALSE
      <4>1. p = 1 /\ Candidates[p].group = "bound-document"
        BY <1>1, <3>1, <3>4 DEF RowsInv
      <4>2. Rank(Candidates[p].group) = 0 /\ Rank(c.group) \in 0 .. 2
        BY <1>4, <4>1, RankFacts
      <4>3. k < 1
        BY <2>1, <4>1, <4>2
      <4>4. k \in Nat \ {0}
        BY <1>2, <1>3
      <4> QED BY <4>3, <4>4
    <3> QED BY <3>3, <3>4
  <2>3. ASSUME NEW i \in 1 .. N + 1, NEW p \in pending'
        PROVE  /\ Rank(sources'[i].group) <= Rank(Candidates[p].group)
               /\ Candidates[p].group # "connector" =>
                    /\ Candidates[p].ref # sources'[i].ref
                    /\ Candidates[p].ref # asked.binding.section
    <3>1. CASE i = N + 1
      BY <1>10, <1>11, <2>1, <2>2, <3>1
    <3>2. CASE i # N + 1
      <4>1. i \in 1 .. N /\ sources'[i] = sources[i]
        BY <1>5, <1>11, <3>2
      <4> QED BY <1>1, <1>5, <2>1, <4>1 DEF PendingInv
    <3> QED BY <3>1, <3>2
  <2>4. DOMAIN sources' = 1 .. N + 1 /\ asked' = asked /\ Candidates' = Candidates
    BY <1>2, <1>11
  <2> QED BY <2>3, <2>4 DEF PendingInv, Rank
<1> QED BY <1>2, <1>12, <1>13, <1>14, <1>16, <1>17 DEF SourcesInv

-----------------------------------------------------------------------------
(* Every step, and the theorems.                                           *)

\* One candidate of the budget, whatever becomes of it (budgetSources).
LEMMA AdmitKeeps ==
  ASSUME SourcesInv, Admit
  PROVE  SourcesInv'
<1>1. PICK k \in pending :
        /\ stage = "admit"
        /\ \A j \in pending \ {k} : Before(k, j)
        /\ \/ /\ Candidates[k].text = 0
              /\ UNCHANGED <<sources, remaining, dropped>>
           \/ /\ Candidates[k].text > 0
              /\ \E header \in Headers : Budget(Candidates[k], Len(sources) + 1, header)
        /\ pending' = pending \ {k}
        /\ UNCHANGED <<sections, edits, asked, stage, retrieved>>
  BY DEF Admit, world
<1>2. CASE /\ Candidates[k].text = 0
           /\ UNCHANGED <<sources, remaining, dropped>>
  BY <1>1, <1>2, SkipKeeps
<1>3. CASE /\ Candidates[k].text > 0
           /\ \E header \in Headers : Budget(Candidates[k], Len(sources) + 1, header)
  <2>1. PICK header \in Headers : Budget(Candidates[k], Len(sources) + 1, header)
    BY <1>3
  <2> DEFINE room == remaining - Separator(Len(sources) + 1) - header
  <2>2. CASE dropped' = dropped + 1 /\ UNCHANGED <<sources, remaining>>
    BY <1>1, <1>3, <2>2, SkipKeeps
  <2>3. CASE /\ room >= AtMost(MinExcerpt, Candidates[k].text)
             /\ \E excerpt \in CutAtBoundary(Candidates[k].text, AtMost(MaxExcerpt, room)) :
                  /\ sources' = Append(sources,
                       [id |-> Len(sources) + 1, group |-> Candidates[k].group,
                        ref |-> Candidates[k].ref, header |-> header,
                        excerpt |-> excerpt])
                  /\ remaining' = room - excerpt
             /\ UNCHANGED dropped
    <3> HIDE DEF room
    <3> QED BY <1>1, <1>3, <2>3, GrowKeeps DEF room
  <2> QED BY <2>1, <2>2, <2>3 DEF Budget
<1> QED BY <1>1, <1>2, <1>3

\* Nothing changes.
LEMMA SourcesStutter ==
  ASSUME SourcesInv, UNCHANGED sourcesVars
  PROVE  SourcesInv'
<1>1. UNCHANGED <<sections, edits, asked, stage, retrieved, pending, sources,
                  remaining, dropped>>
  BY DEF sourcesVars
<1>2. /\ SourcesTypes /\ BindingInv /\ RowsInv /\ StagesInv /\ CountInv /\ RenderedInv
      /\ PendingInv /\ SourcesDistinct
  BY DEF SourcesInv
<1>3. Candidates' = Candidates /\ WithText' = WithText
  BY <1>1, CandidatesStay
<1>4. SourcesTypes' /\ BindingInv' /\ RowsInv' /\ StagesInv'
  BY <1>1, <1>2 DEF SourcesTypes, BindingInv, RowsInv, StagesInv, Budgeting
<1>5. CountInv' /\ RenderedInv' /\ PendingInv'
  BY <1>1, <1>2, <1>3 DEF CountInv, Budgeting, RenderedInv, PendingInv
<1>6. SourcesDistinct'
  BY <1>1, <1>2 DEF SourcesDistinct, FromSections
<1> QED BY <1>4, <1>5, <1>6 DEF SourcesInv

\* Every step of a job keeps the invariant.
LEMMA SourcesStep == SourcesInv /\ [SourcesNext]_sourcesVars => SourcesInv'
<1> SUFFICES ASSUME SourcesInv, [SourcesNext]_sourcesVars PROVE SourcesInv'
  OBVIOUS
<1>1. CASE UNCHANGED sourcesVars
  BY <1>1, SourcesStutter
<1>2. CASE Submit
  BY <1>2, SubmitKeeps
<1>3. CASE SearchBound \/ SearchOther \/ RetrievalFails
  BY <1>3, SearchBoundKeeps, SearchOtherKeeps, RetrievalFailsKeeps
<1>4. CASE Edit
  BY <1>4, EditKeeps
<1>5. CASE Prepare \/ Admit
  BY <1>5, PrepareKeeps, AdmitKeeps
<1> QED BY <1>1, <1>2, <1>3, <1>4, <1>5 DEF SourcesNext

\* The invariant holds throughout.
LEMMA SourcesAlways == SourcesSpec => []SourcesInv
BY SourcesInitially, SourcesStep, PTL DEF SourcesSpec

\* Whatever a job retrieves and however long its texts: what is rendered fits
\* the budget of characters to the last one, and every candidate with text is
\* shown or counted as dropped (budgetSources).
THEOREM BudgetAlwaysHolds == SourcesSpec => []BudgetHolds
<1>1. SourcesInv => BudgetHolds
  <2> SUFFICES ASSUME SourcesInv PROVE BudgetHolds
    OBVIOUS
  <2>1. SourcesTypes /\ StagesInv /\ CountInv /\ RenderedInv
    BY DEF SourcesInv
  <2>2. ASSUME stage = "admit", pending = {}
        PROVE  Len(sources) + dropped = Cardinality(WithText)
    <3>1. pending \cap WithText = {}
      BY <2>2
    <3>2. Cardinality(pending \cap WithText) = 0
      BY <3>1, FS_EmptySet
    <3>3. Len(sources) + dropped \in Nat
      BY <2>1 DEF SourcesTypes
    <3> QED BY <2>1, <2>2, <3>2, <3>3 DEF CountInv, Budgeting
  <2> QED BY <2>1, <2>2 DEF BudgetHolds, RenderedInv
<1> QED BY <1>1, SourcesAlways, PTL

\* However many sections and chunks a job finds, and whatever is edited or
\* deleted meanwhile: each section is shown once, it is the owner's, and the
\* sources keep their order (search, orderCandidates).
THEOREM SourcesAreDistinct == SourcesSpec => []SourcesDistinct
<1>1. SourcesInv => SourcesDistinct
  BY DEF SourcesInv
<1> QED BY <1>1, SourcesAlways, PTL
=============================================================================
