-------------------------- MODULE PlanningTransport --------------------------
(***************************************************************************)
(* One planning job, from the submission to its end, on the RabbitMQ       *)
(* transport or, when RABBITMQ_URL is not set, on the legacy path.         *)
(* Everything below runs in one API process, as callbacks that await       *)
(* MongoDB, Redis or the broker and interleave at every await:             *)
(*                                                                         *)
(*  - the request handler that creates the job and enqueues it             *)
(*    (SubmitPlanningJobUseCase);                                          *)
(*  - the deliveries of the BullMQ job to a worker (PlanningProcessor and  *)
(*    ProcessPlanningJobUseCase).  BullMQ hands the job out again when a   *)
(*    delivery throws or stalls, and a stalled delivery goes on running;   *)
(*  - the consumer of ctx.gather.results (ContextResultsConsumer and       *)
(*    HandleContextResultChunkUseCase);                                    *)
(*  - the delayed gather-timeout job (GatherTimeoutProcessor).             *)
(*                                                                         *)
(* External: the context engine, the broker, BullMQ, the user's account.   *)
(* An action is what runs from one await to the next.                      *)
(***************************************************************************)
EXTENDS PlanningJobStore

CONSTANTS
  Deliveries,     \* hand-outs of the BullMQ job: its attempts and its stalls
  Consumer,       \* the one consumer of ctx.gather.results
  TimerAttempts,  \* `attempts' of the gather-timeout job
  Prefetch,       \* unacknowledged messages the broker lets the consumer hold
  LostReplies,    \* calls ("enqueue", "publish") that may fail after they took effect
  MaxChunks,      \* bound: chunks the context engine sends
  MaxDuplicates,  \* bound: messages delivered twice
  MaxFaults       \* bound: failed calls, stalls and crashes

ASSUME RunnersAssumption == Consumer \notin Deliveries

ASSUME BoundsAssumption ==
  /\ TimerAttempts \in Nat \ {0} /\ Prefetch \in Nat \ {0}
  /\ LostReplies \subseteq {"enqueue", "publish"}
  /\ MaxChunks \in Nat /\ MaxDuplicates \in Nat /\ MaxFaults \in Nat

VARIABLES
  transport,  \* RABBITMQ_URL is set: the context comes by message
  job,        \* the planning_jobs document
  active,     \* the user exists, is enabled and consents
  submit,     \* step of the request handler
  queued,     \* the BullMQ job waits for a worker
  pc,         \* step of each delivery and of the consumer
  timer,      \* the gather-timeout job
  timerTries, \* its failed attempts
  requests,   \* gather requests the broker took
  sent,       \* the kinds of the chunks the context engine sent, by sequence
  queue,      \* ctx.gather.results: sequence numbers
  chain,      \* messages handed to the consumer, in the order it handles them
  snapshot,   \* the context in the document its last append returned
  faults, duplicates

\* What a property needs to remember; no action reads it.
VARIABLES
  announced,  \* planning.completed and planning.failed as emitted; "retrying"
              \* is the planning.failed of an attempt that is tried again
  calls,      \* planner (provider) calls
  lapsed,     \* phases since whose beginning the account was never active
  unsure,     \* a call that took effect was reported as failed
  requeued,   \* chunks given back to the broker after a failure
  endedBy     \* the terminal chunk that claimed the job for planning

consumerVars == <<queue, chain, snapshot, requeued, endedBy>>
engineVars == <<transport, requests, sent>>
timerVars == <<timer, timerTries>>
historyVars == <<lapsed, unsure>>
vars == <<job, active, submit, queued, pc, timerVars, engineVars, consumerVars,
          faults, duplicates, announced, calls, historyVars>>

Runners == Deliveries \cup {Consumer}

\* A "foreign" chunk names another user than the job's.
ChunkKinds == {"data", "progress", "completed", "failed", "foreign"}

\* What a job does on behalf of its user: the request to the context engine,
\* the retrieval of the user's documents, the prompt to the provider.
Phases == {"gather", "plan", "prompt"}

\* Steps of runClaimedPlanning, run by a delivery or by the consumer; the
\* legacy path looks the prompt up first and then takes the same steps.
PlanSteps == {"lookupPrompt", "planCheck", "retrieve", "planRecheck", "planCall",
              "writeCompleted", "writePlanFailed", "writePlanInactive"}
\* Steps that end in an unconditional updateStatus(failed).
FailureWrites == {"writeInactive", "writeCheckError", "writePublishFailed",
                  "writePlanFailed", "writePlanInactive"}
TellSteps == {"tellGathering", "tellCompleted", "tellFailed"}
Steps == {"idle", "done", "claim", "check", "resolve", "claimPlan", "publish",
          "schedule", "append", "relay", "finalize"}
         \cup PlanSteps \cup FailureWrites \cup TellSteps

Running(r) == pc[r] \notin {"idle", "done"}

Goto(r, step) == pc' = [pc EXCEPT ![r] = step]

Fault == faults < MaxFaults /\ faults' = faults + 1

Enter(phase) == lapsed' = IF active THEN lapsed ELSE lapsed \cup {phase}

-----------------------------------------------------------------------------
(* SubmitPlanningJobUseCase; the guards let in active, consenting users. *)

SubmitCreate ==
  /\ submit = "idle" /\ active
  /\ job' = Create
  /\ submit' = "enqueue"
  /\ UNCHANGED <<active, queued, pc, timerVars, engineVars, consumerVars,
                 faults, duplicates, announced, calls, historyVars>>

\* A failed `add' leaves no BullMQ job behind, unless only its reply was lost.
SubmitEnqueue ==
  /\ submit = "enqueue"
  /\ \/ queued' = TRUE /\ submit' = "done" /\ UNCHANGED unsure
     \/ queued' = FALSE /\ submit' = "markFailed" /\ UNCHANGED unsure
     \/ /\ "enqueue" \in LostReplies
        /\ queued' = TRUE /\ submit' = "markFailed" /\ unsure' = TRUE
  /\ UNCHANGED <<job, active, pc, timerVars, engineVars, consumerVars,
                 faults, duplicates, announced, calls, lapsed>>

\* The update is tried once; its own failure is logged only.
SubmitMarkFailed ==
  /\ submit = "markFailed"
  /\ submit' = "done"
  /\ \/ job' = UpdateStatus(job, "failed") /\ UNCHANGED faults
     \/ Fault /\ UNCHANGED job
  /\ UNCHANGED <<active, queued, pc, timerVars, engineVars, consumerVars,
                 duplicates, announced, calls, historyVars>>

-----------------------------------------------------------------------------
(* A delivery of the BullMQ planning job *)

Deliver(d) ==
  /\ queued /\ pc[d] = "idle"
  /\ queued' = FALSE
  /\ Goto(d, "claim")
  /\ UNCHANGED <<job, active, submit, timerVars, engineVars, consumerVars,
                 faults, duplicates, announced, calls, historyVars>>

\* The worker loses the job's lock while it still runs.
Stall(d) ==
  /\ Running(d) /\ ~queued
  /\ Fault
  /\ queued' = TRUE
  /\ UNCHANGED <<job, active, submit, pc, timerVars, engineVars, consumerVars,
                 duplicates, announced, calls, historyVars>>

\* Steps of a delivery where an exception leaves the use case.
Throwing == {"claim", "lookupPrompt", "resolve", "claimPlan", "schedule",
             "writeCompleted"} \cup FailureWrites

\* PlanningProcessor announces the failure and rethrows: BullMQ tries again.
Throw(d) ==
  /\ pc[d] \in Throwing
  /\ Fault
  /\ Goto(d, "done")
  /\ queued' = TRUE
  /\ announced' = announced \cup {"retrying"}
  /\ UNCHANGED <<job, active, submit, timerVars, engineVars, consumerVars,
                 duplicates, calls, historyVars>>

\* executeLegacy: claimForProcessing.
ClaimLegacy(d) ==
  /\ pc[d] = "claim" /\ ~transport
  /\ \/ /\ CanClaimPending(job)
        /\ job' = ClaimForProcessing(job)
        /\ Goto(d, "lookupPrompt")
        /\ Enter("plan")
     \/ /\ ~CanClaimPending(job)
        /\ Goto(d, "done")
        /\ UNCHANGED <<job, lapsed>>
  /\ UNCHANGED <<active, submit, queued, timerVars, engineVars, consumerVars,
                 faults, duplicates, announced, calls, unsure>>

\* Outside the try: an exception leaves the use case.
LookupPrompt(d) ==
  /\ pc[d] = "lookupPrompt"
  /\ Goto(d, "planCheck")
  /\ UNCHANGED <<job, active, submit, queued, timerVars, engineVars,
                 consumerVars, faults, duplicates, announced, calls, historyVars>>

\* executeViaTransport: claimForGathering.
Claim(d) ==
  /\ pc[d] = "claim" /\ transport
  /\ \/ /\ CanClaimPending(job)
        /\ job' = ClaimForGathering(job)
        /\ Goto(d, "check")
        /\ Enter("gather")
     \/ /\ ~CanClaimPending(job)
        /\ Goto(d, "done")
        /\ UNCHANGED <<job, lapsed>>
  /\ UNCHANGED <<active, submit, queued, timerVars, engineVars, consumerVars,
                 faults, duplicates, announced, calls, unsure>>

\* assertJobUserActive before the gather request leaves.
CheckUser(d) ==
  /\ pc[d] = "check"
  /\ \/ active /\ Goto(d, "resolve") /\ UNCHANGED faults
     \/ ~active /\ Goto(d, "writeInactive") /\ UNCHANGED faults
     \/ Fault /\ Goto(d, "writeCheckError")
  /\ UNCHANGED <<job, active, submit, queued, timerVars, engineVars,
                 consumerVars, duplicates, announced, calls, historyVars>>

\* resolveActiveConnectorReferences: with no active connector nothing is asked.
Resolve(d) ==
  /\ pc[d] = "resolve"
  /\ \E step \in {"claimPlan", "publish"} : Goto(d, step)
  /\ UNCHANGED <<job, active, submit, queued, timerVars, engineVars,
                 consumerVars, faults, duplicates, announced, calls, historyVars>>

ClaimPlan(d) ==
  /\ pc[d] = "claimPlan"
  /\ \/ /\ StillGathering(job)
        /\ job' = ClaimForPlanning(job, {})
        /\ Goto(d, "planCheck")
        /\ Enter("plan")
     \/ /\ ~StillGathering(job)
        /\ Goto(d, "done")
        /\ UNCHANGED <<job, lapsed>>
  /\ UNCHANGED <<active, submit, queued, timerVars, engineVars, consumerVars,
                 faults, duplicates, announced, calls, unsure>>

\* Waits for the broker's confirm, for 10 seconds at most.
Publish(d) ==
  /\ pc[d] = "publish"
  /\ \/ requests' = requests + 1 /\ Goto(d, "schedule") /\ UNCHANGED unsure
     \/ Goto(d, "writePublishFailed") /\ UNCHANGED <<requests, unsure>>
     \/ /\ "publish" \in LostReplies
        /\ requests' = requests + 1 /\ Goto(d, "writePublishFailed") /\ unsure' = TRUE
  /\ UNCHANGED <<job, active, submit, queued, timerVars, transport, sent, consumerVars,
                 faults, duplicates, announced, calls, lapsed>>

Bug_ScheduleTimeout(d) ==
  /\ pc[d] = "schedule"
  /\ Goto(d, "tellGathering")
  /\ UNCHANGED <<job, active, submit, queued, timerVars, engineVars,
                 consumerVars, faults, duplicates, announced, calls, historyVars>>

\* BullMQ ignores a second job with the same id.
ScheduleTimeout(d) ==
  /\ pc[d] = "schedule"
  /\ timer' = IF timer = "off" THEN "set" ELSE timer
  /\ Goto(d, "tellGathering")
  /\ UNCHANGED <<job, active, submit, queued, timerTries, engineVars,
                 consumerVars, faults, duplicates, announced, calls, historyVars>>

\* Steps outside runClaimedPlanning that record a failure.
WriteFailure(d) ==
  /\ pc[d] \in FailureWrites \ PlanSteps
  /\ job' = UpdateStatus(job, "failed")
  /\ Goto(d, "tellFailed")
  /\ UNCHANGED <<active, submit, queued, timerVars, engineVars, consumerVars,
                 faults, duplicates, announced, calls, historyVars>>

\* Events of a processed job; planning.status `running' is left out.
Tell(d) ==
  /\ pc[d] \in TellSteps
  /\ announced' = announced \cup
       (CASE pc[d] = "tellCompleted" -> {"completed"}
          [] pc[d] = "tellFailed" -> {"failed"}
          [] OTHER -> {})
  /\ Goto(d, "done")
  /\ UNCHANGED <<job, active, submit, queued, timerVars, engineVars,
                 consumerVars, faults, duplicates, calls, historyVars>>

-----------------------------------------------------------------------------
(* runClaimedPlanning, by the runner that won claimForPlanning, and the    *)
(* same steps of executeLegacy                                             *)

\* What any step of it may catch, and where that leads.
PlanStepFails(r) ==
  \/ ~active /\ Goto(r, "writePlanInactive") /\ UNCHANGED faults
  \/ Fault /\ Goto(r, "writePlanFailed")

\* Prompt lookup (on the transport) and assertJobUserActive.
PlanCheck(r) ==
  /\ pc[r] = "planCheck"
  /\ \/ active /\ Goto(r, "retrieve") /\ UNCHANGED faults
     \/ PlanStepFails(r)
  /\ UNCHANGED <<job, active, submit, queued, timerVars, engineVars,
                 consumerVars, duplicates, announced, calls, historyVars>>

\* The legacy path's gathering, which may fail, and the retrieval of the
\* user's documents, which never does.
Retrieve(r) ==
  /\ pc[r] = "retrieve"
  /\ \/ Goto(r, "planRecheck") /\ Enter("prompt") /\ UNCHANGED faults
     \/ Fault /\ Goto(r, "writePlanFailed") /\ UNCHANGED lapsed
  /\ UNCHANGED <<job, active, submit, queued, timerVars, engineVars,
                 consumerVars, duplicates, announced, calls, unsure>>

Bug_PlanRecheck(r) ==
  /\ pc[r] = "planRecheck"
  /\ Goto(r, "planCall")
  /\ UNCHANGED <<job, active, submit, queued, timerVars, engineVars,
                 consumerVars, faults, duplicates, announced, calls, historyVars>>

\* assertJobUserActive again, right before the provider call.
PlanRecheck(r) ==
  /\ pc[r] = "planRecheck"
  /\ \/ active /\ Goto(r, "planCall") /\ UNCHANGED faults
     \/ PlanStepFails(r)
  /\ UNCHANGED <<job, active, submit, queued, timerVars, engineVars,
                 consumerVars, duplicates, announced, calls, historyVars>>

\* The provider answers, refuses, or its answer is rejected.
PlanCall(r) ==
  /\ pc[r] = "planCall"
  /\ calls' = calls + 1
  /\ \E step \in {"writeCompleted", "writePlanFailed"} : Goto(r, step)
  /\ UNCHANGED <<job, active, submit, queued, timerVars, engineVars,
                 consumerVars, faults, duplicates, announced, historyVars>>

\* The terminal write, whatever the job's status is by now.
PlanWrite(r) ==
  /\ \/ /\ pc[r] = "writeCompleted"
        /\ job' = UpdateStatus(job, "completed")
        /\ Goto(r, "tellCompleted")
     \/ /\ pc[r] \in FailureWrites \cap PlanSteps
        /\ job' = UpdateStatus(job, "failed")
        /\ Goto(r, "tellFailed")
  /\ UNCHANGED <<active, submit, queued, timerVars, engineVars, consumerVars,
                 faults, duplicates, announced, calls, historyVars>>

Plan(r) ==
  PlanCheck(r) \/ Retrieve(r) \/ PlanRecheck(r) \/ PlanCall(r) \/ PlanWrite(r)

-----------------------------------------------------------------------------
(* The consumer of ctx.gather.results.  `chain' is the job's entry of       *)
(* jobChains: its head is being handled, the others wait.                   *)

Chunk == Head(chain)

\* Without jobChains: a later message may be handled first.
Bug_Receive ==
  /\ queue # <<>> /\ Len(chain) < Prefetch
  /\ chain' = IF pc[Consumer] = "idle" THEN <<Head(queue)>> \o chain
              ELSE Append(chain, Head(queue))
  /\ queue' = Tail(queue)
  /\ UNCHANGED <<job, active, submit, queued, pc, timerVars, engineVars,
                 snapshot, requeued, endedBy, faults, duplicates, announced,
                 calls, historyVars>>

\* The broker pushes a message, within the prefetch window.
Receive ==
  /\ queue # <<>> /\ Len(chain) < Prefetch
  /\ chain' = Append(chain, Head(queue))
  /\ queue' = Tail(queue)
  /\ UNCHANGED <<job, active, submit, queued, pc, timerVars, engineVars,
                 snapshot, requeued, endedBy, faults, duplicates, announced,
                 calls, historyVars>>

Ack == chain' = Tail(chain) /\ Goto(Consumer, "idle")

\* A chunk for another user or an unknown job is rejected and not requeued, a
\* chunk for an ended job acknowledged: either way the message is gone.
Find ==
  /\ pc[Consumer] = "idle" /\ chain # <<>>
  /\ \/ (sent[Chunk] = "foreign" \/ job.status \in Terminal) /\ Ack
     \/ /\ sent[Chunk] # "foreign" /\ job.status \notin Terminal
        /\ Goto(Consumer, "append") /\ UNCHANGED chain
  /\ UNCHANGED <<job, active, submit, queued, timerVars, engineVars, queue,
                 snapshot, requeued, endedBy, faults, duplicates, announced,
                 calls, historyVars>>

AppendChunk ==
  /\ pc[Consumer] = "append"
  /\ \/ /\ CanAppend(job, Chunk)
        /\ job' = AppendResultChunk(job, Chunk, sent[Chunk] = "data")
        /\ snapshot' = AssembleContext(job')
        /\ Goto(Consumer, IF sent[Chunk] \in {"completed", "failed"}
                          THEN "finalize" ELSE "relay")
        /\ UNCHANGED chain
     \/ /\ ~CanAppend(job, Chunk)
        /\ Ack
        /\ UNCHANGED <<job, snapshot>>
  /\ UNCHANGED <<active, submit, queued, timerVars, engineVars, queue,
                 requeued, endedBy, faults, duplicates, announced, calls,
                 historyVars>>

\* finalizeCompleted and finalizeFailed, up to the compare-and-set.
Finalize ==
  /\ pc[Consumer] = "finalize"
  /\ \/ /\ StillGathering(job) /\ sent[Chunk] = "completed"
        /\ job' = ClaimForPlanning(job, snapshot)
        /\ Goto(Consumer, "planCheck")
        /\ Enter("plan")
        /\ endedBy' = Chunk
        /\ UNCHANGED chain
     \/ /\ StillGathering(job) /\ sent[Chunk] = "failed"
        /\ job' = FailIfStillGathering(job)
        /\ Goto(Consumer, "tellFailed")
        /\ UNCHANGED <<chain, lapsed, endedBy>>
     \/ /\ ~StillGathering(job)
        /\ Ack
        /\ UNCHANGED <<job, lapsed, endedBy>>
  /\ UNCHANGED <<active, submit, queued, timerVars, engineVars, queue,
                 snapshot, requeued, faults, duplicates, announced, calls,
                 unsure>>

\* The relay of the chunk or of the job's end, then the acknowledgement.
Relay ==
  /\ pc[Consumer] \in TellSteps \cup {"relay"}
  /\ announced' = announced \cup
       (CASE pc[Consumer] = "tellCompleted" -> {"completed"}
          [] pc[Consumer] = "tellFailed" -> {"failed"}
          [] OTHER -> {})
  /\ Ack
  /\ UNCHANGED <<job, active, submit, queued, timerVars, engineVars, queue,
                 snapshot, requeued, endedBy, faults, duplicates, calls,
                 historyVars>>

\* A failed call gives the message back to the broker, which redelivers it.
Requeue ==
  /\ \/ pc[Consumer] = "idle" /\ chain # <<>>
     \/ pc[Consumer] \in {"append", "finalize", "writeCompleted"}
                         \cup FailureWrites
  /\ Fault
  /\ queue' = <<Chunk>> \o queue
  /\ requeued' = requeued \cup {Chunk}
  /\ Ack
  /\ UNCHANGED <<job, active, submit, queued, timerVars, engineVars, snapshot,
                 endedBy, duplicates, announced, calls, historyVars>>

Consume == Receive \/ Find \/ AppendChunk \/ Finalize \/ Relay \/ Plan(Consumer)

-----------------------------------------------------------------------------
(* The gather-timeout job *)

Timeout ==
  /\ timer = "set"
  /\ \/ /\ StillGathering(job)
        /\ job' = FailIfStillGathering(job)
        /\ timer' = "tell"
     \/ /\ ~StillGathering(job)
        /\ timer' = "done"
        /\ UNCHANGED job
  /\ UNCHANGED <<active, submit, queued, pc, timerTries, engineVars,
                 consumerVars, faults, duplicates, announced, calls, historyVars>>

TimeoutTell ==
  /\ timer = "tell"
  /\ announced' = announced \cup {"failed"}
  /\ timer' = "done"
  /\ UNCHANGED <<job, active, submit, queued, pc, timerTries, engineVars,
                 consumerVars, faults, duplicates, calls, historyVars>>

Bug_TimeoutNeverGivesUp ==
  /\ timer = "set"
  /\ Fault
  /\ timerTries' = timerTries + 1
  /\ UNCHANGED <<job, active, submit, queued, pc, timer, engineVars,
                 consumerVars, duplicates, announced, calls, historyVars>>

\* attempts: 1.
Bug_TimeoutGivesUp ==
  /\ timer = "set"
  /\ Fault
  /\ timerTries' = timerTries + 1
  /\ timer' = "done"
  /\ UNCHANGED <<job, active, submit, queued, pc, engineVars, consumerVars,
                 duplicates, announced, calls, historyVars>>

\* BullMQ tries a failed job again until its attempts are used up.
TimeoutError ==
  /\ timer = "set"
  /\ Fault
  /\ timerTries' = timerTries + 1
  /\ timer' = IF timerTries' < TimerAttempts THEN "set" ELSE "done"
  /\ UNCHANGED <<job, active, submit, queued, pc, engineVars, consumerVars,
                 duplicates, announced, calls, historyVars>>

-----------------------------------------------------------------------------
(* The environment *)

\* The context engine answers a request with chunks of any kind, or not at
\* all; it gathers once per job_id.
EngineSend ==
  /\ requests > 0 /\ Len(sent) < MaxChunks
  /\ \E kind \in ChunkKinds : sent' = Append(sent, kind)
  /\ queue' = Append(queue, Len(sent'))
  /\ UNCHANGED <<job, active, submit, queued, pc, timerVars, transport, requests,
                 chain, snapshot, requeued, endedBy, faults, duplicates, announced,
                 calls, historyVars>>

\* A chunk is published twice, or a lost connection makes the broker deliver
\* again what the consumer, still at work on it, has not acknowledged.
Redeliver ==
  /\ duplicates < MaxDuplicates
  /\ duplicates' = duplicates + 1
  /\ \/ \E seq \in 1 .. Len(sent) : queue' = Append(queue, seq)
     \/ chain # <<>> /\ queue' = chain \o queue
  /\ UNCHANGED <<job, active, submit, queued, pc, timerVars, engineVars, chain,
                 snapshot, requeued, endedBy, faults, announced, calls,
                 historyVars>>

\* The account is disabled or deleted, or withdraws its AI consent.
Deactivate ==
  /\ active
  /\ active' = FALSE
  /\ UNCHANGED <<job, submit, queued, pc, timerVars, engineVars, consumerVars,
                 faults, duplicates, announced, calls, historyVars>>

\* The account is enabled again, or its user accepts the AI consent again.
Reactivate ==
  /\ ~active
  /\ active' = TRUE /\ lapsed' = {}
  /\ UNCHANGED <<job, submit, queued, pc, timerVars, engineVars, consumerVars,
                 faults, duplicates, announced, calls, unsure>>

\* The API process dies and comes back.  BullMQ hands out again what a worker
\* held, the broker what the consumer had not acknowledged.
Crash ==
  /\ Fault
  /\ submit' = IF submit = "idle" THEN "idle" ELSE "done"
  /\ pc' = [r \in Runners |-> IF r = Consumer THEN "idle"
                              ELSE IF Running(r) THEN "done" ELSE pc[r]]
  /\ queued' = (queued \/ \E d \in Deliveries : Running(d))
  /\ timer' = IF timer = "tell" THEN "set" ELSE timer
  /\ queue' = chain \o queue
  /\ chain' = <<>>
  /\ UNCHANGED <<job, active, timerTries, engineVars, snapshot, requeued,
                 endedBy, duplicates, announced, calls, historyVars>>

-----------------------------------------------------------------------------
Init ==
  /\ transport \in BOOLEAN
  /\ job = NoJob /\ active = TRUE
  /\ submit = "idle" /\ queued = FALSE
  /\ pc = [r \in Runners |-> "idle"]
  /\ timer = "off" /\ timerTries = 0
  /\ requests = 0 /\ sent = <<>>
  /\ queue = <<>> /\ chain = <<>> /\ snapshot = {}
  /\ requeued = {} /\ endedBy = 0
  /\ faults = 0 /\ duplicates = 0
  /\ announced = {} /\ calls = 0
  /\ lapsed = {} /\ unsure = FALSE

SubmitStep == SubmitCreate \/ SubmitEnqueue \/ SubmitMarkFailed

DeliveryStep(d) ==
  Deliver(d) \/ ClaimLegacy(d) \/ LookupPrompt(d) \/ Claim(d) \/ CheckUser(d) \/ Resolve(d)
  \/ ClaimPlan(d) \/ Publish(d) \/ ScheduleTimeout(d) \/ WriteFailure(d) \/ Tell(d) \/ Plan(d)

Next ==
  \/ SubmitStep
  \/ \E d \in Deliveries : DeliveryStep(d) \/ Stall(d) \/ Throw(d)
  \/ Consume \/ Requeue
  \/ Timeout \/ TimeoutTell \/ TimeoutError
  \/ EngineSend \/ Redeliver \/ Deactivate \/ Reactivate \/ Crash

Spec == Init /\ [][Next]_vars

\* A submitted job is enqueued and delivered, every callback goes on, and a
\* delayed job is run some time; nobody has to submit, and the context engine
\* owes no answer.
Fairness ==
  /\ WF_vars(SubmitEnqueue \/ SubmitMarkFailed)
  /\ \A d \in Deliveries : WF_vars(DeliveryStep(d))
  /\ WF_vars(Consume)
  /\ WF_vars(Timeout \/ TimeoutTell)

FairSpec == Spec /\ Fairness

-----------------------------------------------------------------------------
TypeOK ==
  /\ job \in Jobs
  /\ active \in BOOLEAN /\ queued \in BOOLEAN
  /\ submit \in {"idle", "enqueue", "markFailed", "done"}
  /\ pc \in [Runners -> Steps]
  /\ timer \in {"off", "set", "tell", "done"} /\ timerTries \in 0 .. TimerAttempts
  /\ transport \in BOOLEAN /\ requests \in Nat /\ sent \in Seq(ChunkKinds)
  /\ queue \in Seq(1 .. Len(sent)) /\ chain \in Seq(1 .. Len(sent))
  /\ snapshot \subseteq Nat
  /\ requeued \subseteq 1 .. Len(sent) /\ endedBy \in 0 .. Len(sent)
  /\ faults \in Nat /\ duplicates \in Nat
  /\ announced \subseteq {"completed", "failed", "retrying"} /\ calls \in Nat
  /\ lapsed \subseteq Phases /\ unsure \in BOOLEAN

-----------------------------------------------------------------------------
(* Safety *)

Planning(r) == pc[r] \in PlanSteps

\* However often BullMQ hands the job out, chunks are repeated, calls fail or
\* the process restarts, one runner at most is in the planning phase and the
\* provider is called once at most for the job (the claims of
\* PlanningJobMongooseRepository; also when a reply is lost).
PlannedOnce ==
  /\ calls <= 1
  /\ \A r, q \in Runners : Planning(r) /\ Planning(q) => r = q

\* The context engine gets one gather request at most for the job: a BullMQ
\* retry or a second worker never publishes again.
RequestedOnce == requests <= 1

\* Why both hold: nothing is queued before the job is created, the delivery
\* that won claimForGathering is alone until it has published, the runner that
\* won claimForPlanning or claimForProcessing is alone until it has called the
\* provider, and no status leads back to a claim.
Unsubmitted ==
  submit = "idle" =>
    /\ job.status = "absent" /\ ~queued
    /\ \A d \in Deliveries : pc[d] = "idle"

Asking(d) == pc[d] \in {"check", "resolve", "publish"}

OneAsks ==
  /\ job.status \in {"absent", "pending"} =>
       requests = 0 /\ \A d \in Deliveries : ~Asking(d)
  /\ \A d, e \in Deliveries : Asking(d) /\ Asking(e) => d = e
  /\ \A d \in Deliveries : Asking(d) => requests = 0
  /\ requests <= 1

BeforeCall(r) ==
  pc[r] \in {"lookupPrompt", "planCheck", "retrieve", "planRecheck", "planCall"}

OnePlans ==
  /\ job.status \in {"absent", "pending", "gathering"} =>
       calls = 0 /\ \A r \in Runners : ~Planning(r)
  /\ \A r, q \in Runners : Planning(r) /\ Planning(q) => r = q
  /\ \A r \in Runners : BeforeCall(r) => calls = 0
  /\ calls <= 1

ClaimsInv == Unsubmitted /\ OneAsks /\ OnePlans

\* A chunk that is repeated, redelivered or requeued is stored once
\* (appendResultChunk): the context never repeats it.
ChunkStoredOnce == IsInjective(job.data)

\* The context a terminal chunk claimed the job with holds every data chunk
\* sent before it, except those that were requeued after a failure
\* (jobChains; the exception is the limit the consumer's comment states).
ContextComplete ==
  \A seq \in 1 .. endedBy :
    sent[seq] = "data" /\ seq \notin requeued => seq \in job.ctx

\* Nothing is done for an account that has not been active at any moment since
\* that phase of the job began, however often it is disabled, enabled, and
\* consents again: no request leaves for the context engine, nothing is
\* retrieved, no prompt goes to the provider (the assertJobUserActive calls, of
\* which the last comes after the retrieval).
InactiveNotServed ==
  [][/\ requests' # requests => "gather" \notin lapsed
     /\ (\E r \in Runners : Retrieve(r)) => "plan" \notin lapsed
     /\ calls' # calls => "prompt" \notin lapsed]_vars

\* Both paths keep the promises of JobLifecycle, lost replies included.
Lifecycle == INSTANCE JobLifecycle WITH
  status <- job.status, context <- job.ctx, told <- announced

LifecycleSpec == Lifecycle!Spec

-----------------------------------------------------------------------------
(* Liveness *)

\* After a fault, nothing is under way that could still end the job: its last
\* delivery is over, the consumer is not planning, no timeout is scheduled.
Stranded ==
  /\ faults > 0
  /\ submit \in {"idle", "done"}
  /\ \A d \in Deliveries : ~Running(d) /\ (queued => pc[d] # "idle")
  /\ ~Planning(Consumer)
  /\ timer \notin {"set", "tell"}

\* An accepted job ends: by the context engine's answer, or by the timeout when
\* there is none.  Failed calls, stalls and crashes keep it from ending only by
\* leaving nobody at work on it.
AcceptedJobEnds == (job.status = "pending") ~> (job.status \in Terminal \/ Stranded)

\* Once the gather timeout is scheduled, no crash and no failed attempt short
\* of the last one leaves the job gathering.
TimeoutEndsGathering ==
  (job.status = "gathering" /\ timer = "set") ~> (job.status # "gathering")
=============================================================================
