-------------------------- MODULE PlanningJobStore --------------------------
(***************************************************************************)
(* The document of one planning job in the planning_jobs collection and    *)
(* the operations of PlanningJobMongooseRepository on it.  Each repository *)
(* method is one MongoDB command on one document, so it is atomic: a       *)
(* compare-and-set is a condition (CanXxx) with the document it leaves     *)
(* (Xxx); an update without a condition has the second part only.          *)
(*                                                                         *)
(* A result chunk is known by its sequence number.  `seqs' is the array    *)
(* chunk_sequences, used as a set by the code; `data' is data_chunks, the  *)
(* array the context is assembled from, in the order of the pushes; `ctx'  *)
(* is the set of chunks recorded in context_used.  Prompt, result, model,  *)
(* error and timestamps are carried along by the code and decide nothing.  *)
(***************************************************************************)
EXTENDS Naturals, Sequences, Functions

Statuses == {"absent", "pending", "running", "gathering", "planning",
             "completed", "failed"}

Terminal == {"completed", "failed"}

Jobs == [status : Statuses, seqs : SUBSET Nat, data : Seq(Nat), ctx : SUBSET Nat]

NoJob == [status |-> "absent", seqs |-> {}, data |-> <<>>, ctx |-> {}]

-----------------------------------------------------------------------------
(* Operations *)

Create == [NoJob EXCEPT !.status = "pending"]

UpdateStatus(j, status) == [j EXCEPT !.status = status]

Bug_CanClaimPending(j) == j.status \notin Terminal

CanClaimPending(j) == j.status = "pending"

ClaimForProcessing(j) == [j EXCEPT !.status = "running"]

ClaimForGathering(j) == [j EXCEPT !.status = "gathering"]

Bug_CanAppend(j, seq) == TRUE

CanAppend(j, seq) == seq \notin j.seqs

AppendResultChunk(j, seq, isData) ==
  [j EXCEPT !.seqs = @ \cup {seq},
            !.data = IF isData THEN Append(@, seq) ELSE @]

Bug_StillGathering(j) == j.status \in {"gathering", "planning"}

StillGathering(j) == j.status = "gathering"

ClaimForPlanning(j, context) ==
  [j EXCEPT !.status = "planning", !.ctx = context]

FailIfStillGathering(j) == [j EXCEPT !.status = "failed"]

\* HandleContextResultChunkUseCase.assembleContext, of the job it is given.
AssembleContext(j) == Range(j.data)
=============================================================================
