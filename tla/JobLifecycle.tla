---------------------------- MODULE JobLifecycle ----------------------------
(***************************************************************************)
(* What a planning job promises, whoever drives it                         *)
(* (docs/contracts/context-engine.md, section 4):                          *)
(*                                                                         *)
(*   pending -> gathering -> planning -> completed                         *)
(*        \         \            \----> failed                             *)
(*                                                                         *)
(* or, on the legacy path, pending -> running -> completed or failed.      *)
(* The context engine is asked at most once, and while gathering; one      *)
(* context goes to one planner call; the job completes only after that     *)
(* call; an ended job never changes; a terminal event tells how it ended.  *)
(*                                                                         *)
(* The code keeps less than its contract in two places, both here:         *)
(*  - a failed attempt is told as a failure of the job (FailAttempt),      *)
(*    although a later attempt may complete it or has completed it;        *)
(*  - after a call that took effect was reported as failed (`unsure'), the *)
(*    job is recorded as failed while the work goes on: an ended job may   *)
(*    still change to the other end, and each end may be told.             *)
(***************************************************************************)
EXTENDS Naturals

VARIABLES
  status,    \* the stored status
  context,   \* the chunks the plan is made from
  requests,  \* gather requests sent
  calls,     \* planner calls
  told,      \* terminal events sent to the user
  unsure     \* a call that took effect was reported as failed

vars == <<status, context, requests, calls, told, unsure>>

Ends == {"completed", "failed"}

Init ==
  /\ status = "absent" /\ context = {}
  /\ requests = 0 /\ calls = 0 /\ told = {} /\ unsure = FALSE

\* The job is where the contract wants it, or has ended on a false report.
At(places) == status \in places \/ (unsure /\ status \in Ends)

Submit ==
  /\ status = "absent" /\ status' = "pending"
  /\ UNCHANGED <<context, requests, calls, told, unsure>>

\* The job is enqueued, and the enqueue reported as failed.
FalseReport ==
  /\ status = "pending" /\ unsure' = TRUE
  /\ UNCHANGED <<status, context, requests, calls, told>>

Begin ==
  /\ status = "pending" /\ status' = "gathering"
  /\ UNCHANGED <<context, requests, calls, told, unsure>>

Request ==
  /\ At({"gathering"}) /\ requests = 0
  /\ requests' = 1
  /\ unsure' \in {unsure, TRUE}
  /\ UNCHANGED <<status, context, calls, told>>

Resolve ==
  /\ status = "gathering" /\ status' = "planning"
  /\ context' \in SUBSET Nat
  /\ UNCHANGED <<requests, calls, told, unsure>>

\* The legacy path.
Run ==
  /\ status = "pending" /\ status' = "running"
  /\ UNCHANGED <<context, requests, calls, told, unsure>>

Call ==
  /\ At({"planning", "running"}) /\ calls = 0
  /\ calls' = 1
  /\ UNCHANGED <<status, context, requests, told, unsure>>

Complete ==
  /\ At({"planning", "running"}) /\ calls = 1
  /\ status' = "completed"
  /\ UNCHANGED <<context, requests, calls, told, unsure>>

Fail ==
  /\ At({"pending", "running", "gathering", "planning"})
  /\ status' = "failed"
  /\ UNCHANGED <<context, requests, calls, told, unsure>>

Tell(end) ==
  /\ At({}) \/ status = end
  /\ end = "completed" => calls = 1
  /\ told' = told \cup {end}
  /\ UNCHANGED <<status, context, requests, calls, unsure>>

FailAttempt ==
  /\ status # "absent"
  /\ told' = told \cup {"retrying"}
  /\ UNCHANGED <<status, context, requests, calls, unsure>>

Next ==
  \/ Submit \/ FalseReport \/ Begin \/ Request \/ Resolve \/ Run \/ Call
  \/ Complete \/ Fail \/ FailAttempt
  \/ \E end \in Ends : Tell(end)

Spec == Init /\ [][Next]_vars
=============================================================================
