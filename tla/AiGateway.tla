----------------------------- MODULE AiGateway -----------------------------
(***************************************************************************)
(* Calls to the AI provider (openrouter.gateway.ts), by a process that was *)
(* started with some environment.  A call runs attempts one after the      *)
(* other; before each one its hook reserves a unit of the caller's daily   *)
(* quota in Redis.  The retries of a call, and the single repair of a      *)
(* reply that is not JSON, draw on one budget.                             *)
(*                                                                         *)
(* Suggestions call at once; a planning job is first let in against the    *)
(* caps, waits in its queue and calls later.                               *)
(*                                                                         *)
(* `sent` counts the attempts by the day their unit was reserved for.      *)
(* Deadlines are abstracted: wherever the code asks whether time is left,  *)
(* both answers are possible.                                              *)
(***************************************************************************)
EXTENDS AiQuota, Environment, FiniteSets

CONSTANTS
  Environments, \* the environments the process may be started with
  Requests,     \* the requests that may call the provider
  MaxDay,       \* bound: UTC midnights that pass
  MaxFaults     \* bound: failures of Redis

ASSUME GatewayAssumption ==
  /\ IsFiniteSet(Requests)
  /\ MaxDay \in Nat /\ MaxFaults \in Nat
  /\ \A e \in Environments : \A name \in DOMAIN e.numbers :
       e.numbers[name] \in Int \cup {Blank}

VARIABLES
  env,     \* the environment
  app,     \* the process: starting, refused, or its adapters and limits
  today,   \* the UTC day
  counts,  \* Redis: the counters of each day
  calls,   \* the provider call of each request
  sent,    \* history: attempts sent, by the day charged, of each user and of all
  faults   \* Redis failures so far

vars == <<env, app, today, counts, calls, sent, faults>>

Days == 0..MaxDay

\* How an attempt may fail.
Retryable == {"rateLimited", "serverError", "network"}
Final == {"longRateLimit", "timeout", "requestTimeout", "clientError",
          "invalidBody", "refused", "truncated"}

\* What the caller of a finished call holds: a parsed reply or a typed error.
Results == {"json", "misshapen", "RateLimited", "Unavailable", "Provider",
            "Refused", "Truncated", "QuotaExceeded", "QuotaUnavailable",
            "stubPlan"}

ErrorOf(answer) ==
  CASE answer \in {"rateLimited", "longRateLimit"} -> "RateLimited"
    [] answer \in {"serverError", "network", "timeout", "requestTimeout"}
         -> "Unavailable"
    [] answer \in {"clientError", "invalidBody", "prose"} -> "Provider"
    [] answer = "refused" -> "Refused"
    [] answer = "truncated" -> "Truncated"

NoCall ==
  [step |-> "none", user |-> "none", day |-> 0, left |-> 0,
   repairing |-> FALSE, result |-> "none"]

\* complete: a fresh retry budget; the first thing an attempt does is the hook.
Complete(u) ==
  [NoCall EXCEPT !.step = "hook", !.user = u, !.left = app.limits.retries]

\* The call ends with a result for its caller.
Ended(result) == [NoCall EXCEPT !.step = "done", !.result = result]

\* Without a key: NullSuggestionGenerator refuses, StubLlmPlanner answers.
NullGenerator == Ended("Unavailable")
StubPlan == Ended("stubPlan")

\* A parsed reply that has the shape its caller asked for, or not.
Shapes == {"json", "misshapen"}

Init ==
  /\ env \in Environments
  /\ app = [state |-> "starting"]
  /\ today = 0
  /\ counts = [d \in Days |-> NoCounts]
  /\ calls = [r \in Requests |-> NoCall]
  /\ sent = [d \in Days |-> NoCounts]
  /\ faults = 0

Running == app.state = "up"

\* bootstrap: the environment is validated first, then the modules choose
\* their adapters by it.
Boot ==
  /\ app.state = "starting"
  /\ app' = IF Accepted(env) THEN Wired(env) ELSE [state |-> "refused"]
  /\ UNCHANGED <<env, today, counts, calls, sent, faults>>

\* The calls and the quota change, the rest of the world does not.
Steady == UNCHANGED <<env, app, today>>

\* GatewaySuggestionGenerator.generate calls the gateway; without a key the
\* request ends with 503.
Generate(r) ==
  /\ Running
  /\ calls[r].step = "none"
  /\ \E u \in Users :
       calls' = [calls EXCEPT
         ![r] = IF app.generator = "gateway" THEN Complete(u)
                ELSE NullGenerator]
  /\ Steady /\ UNCHANGED <<counts, sent, faults>>

\* SubmitPlanningJobUseCase, when there is a provider, asks whether the caps
\* are spent, counting nothing, and refuses the job if they are.
SubmitPlanning(r) ==
  /\ Running
  /\ calls[r].step = "none"
  /\ \E u \in Users :
       calls' = [calls EXCEPT
         ![r] = IF app.ai /\ Spent(app.limits, counts[today], u)
                THEN Ended("QuotaExceeded")
                ELSE [@ EXCEPT !.step = "queued", !.user = u]]
  /\ Steady /\ UNCHANGED <<counts, sent, faults>>

\* The check fails with Redis: 503.
SubmitFails(r) ==
  /\ Running
  /\ calls[r].step = "none"
  /\ app.ai /\ faults < MaxFaults
  /\ faults' = faults + 1
  /\ calls' = [calls EXCEPT ![r] = Ended("QuotaUnavailable")]
  /\ Steady /\ UNCHANGED <<counts, sent>>

\* The worker takes the job up: GatewayLlmPlanner.plan calls the gateway, the
\* stub answers at once.
Plan(r) ==
  /\ calls[r].step = "queued"
  /\ calls' = [calls EXCEPT
       ![r] = IF app.planner = "gateway" THEN Complete(@.user)
              ELSE StubPlan]
  /\ Steady /\ UNCHANGED <<counts, sent, faults>>

\* The hook starts RedisAiQuota.run: the day is taken before the script runs.
Hook(r) ==
  /\ calls[r].step = "hook"
  /\ calls' = [calls EXCEPT ![r].step = "eval", ![r].day = today]
  /\ Steady /\ UNCHANGED <<counts, sent, faults>>

\* A spent cap taken for a failure worth retrying.
Bug_Eval(r) ==
  LET c == calls[r] IN
  /\ c.step = "eval"
  /\ counts' = [counts EXCEPT ![c.day] = Reserve(app.limits, @, c.user)]
  /\ calls' = [calls EXCEPT
       ![r].step = IF Spent(app.limits, counts[c.day], c.user) THEN "hook" ELSE "fetch"]
  /\ Steady /\ UNCHANGED <<sent, faults>>

\* The script runs and its answer arrives: a unit and the fetch, or a refusal
\* that the gateway passes on without a retry.
Eval(r) ==
  LET c == calls[r] IN
  /\ c.step = "eval"
  /\ counts' = [counts EXCEPT ![c.day] = Reserve(app.limits, @, c.user)]
  /\ calls' = [calls EXCEPT
       ![r] = IF Spent(app.limits, counts[c.day], c.user)
              THEN Ended("QuotaExceeded")
              ELSE [@ EXCEPT !.step = "fetch"]]
  /\ Steady /\ UNCHANGED <<sent, faults>>

\* Any Redis error refuses the attempt, whether or not the script ran.
EvalFails(r) ==
  LET c == calls[r] IN
  /\ c.step = "eval"
  /\ faults < MaxFaults
  /\ faults' = faults + 1
  /\ counts' \in {counts, [counts EXCEPT ![c.day] = Reserve(app.limits, @, c.user)]}
  /\ calls' = [calls EXCEPT ![r] = Ended("QuotaUnavailable")]
  /\ Steady /\ UNCHANGED sent

\* The connection drops after the script ran and the client sends the command
\* again (maxRetriesPerRequest 1): the step is back before the script.
EvalResent(r) ==
  LET c == calls[r] IN
  /\ c.step = "eval"
  /\ faults < MaxFaults
  /\ faults' = faults + 1
  /\ counts' = [counts EXCEPT ![c.day] = Reserve(app.limits, @, c.user)]
  /\ Steady /\ UNCHANGED <<calls, sent>>

\* The only place that talks to the provider.
Fetch(r) ==
  LET c == calls[r] IN
  /\ c.step = "fetch"
  /\ sent' = [sent EXCEPT ![c.day].user[c.user] = @ + 1, ![c.day].all = @ + 1]
  /\ calls' = [calls EXCEPT ![r].step = "wait"]
  /\ Steady /\ UNCHANGED <<counts, faults>>

\* callWithRetries after a retryable failure, with time for the wait: a 429
\* with a usable Retry-After, a 5xx, a network failure.
Retry(r) ==
  /\ calls[r].step = "wait"
  /\ calls[r].left > 0
  /\ calls' = [calls EXCEPT ![r].step = "hook", ![r].left = @ - 1]
  /\ Steady /\ UNCHANGED <<counts, sent, faults>>

\* The first reply that is not JSON is sent back for repair, if the deadline
\* has not passed; the repair keeps what is left of the retry budget.
Repair(r) ==
  /\ calls[r].step = "wait"
  /\ ~calls[r].repairing
  /\ calls' = [calls EXCEPT ![r].step = "hook", ![r].repairing = TRUE]
  /\ Steady /\ UNCHANGED <<counts, sent, faults>>

\* Every other failure, a retryable one without budget or time included, and a
\* reply that is not JSON after the repair or the deadline.
GiveUp(r) ==
  \E answer \in Retryable \cup Final \cup {"prose"} :
    /\ calls[r].step = "wait"
    /\ calls' = [calls EXCEPT ![r] = Ended(ErrorOf(answer))]
    /\ Steady /\ UNCHANGED <<counts, sent, faults>>

\* A reply that parses; whether it has the asked-for shape is for the caller.
Reply(r) ==
  \E answer \in Shapes :
    /\ calls[r].step = "wait"
    /\ calls' = [calls EXCEPT ![r] = Ended(answer)]
    /\ Steady /\ UNCHANGED <<counts, sent, faults>>

Midnight ==
  /\ Running
  /\ today < MaxDay
  /\ today' = today + 1
  /\ UNCHANGED <<env, app, counts, calls, sent, faults>>

\* Counters that end with their day, without the hour of grace.
Bug_Expire(d) ==
  /\ d < today
  /\ counts[d] # NoCounts
  /\ counts' = [counts EXCEPT ![d] = NoCounts]
  /\ Steady /\ UNCHANGED <<calls, sent, faults>>

\* A day's keys expire an hour after its end.  A script is waited for at most a
\* second, so none that was charged to that day is still under way.
Expire(d) ==
  /\ d < today
  /\ counts[d] # NoCounts
  /\ \A r \in Requests : ~(calls[r].step = "eval" /\ calls[r].day = d)
  /\ counts' = [counts EXCEPT ![d] = NoCounts]
  /\ Steady /\ UNCHANGED <<calls, sent, faults>>

Call(r) ==
  \/ Plan(r) \/ Hook(r) \/ Eval(r) \/ EvalFails(r) \/ EvalResent(r)
  \/ Fetch(r) \/ Retry(r) \/ Repair(r) \/ GiveUp(r) \/ Reply(r)

Next ==
  \/ Boot
  \/ \E r \in Requests :
       Generate(r) \/ SubmitPlanning(r) \/ SubmitFails(r) \/ Call(r)
  \/ Midnight
  \/ \E d \in Days : Expire(d)

\* A call that can go on does: Redis and the provider answer or time out, and
\* the worker takes up what was queued.
Fairness == \A r \in Requests : WF_vars(Call(r))

Spec == Init /\ [][Next]_vars /\ Fairness

-----------------------------------------------------------------------------

\* Types: counters and history are numbers, a call holds a result once done.
TypeOK ==
  /\ app.state \in {"starting", "refused", "up"}
  /\ today \in Days
  /\ {counts, sent} \subseteq [Days -> [user : [Users -> Nat], all : Nat]]
  /\ calls \in [Requests ->
       [step : {"none", "queued", "hook", "eval", "fetch", "wait", "done"},
        user : Users \cup {"none"}, day : Days, left : 0..3,
        repairing : BOOLEAN, result : Results \cup {"none"}]]
  /\ \A r \in Requests : calls[r].step = "done" <=> calls[r].result # "none"
  /\ faults \in 0..MaxFaults

\* In a well-typed state, the provider is never called more often than the
\* caps allow: of the units of one day, no user's requests together send more
\* than the configured per-user limit, nor all users' more than the global one,
\* however their retries, repairs, Redis failures, the end of the day and the
\* expiry of its counters interleave; a cap of 0, or one left empty, sends
\* nothing (QUOTA_SCRIPT, RedisAiQuota.run, OpenRouterGateway.attempt).
CapsHold ==
  /\ TypeOK
  /\ Running => \A d \in Days :
       /\ \A u \in Users : sent[d].user[u] <= app.limits.user
       /\ sent[d].all <= app.limits.all

\* A process that came up is whole.  On a deployed tier mail is really sent,
\* with links, unverified accounts are held back, browsers of other origins
\* are not served (by the sockets: if the origin is the process's own variable
\* and not one of .env), the database's certificate is checked, tokens are not
\* signed with the published secret and the API is not described in public.
\* On every tier the three parts of the queue transport are there together or
\* not at all, and the provider's quota is asked about exactly where calls
\* spend it (validate against the factories of the modules, which each read
\* the configuration for themselves).
ProcessIsWhole ==
  Running =>
    /\ Deployed(app.tier) =>
         /\ app.sender = "resend" /\ app.links /\ app.verification
         /\ app.restOrigin \notin {"*", Blank}
         /\ env.wsFrom = "process" => app.socketOrigin \notin {"*", Blank}
         /\ app.verifiesTls /\ app.secret # "placeholder" /\ ~app.swagger
    /\ app.publisher = app.scheduler /\ app.publisher = app.consumer
    /\ app.ai <=> app.planner = "gateway"
    /\ app.ai <=> app.generator = "gateway"

\* Every call ends with a result for its caller, however often the provider
\* fails or answers with something that is not JSON: retries and the repair
\* draw on a budget that runs out (OpenRouterGateway.callWithRetries).
EveryCallEnds ==
  \A r \in Requests : calls[r].step # "none" ~> calls[r].step = "done"
=============================================================================
