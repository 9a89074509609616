--------------------------- MODULE AiGateway_proofs ---------------------------
(***************************************************************************)
(* The properties of AiGateway for any users, requests, days and Redis     *)
(* failures, and for any environment the process may be started with.      *)
(*                                                                         *)
(* The counters alone do not bound what is sent: they are dropped an hour  *)
(* after their day.  The argument counts, with the attempts sent, those    *)
(* that hold a unit and are about to be sent.  While a script may still    *)
(* reserve a unit of a day, the two together are no more than the counter  *)
(* of that day; and when none may, they no longer grow.                    *)
(***************************************************************************)
EXTENDS AiGateway, FiniteSetTheorems, TLAPS

Counters == [user : [Users -> Nat], all : Nat]

\* The attempts that hold a unit of day d, of user u and of everybody.
PendingAll(d) == {r \in Requests : calls[r].step = "fetch" /\ calls[r].day = d}
Pending(d, u) == {r \in PendingAll(d) : calls[r].user = u}

\* A script that charges day d may still run.
Chargeable(d) ==
  d >= today \/ \E r \in Requests : calls[r].step = "eval" /\ calls[r].day = d

Steps == {"none", "queued", "hook", "eval", "fetch", "wait", "done"}

Calls ==
  [step : Steps, user : Users \cup {"none"}, day : Days, left : 0 .. 3,
   repairing : BOOLEAN, result : Results \cup {"none"}]

\* What a call holds at each step.
CallInv(c) ==
  /\ c \in Calls
  /\ c.step = "done" <=> c.result # "none"
  /\ c.step \in {"queued", "hook", "eval", "fetch", "wait"} => c.user \in Users

\* A process that is up was accepted and is wired by its environment; until
\* then there is no call.
AppInv ==
  /\ env \in Environments
  /\ \/ app \in {[state |-> "starting"], [state |-> "refused"]}
     \/ (Accepted(env) /\ app = Wired(env))
  /\ ~Running => calls = [r \in Requests |-> NoCall] /\ sent = [d \in Days |-> NoCounts]

\* Units spent and units held, against the caps and against the counters.
CapInv ==
  \A d \in Days :
    /\ Running => sent[d].all + Cardinality(PendingAll(d)) <= app.limits.all
    /\ Chargeable(d) => sent[d].all + Cardinality(PendingAll(d)) <= counts[d].all
    /\ \A u \in Users :
         /\ Running => sent[d].user[u] + Cardinality(Pending(d, u)) <= app.limits.user
         /\ Chargeable(d) =>
              sent[d].user[u] + Cardinality(Pending(d, u)) <= counts[d].user[u]

StateInv ==
  /\ today \in Days
  /\ counts \in [Days -> Counters]
  /\ sent \in [Days -> Counters]
  /\ calls = [r \in Requests |-> calls[r]]
  /\ \A r \in Requests : CallInv(calls[r])
  /\ faults \in 0 .. MaxFaults

GatewayInv == AppInv /\ StateInv /\ CapInv

-----------------------------------------------------------------------------
(* The environment. *)

\* A number the validation accepts is an integer of its range, whether it is
\* set, left empty or left out (validate, for the caps and the retry budget).
LEMMA AcceptedNumbers ==
  ASSUME NEW e \in Environments, Accepted(e)
  PROVE  Limits(e) \in [user : Nat, all : Nat, retries : 0 .. 3]
<1> DEFINE Name == {"AI_USER_DAILY_LIMIT", "AI_GLOBAL_DAILY_LIMIT", "OPENROUTER_MAX_RETRIES"}
<1>1. /\ Name \subseteq DOMAIN AiNumbers
      /\ Name \cap DOMAIN ConnectionNumbers = {} /\ Name \cap DOMAIN ContextNumbers = {}
  BY DEF AiNumbers, ConnectionNumbers, ContextNumbers
<1>2. Name \subseteq DOMAIN Numbers
  BY <1>1 DEF Numbers, NumberNames
<1>3. ASSUME NEW n \in Name PROVE Numbers[n] = AiNumbers[n]
  <2>1. /\ n \in NumberNames /\ n \in DOMAIN AiNumbers
        /\ n \notin DOMAIN ConnectionNumbers /\ n \notin DOMAIN ContextNumbers
    BY <1>1, <1>3 DEF NumberNames
  <2> HIDE DEF Name
  <2> QED BY <2>1 DEF Numbers
<1>4. /\ AiNumbers["AI_USER_DAILY_LIMIT"] = [lo |-> 0, hi |-> Unset, default |-> 10]
      /\ AiNumbers["AI_GLOBAL_DAILY_LIMIT"] = [lo |-> 0, hi |-> Unset, default |-> 40]
      /\ AiNumbers["OPENROUTER_MAX_RETRIES"] = [lo |-> 0, hi |-> 3, default |-> 1]
  BY DEF AiNumbers, AtLeast, Between
<1>5. \A n \in Name : InRange(e, n)
  BY <1>2 DEF Accepted, WellFormed
<1>6. \A n \in Name : NumberOf(e, n) \in Int
  <2> SUFFICES ASSUME NEW n \in Name PROVE NumberOf(e, n) \in Int
    OBVIOUS
  <2>1. Numbers[n].default \in Int
    BY <1>3, <1>4
  <2> QED BY <2>1, GatewayAssumption DEF NumberOf
<1>7. \A n \in Name : NumberOf(e, n) >= 0
  BY <1>3, <1>4, <1>5 DEF InRange
<1>8. NumberOf(e, "OPENROUTER_MAX_RETRIES") <= 3
  <2>1. Numbers["OPENROUTER_MAX_RETRIES"].hi = 3 /\ 3 # Unset
    BY <1>3, <1>4, EnvironmentAssumption
  <2> QED BY <2>1, <1>5 DEF InRange
<1> QED BY <1>6, <1>7, <1>8 DEF Limits

-----------------------------------------------------------------------------
(* The records of the model. *)

LEMMA NoCallHolds == CallInv(NoCall) /\ NoCall.step = "none"
BY GatewayAssumption DEF CallInv, Calls, NoCall, Days, Steps

LEMMA EndedHolds ==
  ASSUME NEW result \in Results
  PROVE  CallInv(Ended(result)) /\ Ended(result).step = "done"
<1>1. NoCall \in Calls /\ "none" \notin Results
  BY NoCallHolds DEF CallInv, Results
<1>2. /\ Ended(result) \in Calls
      /\ Ended(result).step = "done" /\ Ended(result).result = result
  BY <1>1 DEF Ended, Calls, Steps
<1> QED BY <1>1, <1>2 DEF CallInv

LEMMA ErrorsAreResults ==
  \A answer \in Retryable \cup Final \cup {"prose"} : ErrorOf(answer) \in Results
BY DEF ErrorOf, Results, Retryable, Final

\* complete starts with the configured budget.
LEMMA CompleteHolds ==
  ASSUME GatewayInv, Running, NEW u \in Users
  PROVE  CallInv(Complete(u)) /\ Complete(u).step = "hook"
<1>1. Accepted(env) /\ env \in Environments /\ app = Wired(env)
  BY DEF GatewayInv, AppInv, Running
<1>2. app.limits.retries \in 0 .. 3
  BY <1>1, AcceptedNumbers DEF Wired
<1>3. NoCall \in Calls /\ NoCall.result = "none"
  BY NoCallHolds DEF CallInv, NoCall
<1>4. /\ Complete(u) \in Calls
      /\ Complete(u).step = "hook" /\ Complete(u).user = u /\ Complete(u).result = "none"
  BY <1>2, <1>3 DEF Complete, Calls, Steps
<1> QED BY <1>4 DEF CallInv

\* The caps of a running process are numbers.
LEMMA LimitsAreNumbers ==
  ASSUME AppInv, Running
  PROVE  app.limits.user \in Nat /\ app.limits.all \in Nat
BY AcceptedNumbers DEF AppInv, Running, Wired

LEMMA NoCountsType == NoCounts \in Counters
BY DEF NoCounts, Counters

\* The script advances both counters by one, or leaves them at their limit.
LEMMA ReserveCounts ==
  ASSUME NEW limits, NEW count \in Counters, NEW u \in Users
  PROVE  /\ Reserve(limits, count, u) \in Counters
         /\ Reserve(limits, count, u).all >= count.all
         /\ \A v \in Users : Reserve(limits, count, u).user[v] >= count.user[v]
         /\ ~Spent(limits, count, u) =>
              /\ Reserve(limits, count, u).all = count.all + 1
              /\ Reserve(limits, count, u).user[u] = count.user[u] + 1
<1>1. CASE Spent(limits, count, u)
  BY <1>1 DEF Reserve, Counters
<1>2. CASE ~Spent(limits, count, u)
  <2>1. Reserve(limits, count, u) =
          [user |-> [count.user EXCEPT ![u] = @ + 1], all |-> count.all + 1]
    BY <1>2 DEF Reserve, Counters
  <2> QED BY <2>1 DEF Counters
<1> QED BY <1>1, <1>2

-----------------------------------------------------------------------------
(* The calls that hold a unit. *)

LEMMA PendingFinite ==
  \A d, u : /\ IsFiniteSet(PendingAll(d)) /\ IsFiniteSet(Pending(d, u))
            /\ Cardinality(PendingAll(d)) \in Nat
            /\ Cardinality(Pending(d, u)) \in Nat
<1> SUFFICES ASSUME NEW d, NEW u
    PROVE  IsFiniteSet(PendingAll(d)) /\ IsFiniteSet(Pending(d, u))
  BY FS_CardinalityType
<1>1. PendingAll(d) \subseteq Requests /\ Pending(d, u) \subseteq PendingAll(d)
  BY DEF PendingAll, Pending
<1> QED BY <1>1, FS_Subset, GatewayAssumption

\* One call changes, neither from nor into holding a unit: what is sent and held
\* stays as it is, while the counters may only grow.
LEMMA QuietCall ==
  ASSUME GatewayInv, NEW r \in Requests, NEW c, CallInv(c), Running,
         calls' = [calls EXCEPT ![r] = c],
         calls[r].step # "fetch", c.step # "fetch",
         c.step = "eval" => Chargeable(c.day),
         Steady, sent' = sent, faults' \in 0 .. MaxFaults,
         counts' \in [Days -> Counters],
         \A d \in Days : /\ counts'[d].all >= counts[d].all
                         /\ \A u \in Users : counts'[d].user[u] >= counts[d].user[u]
  PROVE  GatewayInv'
<1>1. AppInv'
  BY DEF GatewayInv, AppInv, Steady, Running
<1>2. StateInv'
  <2>1. \A q \in Requests : CallInv(calls[q])'
    BY DEF GatewayInv, StateInv, CallInv, Days
  <2> QED BY <2>1 DEF GatewayInv, StateInv, Steady
<1>3. \A d, u : PendingAll(d)' = PendingAll(d) /\ Pending(d, u)' = Pending(d, u)
  BY DEF PendingAll, Pending, GatewayInv, StateInv
<1>4. \A d \in Days : Chargeable(d)' => Chargeable(d)
  BY DEF Chargeable, GatewayInv, StateInv, Steady
<1>5. CapInv'
  <2> SUFFICES ASSUME NEW d \in Days
      PROVE  /\ Running => sent[d].all + Cardinality(PendingAll(d)) <= app.limits.all
             /\ Chargeable(d)' => sent[d].all + Cardinality(PendingAll(d)) <= counts'[d].all
             /\ \A u \in Users :
                  /\ Running => sent[d].user[u] + Cardinality(Pending(d, u)) <= app.limits.user
                  /\ Chargeable(d)' =>
                       sent[d].user[u] + Cardinality(Pending(d, u)) <= counts'[d].user[u]
    BY <1>3 DEF CapInv, Steady, Running
  <2>1. counts[d] \in Counters /\ counts'[d] \in Counters /\ sent[d] \in Counters
    BY DEF GatewayInv, StateInv
  <2>2. Chargeable(d)' => sent[d].all + Cardinality(PendingAll(d)) <= counts'[d].all
    BY <1>4, <2>1, PendingFinite DEF GatewayInv, CapInv, Counters
  <2>3. ASSUME NEW u \in Users, Chargeable(d)'
        PROVE  sent[d].user[u] + Cardinality(Pending(d, u)) <= counts'[d].user[u]
    <3>1. sent[d].user[u] + Cardinality(Pending(d, u)) <= counts[d].user[u]
      BY <1>4, <2>3 DEF GatewayInv, CapInv
    <3>2. counts'[d].user[u] >= counts[d].user[u]
      OBVIOUS
    <3> QED BY <2>1, <3>1, <3>2, PendingFinite DEF Counters
  <2> QED BY <2>2, <2>3 DEF GatewayInv, CapInv
<1> QED BY <1>1, <1>2, <1>5 DEF GatewayInv

\* A call under way belongs to a running process.
LEMMA CallsNeedTheProcess ==
  ASSUME GatewayInv, NEW r \in Requests, calls[r].step # "none"
  PROVE  Running
BY NoCallHolds DEF GatewayInv, AppInv

-----------------------------------------------------------------------------
(* The actions. *)

LEMMA InitHolds == Init => GatewayInv
<1> SUFFICES ASSUME Init PROVE GatewayInv
  OBVIOUS
<1> USE DEF Init
<1>1. AppInv
  BY DEF AppInv
<1>2. StateInv
  BY NoCallHolds, NoCountsType, GatewayAssumption DEF StateInv, Days
<1>3. \A d, u : PendingAll(d) = {} /\ Pending(d, u) = {}
  BY NoCallHolds DEF PendingAll, Pending
<1>4. CapInv
  BY <1>3, FS_EmptySet DEF CapInv, NoCounts, Running
<1> QED BY <1>1, <1>2, <1>4 DEF GatewayInv

LEMMA BootHolds == ASSUME GatewayInv, Boot PROVE GatewayInv'
<1> USE DEF Boot
<1>1. ~Running
  BY DEF Running
<1>2. calls = [r \in Requests |-> NoCall] /\ sent = [d \in Days |-> NoCounts]
  BY <1>1 DEF GatewayInv, AppInv
<1>3. AppInv'
  BY <1>2 DEF GatewayInv, AppInv
<1>4. StateInv'
  BY DEF GatewayInv, StateInv, CallInv
<1>5. \A d, u : PendingAll(d)' = {} /\ Pending(d, u)' = {}
  BY <1>2, NoCallHolds DEF PendingAll, Pending
<1>6. Running' => app'.limits.user \in Nat /\ app'.limits.all \in Nat
  BY <1>3, AcceptedNumbers DEF AppInv, Running, Wired
<1>7. CapInv'
  <2> SUFFICES ASSUME NEW d \in Days
      PROVE  /\ Running' => sent[d].all + 0 <= app'.limits.all
             /\ sent[d].all + 0 <= counts[d].all
             /\ \A u \in Users :
                  /\ Running' => sent[d].user[u] + 0 <= app'.limits.user
                  /\ sent[d].user[u] + 0 <= counts[d].user[u]
    BY <1>5, FS_EmptySet DEF CapInv
  <2>1. sent[d] = NoCounts /\ counts[d] \in Counters
    BY <1>2 DEF GatewayInv, StateInv
  <2> QED BY <2>1, <1>6 DEF NoCounts, Counters
<1> QED BY <1>3, <1>4, <1>7 DEF GatewayInv

\* A call that only moves on, the counters untouched.
LEMMA MovedCall ==
  ASSUME GatewayInv, NEW r \in Requests, NEW c, CallInv(c), Running,
         calls' = [calls EXCEPT ![r] = c],
         calls[r].step # "fetch", c.step \notin {"fetch", "eval"},
         Steady, counts' = counts, sent' = sent, faults' \in 0 .. MaxFaults
  PROVE  GatewayInv'
<1>1. counts' \in [Days -> Counters]
  BY DEF GatewayInv, StateInv
<1>2. \A d \in Days : /\ counts'[d].all >= counts[d].all
                     /\ \A u \in Users : counts'[d].user[u] >= counts[d].user[u]
  BY <1>1 DEF Counters
<1> QED BY <1>1, <1>2, QuietCall

LEMMA FaultsType ==
  ASSUME GatewayInv
  PROVE  /\ faults \in 0 .. MaxFaults
         /\ faults < MaxFaults => faults + 1 \in 0 .. MaxFaults
BY GatewayAssumption DEF GatewayInv, StateInv

LEMMA GenerateHolds ==
  ASSUME GatewayInv, NEW r \in Requests, Generate(r) PROVE GatewayInv'
<1> USE DEF Generate
<1>1. PICK u \in Users : calls' = [calls EXCEPT
                          ![r] = IF app.generator = "gateway" THEN Complete(u)
                                 ELSE NullGenerator]
  OBVIOUS
<1> DEFINE c == IF app.generator = "gateway" THEN Complete(u) ELSE NullGenerator
<1>2. CallInv(c) /\ c.step \notin {"fetch", "eval"}
  BY CompleteHolds, EndedHolds DEF NullGenerator, Results
<1> QED BY <1>1, <1>2, MovedCall, FaultsType

LEMMA SubmitPlanningHolds ==
  ASSUME GatewayInv, NEW r \in Requests, SubmitPlanning(r) PROVE GatewayInv'
<1> USE DEF SubmitPlanning
<1>1. PICK u \in Users : calls' = [calls EXCEPT
                          ![r] = IF app.ai /\ Spent(app.limits, counts[today], u)
                                 THEN Ended("QuotaExceeded")
                                 ELSE [@ EXCEPT !.step = "queued", !.user = u]]
  OBVIOUS
<1> DEFINE queued == [calls[r] EXCEPT !.step = "queued", !.user = u]
           c == IF app.ai /\ Spent(app.limits, counts[today], u)
                THEN Ended("QuotaExceeded") ELSE queued
<1>2. CallInv(queued) /\ queued.step = "queued"
  BY DEF GatewayInv, StateInv, CallInv, Calls, Steps
<1>3. CallInv(c) /\ c.step \notin {"fetch", "eval"}
  BY <1>2, EndedHolds DEF Results
<1>4. calls' = [calls EXCEPT ![r] = c]
  BY <1>1
<1> HIDE DEF c
<1> QED BY <1>3, <1>4, MovedCall, FaultsType

LEMMA SubmitFailsHolds ==
  ASSUME GatewayInv, NEW r \in Requests, SubmitFails(r) PROVE GatewayInv'
<1>1. CallInv(Ended("QuotaUnavailable")) /\ Ended("QuotaUnavailable").step = "done"
  BY EndedHolds DEF Results
<1> QED BY <1>1, MovedCall, FaultsType DEF SubmitFails

LEMMA PlanHolds ==
  ASSUME GatewayInv, NEW r \in Requests, Plan(r) PROVE GatewayInv'
<1> USE DEF Plan
<1> DEFINE c == IF app.planner = "gateway" THEN Complete(calls[r].user) ELSE StubPlan
<1>1. Running /\ calls[r].user \in Users
  BY CallsNeedTheProcess DEF GatewayInv, StateInv, CallInv
<1>2. CallInv(c) /\ c.step \notin {"fetch", "eval"}
  BY <1>1, CompleteHolds, EndedHolds DEF StubPlan, Results
<1>3. calls' = [calls EXCEPT ![r] = c]
  OBVIOUS
<1> HIDE DEF c
<1> QED BY <1>1, <1>2, <1>3, MovedCall, FaultsType

\* The day of a script is the day it was started on.
LEMMA HookHolds ==
  ASSUME GatewayInv, NEW r \in Requests, Hook(r) PROVE GatewayInv'
<1> USE DEF Hook
<1> DEFINE c == [calls[r] EXCEPT !.step = "eval", !.day = today]
<1>1. Running
  BY CallsNeedTheProcess
<1>2. CallInv(c) /\ c.step = "eval" /\ c.day = today
  BY DEF GatewayInv, StateInv, CallInv, Calls, Steps
<1>3. Chargeable(today)
  BY DEF Chargeable, GatewayInv, StateInv, Days
<1>4. calls' = [calls EXCEPT ![r] = c]
  OBVIOUS
<1>5. counts' \in [Days -> Counters]
  BY DEF GatewayInv, StateInv
<1>6. \A d \in Days : /\ counts'[d].all >= counts[d].all
                     /\ \A u \in Users : counts'[d].user[u] >= counts[d].user[u]
  BY <1>5 DEF Counters
<1> HIDE DEF c
<1> QED BY <1>1, <1>2, <1>3, <1>4, <1>5, <1>6, QuietCall, FaultsType

LEMMA RetryHolds ==
  ASSUME GatewayInv, NEW r \in Requests, Retry(r) PROVE GatewayInv'
<1> USE DEF Retry
<1> DEFINE c == [calls[r] EXCEPT !.step = "hook", !.left = @ - 1]
<1>1. Running
  BY CallsNeedTheProcess
<1>2. CallInv(c) /\ c.step = "hook"
  BY DEF GatewayInv, StateInv, CallInv, Calls, Steps
<1>3. calls' = [calls EXCEPT ![r] = c]
  OBVIOUS
<1> HIDE DEF c
<1> QED BY <1>1, <1>2, <1>3, MovedCall, FaultsType

LEMMA RepairHolds ==
  ASSUME GatewayInv, NEW r \in Requests, Repair(r) PROVE GatewayInv'
<1> USE DEF Repair
<1> DEFINE c == [calls[r] EXCEPT !.step = "hook", !.repairing = TRUE]
<1>1. Running
  BY CallsNeedTheProcess
<1>2. CallInv(c) /\ c.step = "hook"
  BY DEF GatewayInv, StateInv, CallInv, Calls, Steps
<1>3. calls' = [calls EXCEPT ![r] = c]
  OBVIOUS
<1> HIDE DEF c
<1> QED BY <1>1, <1>2, <1>3, MovedCall, FaultsType

LEMMA GiveUpHolds ==
  ASSUME GatewayInv, NEW r \in Requests, GiveUp(r) PROVE GatewayInv'
<1>1. PICK answer \in Retryable \cup Final \cup {"prose"} :
        /\ calls[r].step = "wait"
        /\ calls' = [calls EXCEPT ![r] = Ended(ErrorOf(answer))]
        /\ Steady /\ UNCHANGED <<counts, sent, faults>>
  BY DEF GiveUp
<1>2. CallInv(Ended(ErrorOf(answer))) /\ Ended(ErrorOf(answer)).step = "done"
  BY EndedHolds, ErrorsAreResults
<1> QED BY <1>1, <1>2, MovedCall, FaultsType, CallsNeedTheProcess

LEMMA ReplyHolds ==
  ASSUME GatewayInv, NEW r \in Requests, Reply(r) PROVE GatewayInv'
<1>1. PICK answer \in Shapes :
        /\ calls[r].step = "wait"
        /\ calls' = [calls EXCEPT ![r] = Ended(answer)]
        /\ Steady /\ UNCHANGED <<counts, sent, faults>>
  BY DEF Reply
<1>2. CallInv(Ended(answer)) /\ Ended(answer).step = "done"
  BY EndedHolds DEF Shapes, Results
<1> QED BY <1>1, <1>2, MovedCall, FaultsType, CallsNeedTheProcess

\* The counters after a script that charged the day of r: they only grow.
LEMMA ScriptCounts ==
  ASSUME GatewayInv, NEW r \in Requests, calls[r].step = "eval",
         counts' = [counts EXCEPT
           ![calls[r].day] = Reserve(app.limits, @, calls[r].user)]
  PROVE  /\ counts' \in [Days -> Counters]
         /\ \A d \in Days : /\ counts'[d].all >= counts[d].all
                            /\ \A u \in Users : counts'[d].user[u] >= counts[d].user[u]
<1>1. calls[r].day \in Days /\ calls[r].user \in Users
  BY DEF GatewayInv, StateInv, CallInv, Calls
<1>2. counts \in [Days -> Counters]
  BY DEF GatewayInv, StateInv
<1>3. Reserve(app.limits, counts[calls[r].day], calls[r].user) \in Counters
  BY <1>1, <1>2, ReserveCounts
<1>4. counts' \in [Days -> Counters]
  BY <1>2, <1>3
<1>5. ASSUME NEW d \in Days
      PROVE  /\ counts'[d].all >= counts[d].all
             /\ \A u \in Users : counts'[d].user[u] >= counts[d].user[u]
  <2>1. CASE d = calls[r].day
    BY <2>1, <1>1, <1>2, ReserveCounts
  <2>2. CASE d # calls[r].day
    <3>1. counts'[d] = counts[d] /\ counts[d] \in Counters
      BY <2>2, <1>2
    <3> QED BY <3>1 DEF Counters
  <2> QED BY <2>1, <2>2
<1> QED BY <1>4, <1>5

LEMMA EvalFailsHolds ==
  ASSUME GatewayInv, NEW r \in Requests, EvalFails(r) PROVE GatewayInv'
<1> USE DEF EvalFails
<1>1. CallInv(Ended("QuotaUnavailable")) /\ Ended("QuotaUnavailable").step = "done"
  BY EndedHolds DEF Results
<1>2. CASE counts' = counts
  BY <1>1, <1>2, MovedCall, FaultsType, CallsNeedTheProcess
<1>3. CASE counts' # counts
  <2>1. counts' = [counts EXCEPT
          ![calls[r].day] = Reserve(app.limits, @, calls[r].user)]
    BY <1>3
  <2> QED BY <2>1, <1>1, ScriptCounts, QuietCall, FaultsType, CallsNeedTheProcess
<1> QED BY <1>2, <1>3

LEMMA EvalResentHolds ==
  ASSUME GatewayInv, NEW r \in Requests, EvalResent(r) PROVE GatewayInv'
<1> USE DEF EvalResent
<1>1. CallInv(calls[r]) /\ calls' = [calls EXCEPT ![r] = calls[r]]
  BY DEF GatewayInv, StateInv
<1>2. Chargeable(calls[r].day)
  BY DEF Chargeable
<1> QED BY <1>1, <1>2, ScriptCounts, QuietCall, FaultsType, CallsNeedTheProcess

\* Under a spent cap the script counts nothing and the call ends; else the call
\* holds the unit that was counted, which the caps had left.
LEMMA EvalHolds ==
  ASSUME GatewayInv, NEW r \in Requests, Eval(r) PROVE GatewayInv'
<1> DEFINE day == calls[r].day
           user == calls[r].user
           c == [calls[r] EXCEPT !.step = "fetch"]
<1>1. /\ calls[r].step = "eval" /\ Running
      /\ counts' = [counts EXCEPT ![day] = Reserve(app.limits, @, user)]
      /\ Steady /\ sent' = sent /\ faults' = faults
  BY CallsNeedTheProcess DEF Eval
<1>2. CASE Spent(app.limits, counts[day], user)
  <2>1. CallInv(Ended("QuotaExceeded")) /\ Ended("QuotaExceeded").step = "done"
    BY EndedHolds DEF Results
  <2>2. calls' = [calls EXCEPT ![r] = Ended("QuotaExceeded")]
    BY <1>2 DEF Eval
  <2> QED BY <1>1, <2>1, <2>2, ScriptCounts, QuietCall, FaultsType
<1>3. CASE ~Spent(app.limits, counts[day], user)
  <2>1. calls' = [calls EXCEPT ![r] = c]
    BY <1>3 DEF Eval
  <2>2. CallInv(calls[r]) /\ calls = [q \in Requests |-> calls[q]]
    BY DEF GatewayInv, StateInv
  <2>3. day \in Days /\ user \in Users /\ Chargeable(day)
    BY <1>1, <2>2 DEF CallInv, Calls, Chargeable
  <2>4. CallInv(c) /\ c.step = "fetch" /\ c.day = day /\ c.user = user
    BY <1>1, <2>2 DEF CallInv, Calls, Steps
  <2>5. counts' \in [Days -> Counters] /\ counts \in [Days -> Counters]
        /\ sent \in [Days -> Counters]
    BY <1>1, ScriptCounts DEF GatewayInv, StateInv
  <2>6. /\ counts'[day].all = counts[day].all + 1
        /\ counts'[day].user[user] = counts[day].user[user] + 1
    BY <1>1, <1>3, <2>3, <2>5, ReserveCounts
  <2>7. /\ counts[day].all + 1 <= app.limits.all
        /\ counts[day].user[user] + 1 <= app.limits.user
    BY <1>1, <1>3, <2>3, <2>5, LimitsAreNumbers DEF Spent, Counters, GatewayInv
  <2> HIDE DEF c
  <2>8. AppInv'
    BY <1>1 DEF GatewayInv, AppInv, Steady, Running
  <2>9. StateInv'
    <3>1. \A q \in Requests : CallInv(calls[q])'
      BY <2>1, <2>4 DEF GatewayInv, StateInv, CallInv, Days
    <3> QED BY <1>1, <2>1, <2>2, <2>5, <3>1 DEF GatewayInv, StateInv, Steady
  <2>10. \A d \in Days : Chargeable(d)' => Chargeable(d)
    BY <1>1, <2>1, <2>2, <2>4 DEF Chargeable, Steady
  <2>11. ASSUME NEW d \in Days, d # day
         PROVE  PendingAll(d)' = PendingAll(d)
    BY <1>1, <2>1, <2>2, <2>4, <2>11 DEF PendingAll
  <2>12. ASSUME NEW d \in Days, NEW u \in Users, d # day \/ u # user
         PROVE  Pending(d, u)' = Pending(d, u)
    BY <1>1, <2>1, <2>2, <2>4, <2>12 DEF PendingAll, Pending
  <2>13. ASSUME NEW d, NEW u, d = day, u = user
         PROVE  /\ Cardinality(PendingAll(d)') = Cardinality(PendingAll(d)) + 1
                /\ Cardinality(Pending(d, u)') = Cardinality(Pending(d, u)) + 1
    <3>1. PendingAll(d)' = PendingAll(d) \cup {r} /\ r \notin PendingAll(d)
      BY <1>1, <2>1, <2>2, <2>4, <2>13 DEF PendingAll
    <3>2. Pending(d, u)' = Pending(d, u) \cup {r} /\ r \notin Pending(d, u)
      BY <1>1, <2>1, <2>2, <2>4, <2>13 DEF PendingAll, Pending
    <3> QED BY <3>1, <3>2, PendingFinite, FS_AddElement
  <2> HIDE DEF day, user
  <2>14. ASSUME NEW d \in Days
         PROVE  /\ Running => sent[d].all + Cardinality(PendingAll(d)') <= app.limits.all
                /\ Chargeable(d)' =>
                     sent[d].all + Cardinality(PendingAll(d)') <= counts'[d].all
    <3>1. sent[d].all \in Nat /\ counts[d].all \in Nat /\ app.limits.all \in Nat
      BY <1>1, <2>5, LimitsAreNumbers DEF Counters, GatewayInv
    <3>2. CASE d = day
      <4>1. sent[d].all + Cardinality(PendingAll(d)) <= counts[d].all
        BY <2>3, <3>2 DEF GatewayInv, CapInv
      <4> QED BY <2>6, <2>7, <2>13, <3>1, <3>2, <4>1, PendingFinite
    <3>3. CASE d # day
      <4>1. counts'[d] = counts[d]
        BY <1>1, <2>5, <3>3
      <4> QED BY <2>10, <2>11, <3>3, <4>1 DEF GatewayInv, CapInv
    <3> QED BY <3>2, <3>3
  <2>15. ASSUME NEW d \in Days, NEW u \in Users
         PROVE  /\ Running =>
                     sent[d].user[u] + Cardinality(Pending(d, u)') <= app.limits.user
                /\ Chargeable(d)' =>
                     sent[d].user[u] + Cardinality(Pending(d, u)') <= counts'[d].user[u]
    <3>1. /\ sent[d].user[u] \in Nat /\ counts[d].user[u] \in Nat
          /\ app.limits.user \in Nat /\ counts'[d].user[u] \in Nat
      BY <1>1, <2>5, LimitsAreNumbers DEF Counters, GatewayInv
    <3>2. CASE d = day /\ u = user
      <4>1. sent[d].user[u] + Cardinality(Pending(d, u)) <= counts[d].user[u]
        BY <2>3, <3>2 DEF GatewayInv, CapInv
      <4> QED BY <2>6, <2>7, <2>13, <3>1, <3>2, <4>1, PendingFinite
    <3>3. CASE d # day \/ u # user
      <4>1. counts'[d].user[u] >= counts[d].user[u]
        BY <1>1, ScriptCounts DEF day, user
      <4>2. Running => sent[d].user[u] + Cardinality(Pending(d, u)) <= app.limits.user
        BY DEF GatewayInv, CapInv
      <4>3. Chargeable(d) => sent[d].user[u] + Cardinality(Pending(d, u)) <= counts[d].user[u]
        BY DEF GatewayInv, CapInv
      <4>4. Pending(d, u)' = Pending(d, u)
        BY <2>12, <3>3
      <4> QED BY <2>10, <3>1, <4>1, <4>2, <4>3, <4>4, PendingFinite
    <3> QED BY <3>2, <3>3
  <2>16. CapInv'
    BY <1>1, <2>14, <2>15 DEF CapInv, Steady, Running
  <2> QED BY <2>8, <2>9, <2>16 DEF GatewayInv
<1> QED BY <1>2, <1>3

\* An attempt that is sent was held: what is sent and held does not change.
LEMMA FetchHolds ==
  ASSUME GatewayInv, NEW r \in Requests, Fetch(r) PROVE GatewayInv'
<1> DEFINE day == calls[r].day
           user == calls[r].user
           c == [calls[r] EXCEPT !.step = "wait"]
<1>1. /\ calls[r].step = "fetch" /\ Running
      /\ sent' = [sent EXCEPT ![day].user[user] = @ + 1, ![day].all = @ + 1]
      /\ calls' = [calls EXCEPT ![r] = c]
      /\ Steady /\ counts' = counts /\ faults' = faults
  BY CallsNeedTheProcess DEF Fetch
<1>2. /\ CallInv(calls[r]) /\ calls = [q \in Requests |-> calls[q]]
      /\ sent \in [Days -> Counters] /\ counts \in [Days -> Counters]
  BY DEF GatewayInv, StateInv
<1>3. day \in Days /\ user \in Users
  BY <1>1, <1>2 DEF CallInv, Calls
<1>4. CallInv(c) /\ c.step = "wait"
  BY <1>1, <1>2 DEF CallInv, Calls, Steps
<1>5. /\ sent'[day] = [user |-> [sent[day].user EXCEPT ![user] = @ + 1],
                      all |-> sent[day].all + 1]
      /\ \A d \in Days : d # day => sent'[d] = sent[d]
  BY <1>1, <1>2, <1>3 DEF Counters
<1>6. sent' \in [Days -> Counters]
  <2>1. sent'[day] \in Counters
    BY <1>2, <1>3, <1>5 DEF Counters
  <2>2. \A d \in Days : sent'[d] \in Counters
    BY <1>2, <1>5, <2>1
  <2>3. sent' = [d \in Days |-> sent'[d]]
    BY <1>1, <1>2
  <2> QED BY <2>2, <2>3
<1> HIDE DEF c
<1>7. AppInv'
  BY <1>1 DEF GatewayInv, AppInv, Steady, Running
<1>8. StateInv'
  <2>1. \A q \in Requests : CallInv(calls[q])'
    BY <1>1, <1>4 DEF GatewayInv, StateInv, CallInv, Days
  <2> QED BY <1>1, <1>2, <1>6, <2>1 DEF GatewayInv, StateInv, Steady
<1>9. \A d \in Days : Chargeable(d)' => Chargeable(d)
  BY <1>1, <1>2, <1>4 DEF Chargeable, Steady
<1>10. ASSUME NEW d \in Days, d # day
       PROVE  PendingAll(d)' = PendingAll(d)
  BY <1>1, <1>2, <1>4, <1>10 DEF PendingAll
<1>11. ASSUME NEW d \in Days, NEW u \in Users, d # day \/ u # user
       PROVE  Pending(d, u)' = Pending(d, u)
  BY <1>1, <1>2, <1>4, <1>11 DEF PendingAll, Pending
<1>12. ASSUME NEW d, NEW u, d = day, u = user
       PROVE  /\ Cardinality(PendingAll(d)') = Cardinality(PendingAll(d)) - 1
              /\ Cardinality(Pending(d, u)') = Cardinality(Pending(d, u)) - 1
  <2>1. PendingAll(d)' = PendingAll(d) \ {r} /\ r \in PendingAll(d)
    BY <1>1, <1>2, <1>4, <1>12 DEF PendingAll
  <2>2. Pending(d, u)' = Pending(d, u) \ {r} /\ r \in Pending(d, u)
    BY <1>1, <1>2, <1>4, <1>12 DEF PendingAll, Pending
  <2> QED BY <2>1, <2>2, PendingFinite, FS_RemoveElement
<1> HIDE DEF day, user
<1>13. ASSUME NEW d \in Days
       PROVE  sent'[d].all + Cardinality(PendingAll(d)') = sent[d].all + Cardinality(PendingAll(d))
  <2>1. sent[d].all \in Nat
    BY <1>2 DEF Counters
  <2>2. CASE d = day
    BY <1>5, <1>12, <2>1, <2>2, PendingFinite
  <2>3. CASE d # day
    BY <1>5, <1>10, <2>3
  <2> QED BY <2>2, <2>3
<1>14. ASSUME NEW d \in Days, NEW u \in Users
       PROVE  sent'[d].user[u] + Cardinality(Pending(d, u)')
                = sent[d].user[u] + Cardinality(Pending(d, u))
  <2>1. sent[d].user \in [Users -> Nat]
    BY <1>2 DEF Counters
  <2>2. CASE d = day /\ u = user
    BY <1>5, <1>12, <2>1, <2>2, PendingFinite
  <2>3. CASE d # day \/ u # user
    <3>1. sent'[d].user[u] = sent[d].user[u]
      BY <1>5, <2>1, <2>3
    <3> QED BY <1>11, <2>3, <3>1
  <2> QED BY <2>2, <2>3
<1>15. CapInv'
  <2> SUFFICES ASSUME NEW d \in Days
      PROVE  /\ Running => sent'[d].all + Cardinality(PendingAll(d)') <= app.limits.all
             /\ Chargeable(d)' => sent'[d].all + Cardinality(PendingAll(d)') <= counts[d].all
             /\ \A u \in Users :
                  /\ Running =>
                       sent'[d].user[u] + Cardinality(Pending(d, u)') <= app.limits.user
                  /\ Chargeable(d)' =>
                       sent'[d].user[u] + Cardinality(Pending(d, u)') <= counts[d].user[u]
    BY <1>1 DEF CapInv, Steady, Running
  <2> QED BY <1>9, <1>13, <1>14 DEF GatewayInv, CapInv
<1> QED BY <1>7, <1>8, <1>15 DEF GatewayInv

LEMMA MidnightHolds == ASSUME GatewayInv, Midnight PROVE GatewayInv'
<1> USE DEF Midnight
<1>1. AppInv'
  BY DEF GatewayInv, AppInv, Running
<1>2. StateInv'
  BY GatewayAssumption DEF GatewayInv, StateInv, CallInv, Days
<1>3. \A d \in Days : Chargeable(d)' => Chargeable(d)
  BY GatewayAssumption DEF Chargeable, GatewayInv, StateInv, Days
<1>4. \A d, u : PendingAll(d)' = PendingAll(d) /\ Pending(d, u)' = Pending(d, u)
  BY DEF PendingAll, Pending
<1>5. CapInv'
  BY <1>3, <1>4 DEF GatewayInv, CapInv, Running
<1> QED BY <1>1, <1>2, <1>5 DEF GatewayInv

\* Only the counters of a day that no script charges any more are dropped.
LEMMA ExpireHolds == ASSUME GatewayInv, NEW day \in Days, Expire(day) PROVE GatewayInv'
<1> USE DEF Expire
<1>1. AppInv'
  BY DEF GatewayInv, AppInv, Running, Steady
<1>2. StateInv'
  BY NoCountsType DEF GatewayInv, StateInv, CallInv, Steady
<1>3. \A d : Chargeable(d)' <=> Chargeable(d)
  BY DEF Chargeable, Steady
<1>4. ~Chargeable(day)
  BY GatewayAssumption DEF Chargeable, GatewayInv, StateInv, Days
<1>5. \A d, u : PendingAll(d)' = PendingAll(d) /\ Pending(d, u)' = Pending(d, u)
  BY DEF PendingAll, Pending
<1>6. \A d \in Days : Chargeable(d)' => counts'[d] = counts[d]
  BY <1>3, <1>4 DEF GatewayInv, StateInv
<1>7. CapInv'
  <2> SUFFICES ASSUME NEW d \in Days
      PROVE  /\ Running => sent[d].all + Cardinality(PendingAll(d)) <= app.limits.all
             /\ Chargeable(d)' => sent[d].all + Cardinality(PendingAll(d)) <= counts'[d].all
             /\ \A u \in Users :
                  /\ Running => sent[d].user[u] + Cardinality(Pending(d, u)) <= app.limits.user
                  /\ Chargeable(d)' =>
                       sent[d].user[u] + Cardinality(Pending(d, u)) <= counts'[d].user[u]
    BY <1>5 DEF CapInv, Steady, Running
  <2> QED BY <1>3, <1>6 DEF GatewayInv, CapInv
<1> QED BY <1>1, <1>2, <1>7 DEF GatewayInv

LEMMA StepHolds == ASSUME GatewayInv, [Next]_vars PROVE GatewayInv'
<1>1. CASE Boot
  BY <1>1, BootHolds
<1>2. ASSUME NEW r \in Requests,
             Generate(r) \/ SubmitPlanning(r) \/ SubmitFails(r) \/ Call(r)
      PROVE  GatewayInv'
  BY <1>2, GenerateHolds, SubmitPlanningHolds, SubmitFailsHolds, PlanHolds, HookHolds,
     EvalHolds, EvalFailsHolds, EvalResentHolds, FetchHolds, RetryHolds, RepairHolds,
     GiveUpHolds, ReplyHolds DEF Call
<1>3. CASE Midnight
  BY <1>3, MidnightHolds
<1>4. ASSUME NEW d \in Days, Expire(d) PROVE GatewayInv'
  BY <1>4, ExpireHolds
<1>5. CASE UNCHANGED vars
  <2>1. \A d, u : PendingAll(d)' = PendingAll(d) /\ Pending(d, u)' = Pending(d, u)
    BY <1>5 DEF PendingAll, Pending, vars
  <2>2. \A d : Chargeable(d)' <=> Chargeable(d)
    BY <1>5 DEF Chargeable, vars
  <2> QED BY <1>5, <2>1, <2>2
    DEF vars, GatewayInv, AppInv, StateInv, CallInv, CapInv, Running
<1> QED BY <1>1, <1>2, <1>3, <1>4, <1>5 DEF Next

LEMMA InvariantHolds == Spec => []GatewayInv
<1>1. GatewayInv /\ [Next]_vars => GatewayInv'
  BY StepHolds
<1> QED BY InitHolds, <1>1, PTL DEF Spec

-----------------------------------------------------------------------------
(* The results. *)

\* Of the units of one day no more attempts reach the provider than the caps
\* allow, of one user and of all together, whatever caps the environment sets
\* and however retries, repairs, repeated scripts, midnights and the expiry of
\* the counters interleave (QUOTA_SCRIPT, RedisAiQuota.run,
\* OpenRouterGateway.attempt).
THEOREM CapsAreNeverExceeded == Spec => []CapsHold
<1>1. GatewayInv => CapsHold
  <2> SUFFICES ASSUME GatewayInv PROVE CapsHold
    OBVIOUS
  <2>1. TypeOK
    <3>1. app.state \in {"starting", "refused", "up"}
      BY DEF GatewayInv, AppInv, Wired
    <3>2. \A r \in Requests : calls[r] \in Calls
            /\ (calls[r].step = "done" <=> calls[r].result # "none")
      BY DEF GatewayInv, StateInv, CallInv
    <3>3. calls \in [Requests -> Calls]
      BY <3>2 DEF GatewayInv, StateInv
    <3> QED BY <3>1, <3>2, <3>3
      DEF TypeOK, GatewayInv, StateInv, Calls, Steps, Counters
  <2>2. ASSUME Running, NEW d \in Days
        PROVE  /\ \A u \in Users : sent[d].user[u] <= app.limits.user
               /\ sent[d].all <= app.limits.all
    <3>1. sent[d] \in Counters /\ app.limits.user \in Nat /\ app.limits.all \in Nat
      BY <2>2, LimitsAreNumbers DEF GatewayInv, StateInv
    <3>2. sent[d].all + Cardinality(PendingAll(d)) <= app.limits.all
      BY <2>2 DEF GatewayInv, CapInv
    <3>3. ASSUME NEW u \in Users PROVE sent[d].user[u] <= app.limits.user
      <4>1. sent[d].user[u] + Cardinality(Pending(d, u)) <= app.limits.user
        BY <2>2 DEF GatewayInv, CapInv
      <4> QED BY <3>1, <4>1, PendingFinite DEF Counters
    <3> QED BY <3>1, <3>2, <3>3, PendingFinite DEF Counters
  <2> QED BY <2>1, <2>2 DEF CapsHold
<1> QED BY <1>1, InvariantHolds, PTL

\* Whatever environment a process came up with, what its modules chose by it
\* fits together and, on a deployed tier, is safe (validate, against the
\* factories of context.module.ts, ai.module.ts and email.module.ts).
THEOREM EveryProcessIsWhole == Spec => []ProcessIsWhole
<1>1. GatewayInv => ProcessIsWhole
  <2> SUFFICES ASSUME GatewayInv, Running PROVE ProcessIsWhole
    BY DEF ProcessIsWhole
  <2>1. Accepted(env) /\ app = Wired(env)
    BY DEF GatewayInv, AppInv, Running
  <2>2. ASSUME Deployed(app.tier)
        PROVE  /\ app.sender = "resend" /\ app.links /\ app.verification
               /\ app.restOrigin \notin {"*", Blank}
               /\ env.wsFrom = "process" => app.socketOrigin \notin {"*", Blank}
               /\ app.verifiesTls /\ app.secret # "placeholder" /\ ~app.swagger
    <3>1. Deployed(NodeEnv(env)) /\ MailRequired(env) /\ ~Unsafe(env)
      BY <2>1, <2>2 DEF Accepted, Wired
    <3>2. app.sender = "resend" /\ app.links /\ app.verification
      BY <2>1, <3>1 DEF Wired, MailRequired, EmailSender, Present, Mail, VerificationRequired
    <3>3. /\ app.restOrigin \notin {"*", Blank}
          /\ env.wsFrom = "process" => app.socketOrigin \notin {"*", Blank}
      BY <2>1, <3>1 DEF Wired, Unsafe, SocketOrigin
    <3>4. app.verifiesTls /\ app.secret # "placeholder" /\ ~app.swagger
      BY <2>1, <3>1 DEF Wired, Unsafe, SwaggerEnabled, Deployed
    <3> QED BY <3>2, <3>3, <3>4
  <2>3. app.publisher = app.scheduler /\ app.publisher = app.consumer
    BY <2>1 DEF Wired, ContextRequestPublisher, GatherTimeoutScheduler,
                ContextResultsConsumer
  <2>4. /\ app.ai <=> app.planner = "gateway"
        /\ app.ai <=> app.generator = "gateway"
    BY <2>1 DEF Wired, GatewayAvailable, LlmPlanner, SuggestionGenerator, Present
  <2> QED BY <2>2, <2>3, <2>4 DEF ProcessIsWhole
<1> QED BY <1>1, InvariantHolds, PTL
=============================================================================
