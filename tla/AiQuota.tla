------------------------------ MODULE AiQuota ------------------------------
(***************************************************************************)
(* The daily caps on calls to the AI provider (redis-ai-quota.ts): one     *)
(* counter per user and one for everybody, per UTC day, read and advanced  *)
(* by one Redis script.  A day's counters are a record; the operators are  *)
(* the script in its two modes; the limits are those of the configuration. *)
(***************************************************************************)
EXTENDS Naturals

CONSTANTS Users

\* The counters of a day nobody has used, and those of a day whose keys expired.
NoCounts == [user |-> [u \in Users |-> 0], all |-> 0]

\* The script's refusal: either counter stands at its limit.  Mode `check`
\* stops here.
Spent(limits, count, u) ==
  count.user[u] >= limits.user \/ count.all >= limits.all

\* Mode `reserve`: nothing is counted when a cap is spent, else both are.
Reserve(limits, count, u) ==
  IF Spent(limits, count, u)
  THEN count
  ELSE [count EXCEPT !.user[u] = @ + 1, !.all = @ + 1]
=============================================================================
