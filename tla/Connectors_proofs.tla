--------------------------- MODULE Connectors_proofs ---------------------------
(***************************************************************************)
(* The safety properties of Connectors, for any number of handlers at the  *)
(* same time, accounts, webhooks, failed calls and crashes.                *)
(*                                                                         *)
(* Nothing keeps the row as a handler has seen it, so the invariant speaks *)
(* of the account it has seen: what it is about to write is still what     *)
(* Composio has said of that account.  Whether the row names that account  *)
(* when it is written is what the history `raced' records, and whether it  *)
(* is settled by then, what `overtaken' records.                           *)
(***************************************************************************)
EXTENDS Connectors, TLAPS

Locals == [op : Operations, step : Steps, seen : Rows,
           account : Accounts \cup {NoAccount}, status : Statuses]

\* Access to an account is withdrawn.
Withdrawn(a) == composio[a] = "deleted" \/ Reported(a, "EXPIRED")

\* Access to an account is withdrawn after the step.
WithdrawnNext(a) ==
  composio'[a] = "deleted" \/ [account |-> a, status |-> "EXPIRED"] \in events'

\* Steps of a handler that has seen a row with an account.
Known == {"lookup", "write", "reread", "checkRevoked", "delete", "mark"}

\* What a handler holds of the account it has seen, whatever the row names.
HandlerInv(h) ==
  LET l == local[h]
  IN  /\ l.seen.account \in Accounts =>
           /\ composio[l.seen.account] # "none"
           /\ l.seen.status = "revoked" =>
                Withdrawn(l.seen.account) \/ l.seen.account \in raced
      /\ l.seen.account = row.account /\ l.seen.connected => row.connected
      /\ l.step \in Known => l.seen.account \in Accounts /\ row.status # "absent"
      /\ l.step = "write" =>
           /\ l.status = "active" => Reported(l.seen.account, "ACTIVE")
           /\ l.status = "revoked" => Reported(l.seen.account, "EXPIRED")
      /\ l.step = "mark" => composio[l.seen.account] = "deleted"
      /\ l.step = "upsert" =>
           /\ l.account \in Accounts \ {row.account}
           /\ composio[l.account] # "none"

HandlersInv == \A h \in Handlers : HandlerInv(h)

\* An account that a connect has made and not yet named is nobody else's.
ApartInv ==
  \A h \in Handlers : At(h, "upsert") =>
    /\ \A g \in Handlers : local[g].seen.account # local[h].account
    /\ \A g \in Handlers : g # h /\ At(g, "upsert") => local[g].account # local[h].account

\* The row names an account that was made, and tells the truth of it.
RowInv ==
  /\ row.status # "absent" => row.account \in Accounts
  /\ row.account \in Accounts => row.status # "absent" /\ composio[row.account] # "none"
  /\ row.account \notin raced =>
       /\ row.status = "revoked" => Withdrawn(row.account)
       /\ row.status = "active" => Reported(row.account, "ACTIVE") /\ row.connected

\* What Composio says of an account it has told.
ToldInv ==
  \A a \in Accounts : composio[a] \in Live \ {"INITIATED"} => Reported(a, composio[a])

\* Who is about to write a settled row was overtaken.
OvertakenInv ==
  \A h \in Handlers :
    local[h].step \in {"lookup", "write"} /\ row.status \in Terminal => h \in overtaken

\* While no call has failed, an account that the row does not name is expired,
\* was raced, or is about to be named by the row or to be deleted.
OrphansInv ==
  faults = 0 => \A a \in Orphans :
    \/ Reported(a, "EXPIRED")
    \/ a \in raced
    \/ \E h \in Handlers :
         \/ At(h, "upsert") /\ local[h].account = a
         \/ At(h, "revokeReplaced") /\ local[h].seen.account = a /\ Replaced(h)

ConnectorsInv ==
  /\ TypeOK /\ RowInv /\ ToldInv /\ HandlersInv /\ ApartInv /\ OvertakenInv /\ OrphansInv

\* What NeverRevives says of a step.
Survives ==
  row.status \in Terminal /\ row'.status \notin Terminal
    => \/ row'.account # row.account
       \/ \E h \in overtaken : WriteStatus(h)

-----------------------------------------------------------------------------
\* What a status at Composio is mapped to, and what only it is mapped to.
LEMMA StatusFacts ==
  ASSUME NEW s
  PROVE  /\ MapStatus(s) \in Statuses
         /\ MapStatus(s) = "active" <=> s = "ACTIVE"
         /\ MapStatus(s) = "revoked" <=> s = "EXPIRED"
BY DEF MapStatus, Statuses

LEMMA IdleFacts ==
  /\ NoRow \in Rows /\ Idle \in Locals
  /\ Idle.step = "idle" /\ Idle.seen = NoRow
BY DEF Locals, Idle, NoRow, Operations, Steps, Rows, Statuses

\* A handler goes on as `next' without a write.
LEMMA BecomeFacts ==
  ASSUME TypeOK, NEW h \in Handlers, NEW next \in Locals, Become(h, next)
  PROVE  /\ local' \in [Handlers -> Locals] /\ local'[h] = next
         /\ \A g \in Handlers \ {h} : local'[g] = local[g]
         /\ overtaken' \subseteq Handlers /\ raced' = raced
         /\ \A g \in overtaken : g # h \/ next.step # "idle" => g \in overtaken'
<1>1. local \in [Handlers -> Locals] /\ overtaken \subseteq Handlers
  BY DEF TypeOK, Locals
<1> QED BY <1>1 DEF Become

\* A handler goes on as `next' and has written the row.
LEMMA WriteFacts ==
  ASSUME TypeOK, NEW h \in Handlers, NEW new, NEW next \in Locals, Write(h, new, next)
  PROVE  /\ row' = new
         /\ local' \in [Handlers -> Locals] /\ local'[h] = next
         /\ \A g \in Handlers \ {h} : local'[g] = local[g]
         /\ raced \subseteq raced' /\ raced' \subseteq raced \cup {row.account}
         /\ row.account # local[h].seen.account => row.account \in raced'
         /\ overtaken' \subseteq Handlers
         /\ \A g \in Handlers \ {h} : ~At(g, "idle") /\ new.status \in Terminal
              => g \in overtaken'
<1>1. local \in [Handlers -> Locals] /\ overtaken \subseteq Handlers
  BY DEF TypeOK, Locals
<1>2. /\ local' \in [Handlers -> Locals] /\ local'[h] = next
      /\ \A g \in Handlers \ {h} : local'[g] = local[g]
  BY <1>1 DEF Write
<1>3. /\ raced \subseteq raced' /\ raced' \subseteq raced \cup {row.account}
      /\ row.account # local[h].seen.account => row.account \in raced'
  BY DEF Write
<1>4. /\ overtaken' \subseteq Handlers
      /\ \A g \in Handlers \ {h} : ~At(g, "idle") /\ new.status \in Terminal
           => g \in overtaken'
  BY <1>1 DEF Write
<1> QED BY <1>2, <1>3, <1>4 DEF Write

\* Nothing is unmade or unsaid, and the row keeps its account or takes one that
\* no handler but h has seen or made.
Onward(h) ==
  /\ \A a \in Accounts : /\ composio[a] # "none" => composio'[a] # "none"
                         /\ composio[a] = "deleted" => composio'[a] = "deleted"
  /\ events \subseteq events' /\ raced \subseteq raced'
  /\ row.status # "absent" => row'.status # "absent"
  /\ \/ row'.account = row.account /\ (row.connected => row'.connected)
     \/ /\ row'.account \in Accounts
        /\ \A g \in Handlers : local[g].seen.account # row'.account
        /\ \A g \in Handlers \ {h} : At(g, "upsert") => local[g].account # row'.account

\* A handler that does not move still holds what it held.
LEMMA OthersHold ==
  ASSUME ConnectorsInv, NEW h \in Handlers, NEW g \in Handlers, Onward(h),
         local'[g] = local[g], g # h
  PROVE  HandlerInv(g)'
<1>1. HandlerInv(g) /\ local[g] \in Locals
  BY DEF ConnectorsInv, HandlersInv, TypeOK, Locals
<1>2. \A a \in Accounts : Withdrawn(a) \/ a \in raced => Withdrawn(a)' \/ a \in raced'
  BY DEF Onward, Withdrawn, Reported
<1>3. \A a, s : Reported(a, s) => Reported(a, s)'
  BY DEF Onward, Reported
<1>4. /\ local[g].seen.account \in Accounts =>
           /\ composio'[local[g].seen.account] # "none"
           /\ local[g].seen.status = "revoked" =>
                Withdrawn(local[g].seen.account)' \/ local[g].seen.account \in raced'
  BY <1>1, <1>2 DEF HandlerInv, Onward
<1>5. local[g].seen.account = row'.account /\ local[g].seen.connected => row'.connected
  BY <1>1 DEF HandlerInv, Onward
<1>6. local[g].step \in Known => local[g].seen.account \in Accounts /\ row'.status # "absent"
  BY <1>1 DEF HandlerInv, Onward
<1>7. local[g].step = "write" =>
        /\ local[g].status = "active" => Reported(local[g].seen.account, "ACTIVE")'
        /\ local[g].status = "revoked" => Reported(local[g].seen.account, "EXPIRED")'
  BY <1>1, <1>3 DEF HandlerInv
<1>8. local[g].step = "mark" => composio'[local[g].seen.account] = "deleted"
  BY <1>1, <1>6 DEF HandlerInv, Onward, Known
<1>9. local[g].step = "upsert" =>
        /\ local[g].account \in Accounts \ {row'.account}
        /\ composio'[local[g].account] # "none"
  BY <1>1 DEF HandlerInv, Onward, At
<1> QED BY <1>4, <1>5, <1>6, <1>7, <1>8, <1>9 DEF HandlerInv, Withdrawn, Reported

\* Accounts stay apart when a handler goes on to anything but an upsert.
LEMMA StaysApart ==
  ASSUME ConnectorsInv, NEW h \in Handlers, NEW next \in Locals,
         local'[h] = next, \A g \in Handlers \ {h} : local'[g] = local[g],
         next.step # "upsert",
         next.seen.account \in {local[h].seen.account, row.account, NoAccount}
  PROVE  ApartInv'
<1>1. ASSUME NEW g \in Handlers, local'[g].step = "upsert"
      PROVE  /\ g # h /\ local'[g] = local[g] /\ At(g, "upsert")
             /\ local[g].account \in Accounts \ {row.account}
  BY <1>1 DEF At, ConnectorsInv, HandlersInv, HandlerInv
<1>2. ASSUME NEW g \in Handlers, local'[g].step = "upsert", NEW f \in Handlers
      PROVE  local'[f].seen.account # local'[g].account
  <2>1. CASE f = h
    BY <1>1, <1>2, <2>1, ConnectorsAssumption DEF ConnectorsInv, ApartInv
  <2>2. CASE f # h
    BY <1>1, <1>2, <2>2 DEF ConnectorsInv, ApartInv
  <2> QED BY <2>1, <2>2
<1>3. ASSUME NEW g \in Handlers, local'[g].step = "upsert", NEW f \in Handlers,
             f # g, local'[f].step = "upsert"
      PROVE  local'[f].account # local'[g].account
  BY <1>1, <1>3 DEF ConnectorsInv, ApartInv
<1> QED BY <1>2, <1>3 DEF ApartInv, At

-----------------------------------------------------------------------------
(* A step of a handler that does not write the row. *)

\* At Composio, accounts are at most deleted.
Withdraws ==
  /\ composio' \in [Accounts -> Live \cup {"none", "deleted"}]
  /\ \A a \in Accounts : composio'[a] = composio[a]
                         \/ (composio[a] # "none" /\ composio'[a] = "deleted")

\* No account is left to h any more, or a call has failed.
Frees(h) ==
  \/ Fault
  \/ /\ UNCHANGED faults
     /\ local[h].step # "upsert"
     /\ local[h].step = "revokeReplaced" /\ Replaced(h) =>
          composio'[local[h].seen.account] = "deleted"

LEMMA NothingWithdrawn ==
  ASSUME ConnectorsInv, UNCHANGED composio
  PROVE  Withdraws
<1>1. composio \in [Accounts -> Live \cup {"none", "deleted"}]
  BY DEF ConnectorsInv, TypeOK
<1> QED BY <1>1 DEF Withdraws

LEMMA NothingToFree ==
  ASSUME NEW h, Fault \/ UNCHANGED faults,
         local[h].step \notin {"upsert", "revokeReplaced"}
  PROVE  Frees(h)
BY DEF Frees

LEMMA GoesOn ==
  ASSUME ConnectorsInv, NEW h \in Handlers, NEW next \in Locals,
         Become(h, next), UNCHANGED <<row, events, moves>>,
         Withdraws,
         next.seen \in {local[h].seen, row, NoRow},
         next.step # "upsert",
         HandlerInv(h)',
         next.step \in {"lookup", "write"} /\ row.status \in Terminal => h \in overtaken,
         Frees(h)
  PROVE  ConnectorsInv' /\ Survives
<1>1. /\ TypeOK /\ RowInv /\ ToldInv /\ OvertakenInv /\ OrphansInv
      /\ DOMAIN local = Handlers
  BY DEF ConnectorsInv, TypeOK
<1>2. /\ local' \in [Handlers -> Locals] /\ local'[h] = next
      /\ \A g \in Handlers \ {h} : local'[g] = local[g]
      /\ overtaken' \subseteq Handlers /\ raced' = raced
      /\ \A g \in overtaken : g # h \/ next.step # "idle" => g \in overtaken'
  BY <1>1, BecomeFacts
<1>3. \A a, s : Reported(a, s)' <=> Reported(a, s)
  BY DEF Reported
<1>4. \A a \in Accounts : Withdrawn(a) => Withdrawn(a)'
  BY <1>3 DEF Withdrawn, Withdraws
<1>5. TypeOK'
  <2>1. faults' \in 0 .. MaxFaults
    BY <1>1, ConnectorsAssumption DEF Fault, Frees, TypeOK
  <2> QED BY <1>1, <1>2, <2>1 DEF TypeOK, Locals, Withdraws
<1>6. RowInv'
  <2>1. row.account \in Accounts \/ row.status = "absent"
    BY <1>1 DEF RowInv
  <2> QED BY <1>1, <1>2, <1>3, <1>4, <2>1 DEF RowInv, Withdraws
<1>7. ToldInv'
  BY <1>1, <1>3 DEF ToldInv, Live, Withdraws
<1>8. HandlersInv'
  <2>1. Onward(h)
    BY <1>2 DEF Onward, Withdraws
  <2>2. ASSUME NEW g \in Handlers, g # h PROVE HandlerInv(g)'
    BY <1>2, <2>1, <2>2, OthersHold
  <2> QED BY <2>2 DEF HandlersInv
<1>9. ApartInv'
  <2>1. next.seen.account \in {local[h].seen.account, row.account, NoAccount}
    BY DEF NoRow
  <2> QED BY <1>2, <2>1, StaysApart
<1>10. OvertakenInv'
  <2>1. ASSUME NEW g \in Handlers, local'[g].step \in {"lookup", "write"},
               row.status \in Terminal
        PROVE  g \in overtaken'
    BY <1>1, <1>2, <2>1 DEF OvertakenInv
  <2> QED BY <2>1 DEF OvertakenInv
<1>11. OrphansInv'
  <2>1. CASE Fault
    BY <1>1, <2>1 DEF Fault, OrphansInv, TypeOK
  <2>2. CASE ~Fault
    <3>1. ASSUME faults' = 0, NEW a \in Orphans', ~Reported(a, "EXPIRED"), a \notin raced
          PROVE  \E g \in Handlers :
                   \/ At(g, "upsert") /\ local[g].account = a
                   \/ At(g, "revokeReplaced") /\ local[g].seen.account = a /\ Replaced(g)
      BY <1>1, <2>2, <3>1 DEF OrphansInv, Orphans, Live, Withdraws, Frees
    <3>2. ASSUME faults' = 0, NEW a \in Orphans', ~Reported(a, "EXPIRED"), a \notin raced
          PROVE  \E g \in Handlers :
                   \/ At(g, "upsert")' /\ local'[g].account = a
                   \/ At(g, "revokeReplaced")' /\ local'[g].seen.account = a /\ Replaced(g)'
      <4>1. PICK g \in Handlers :
              \/ At(g, "upsert") /\ local[g].account = a
              \/ At(g, "revokeReplaced") /\ local[g].seen.account = a /\ Replaced(g)
        BY <3>1, <3>2
      <4>2. g # h
        BY <2>2, <3>2, <4>1 DEF Orphans, Live, Frees, At
      <4> QED BY <1>2, <4>1, <4>2 DEF At, Replaced
    <3> QED BY <1>2, <1>3, <3>2 DEF OrphansInv
  <2> QED BY <2>1, <2>2
<1>12. Survives
  BY DEF Survives
<1> QED BY <1>5, <1>6, <1>7, <1>8, <1>9, <1>10, <1>11, <1>12 DEF ConnectorsInv

\* A handler that returns holds nothing.
LEMMA IdleHolds ==
  ASSUME NEW h \in Handlers, local'[h] = Idle
  PROVE  HandlerInv(h)'
BY IdleFacts, ConnectorsAssumption DEF HandlerInv, NoRow, Known

\* A handler ends, with or without having deleted the account it has seen.
LEMMA Ends ==
  ASSUME ConnectorsInv, NEW h \in Handlers, Return(h), UNCHANGED <<row, events, moves>>,
         Withdraws,
         Frees(h)
  PROVE  ConnectorsInv' /\ Survives
<1>1. Become(h, Idle) /\ local'[h] = Idle
  BY IdleFacts, BecomeFacts DEF Return, ConnectorsInv
<1> QED BY <1>1, IdleFacts, IdleHolds, GoesOn

\* A handler holds what it has just read.
LEMMA ReadHolds ==
  ASSUME ConnectorsInv, NEW h \in Handlers, UNCHANGED <<row, composio, events, raced>>,
         local'[h] \in Locals, local'[h].seen = row,
         local'[h].step \in {"link", "lookup", "write", "checkRevoked"},
         local'[h].step \in Known => row.status # "absent",
         local'[h].step = "write" =>
           /\ local'[h].status = "active" => Reported(row.account, "ACTIVE")
           /\ local'[h].status = "revoked" => Reported(row.account, "EXPIRED")
  PROVE  HandlerInv(h)'
<1>1. RowInv
  BY DEF ConnectorsInv
<1>2. \A a, s : Reported(a, s)' <=> Reported(a, s)
  BY DEF Reported
<1>3. \A a : Withdrawn(a)' <=> Withdrawn(a)
  BY <1>2 DEF Withdrawn
<1> QED BY <1>1, <1>2, <1>3 DEF HandlerInv, RowInv

-----------------------------------------------------------------------------
(* One lemma per action. *)

LEMMA ConnectReadStep ==
  ASSUME ConnectorsInv, NEW h \in Handlers, ConnectRead(h)
  PROVE  ConnectorsInv' /\ Survives
<1> DEFINE next == [Idle EXCEPT !.op = "connect", !.step = "link", !.seen = row]
<1>1. /\ TypeOK /\ row \in Rows /\ At(h, "idle")
      /\ Become(h, next) /\ UNCHANGED <<row, composio, events, faults, moves>>
  BY DEF ConnectRead, ConnectorsInv, TypeOK
<1>2. next \in Locals /\ next.step = "link" /\ next.seen = row
  BY <1>1, IdleFacts DEF Locals, Operations, Steps
<1> HIDE DEF next
<1>3. local'[h] = next /\ UNCHANGED raced
  BY <1>1, <1>2, BecomeFacts
<1>4. HandlerInv(h)'
  BY <1>1, <1>2, <1>3, ReadHolds DEF Known
<1> QED BY <1>1, <1>2, <1>4, NothingWithdrawn, NothingToFree, GoesOn DEF At

LEMMA ReadRowStep ==
  ASSUME ConnectorsInv, NEW h \in Handlers, ReadRow(h)
  PROVE  ConnectorsInv' /\ Survives
<1>1. PICK op \in {"read", "revoke"} :
        Become(h, [Idle EXCEPT !.op = op, !.seen = row,
                               !.step = IF row.status = "initiated" THEN "lookup"
                                        ELSE "checkRevoked"])
  BY DEF ReadRow
<1> DEFINE next == [Idle EXCEPT !.op = op, !.seen = row,
                                !.step = IF row.status = "initiated" THEN "lookup"
                                         ELSE "checkRevoked"]
<1>2. /\ TypeOK /\ row \in Rows /\ At(h, "idle") /\ row.status # "absent"
      /\ UNCHANGED <<row, composio, events, faults, moves>>
  BY DEF ReadRow, ConnectorsInv, TypeOK
<1>3. /\ next \in Locals /\ next.seen = row /\ next.step \in {"lookup", "checkRevoked"}
      /\ next.step = "lookup" => row.status = "initiated"
  BY <1>2, IdleFacts DEF Locals, Operations, Steps
<1>4. Become(h, next)
  BY <1>1
<1> HIDE DEF next
<1>5. local'[h] = next /\ UNCHANGED raced
  BY <1>2, <1>3, <1>4, BecomeFacts
<1>6. HandlerInv(h)'
  BY <1>2, <1>3, <1>5, ReadHolds
<1> QED BY <1>2, <1>3, <1>4, <1>6, NothingWithdrawn, NothingToFree, GoesOn DEF Terminal, At

LEMMA WebhookStep ==
  ASSUME ConnectorsInv, NEW h \in Handlers, Webhook(h)
  PROVE  ConnectorsInv' /\ Survives
<1>1. PICK e \in events :
        /\ e.account = row.account /\ ~Settled(row, MapStatus(e.status))
        /\ Become(h, [Idle EXCEPT !.op = "webhook", !.seen = row,
                                  !.status = MapStatus(e.status), !.step = "write"])
  BY DEF Webhook
<1> DEFINE next == [Idle EXCEPT !.op = "webhook", !.seen = row,
                                !.status = MapStatus(e.status), !.step = "write"]
<1>2. /\ TypeOK /\ RowInv /\ row \in Rows /\ At(h, "idle")
      /\ e \in [account : Accounts, status : Live]
      /\ UNCHANGED <<row, composio, events, faults, moves>>
  BY DEF Webhook, ConnectorsInv, TypeOK
<1>3. /\ next \in Locals /\ next.seen = row /\ next.step = "write"
      /\ next.status = MapStatus(e.status)
  BY <1>2, IdleFacts, StatusFacts DEF Locals, Operations, Steps
<1>4. Become(h, next)
  BY <1>1
<1> HIDE DEF next
<1>5. local'[h] = next /\ UNCHANGED raced
  BY <1>2, <1>3, <1>4, BecomeFacts
<1>6. row.account \in Accounts /\ row.status \notin Terminal \cup {"absent"}
  BY <1>1, <1>2 DEF Settled, RowInv
<1>7. /\ next.status = "active" => Reported(row.account, "ACTIVE")
      /\ next.status = "revoked" => Reported(row.account, "EXPIRED")
  <2>1. e = [account |-> row.account, status |-> e.status]
    BY <1>1, <1>2
  <2> QED BY <1>3, <2>1, StatusFacts DEF Reported
<1>8. HandlerInv(h)'
  BY <1>2, <1>3, <1>5, <1>6, <1>7, ReadHolds
<1> QED BY <1>2, <1>3, <1>4, <1>6, <1>8, NothingWithdrawn, NothingToFree, GoesOn DEF At

\* What the caller of reconcile does with a connection that was read.
LEMMA Resumes ==
  ASSUME ConnectorsInv, NEW h \in Handlers, NEW connection \in Rows,
         Resume(h, connection), UNCHANGED <<row, composio, events, moves>>,
         local[h].step \in {"lookup", "reread"},
         connection = row \/ connection = local[h].seen,
         Fault \/ UNCHANGED faults
  PROVE  ConnectorsInv' /\ Survives
<1>1. /\ TypeOK /\ RowInv /\ HandlerInv(h) /\ local[h] \in Locals
  BY DEF ConnectorsInv, HandlersInv, TypeOK, Locals
<1>2. CASE local[h].op = "revoke"
  <2> DEFINE next == [local[h] EXCEPT !.seen = connection, !.step = "checkRevoked"]
  <2>1. /\ next \in Locals /\ next.step = "checkRevoked" /\ next.seen = connection
    BY <1>1 DEF Locals, Steps
  <2>2. Become(h, next)
    BY <1>2 DEF Resume
  <2> HIDE DEF next
  <2>3. local'[h] = next /\ UNCHANGED raced
    BY <1>1, <2>1, <2>2, BecomeFacts
  <2>4. HandlerInv(h)'
    <3>1. CASE connection = row
      BY <1>1, <2>1, <2>3, <3>1, ReadHolds DEF HandlerInv, Known
    <3>2. CASE connection = local[h].seen
      BY <1>1, <2>1, <2>3, <3>2 DEF HandlerInv, Known, Withdrawn, Reported
    <3> QED BY <3>1, <3>2
  <2> QED BY <1>1, <2>1, <2>2, <2>4, NothingWithdrawn, NothingToFree, GoesOn DEF At
<1>3. CASE local[h].op # "revoke"
  <2>1. Return(h)
    BY <1>3 DEF Resume, Return
  <2> QED BY <1>1, <2>1, NothingWithdrawn, NothingToFree, Ends
<1> QED BY <1>2, <1>3

LEMMA LookupStep ==
  ASSUME ConnectorsInv, NEW h \in Handlers, Lookup(h)
  PROVE  ConnectorsInv' /\ Survives
<1> DEFINE a == local[h].seen.account
           now == composio[a]
           next == [local[h] EXCEPT !.status = MapStatus(now), !.step = "write"]
<1>1. /\ TypeOK /\ ToldInv /\ OvertakenInv /\ HandlerInv(h)
      /\ local[h] \in Locals /\ local[h].seen \in Rows
      /\ local[h].step = "lookup" /\ UNCHANGED <<row, composio, events, moves>>
  BY DEF Lookup, At, ConnectorsInv, HandlersInv, TypeOK, Locals
<1>2. a \in Accounts /\ row.status # "absent"
  BY <1>1 DEF HandlerInv, Known
<1>3. CASE now \in Live /\ Become(h, next) /\ UNCHANGED faults
  <2>1. /\ next \in Locals /\ next.step = "write" /\ next.seen = local[h].seen
        /\ next.status = MapStatus(now)
    BY <1>1, StatusFacts DEF Locals, Steps
  <2> HIDE DEF next
  <2>2. local'[h] = next /\ UNCHANGED raced
    BY <1>1, <1>3, <2>1, BecomeFacts
  <2>3. /\ next.status = "active" => Reported(a, "ACTIVE")
        /\ next.status = "revoked" => Reported(a, "EXPIRED")
    BY <1>1, <1>2, <1>3, <2>1, StatusFacts DEF ToldInv, Live
  <2>4. HandlerInv(h)'
    BY <1>1, <1>2, <2>1, <2>2, <2>3 DEF HandlerInv, Withdrawn, Reported, Known
  <2> QED BY <1>1, <1>3, <2>1, <2>4, NothingWithdrawn, NothingToFree, GoesOn DEF OvertakenInv
<1>4. CASE Resume(h, local[h].seen) /\ (UNCHANGED faults \/ Fault)
  BY <1>1, <1>4, Resumes
<1> QED BY <1>1, <1>3, <1>4 DEF Lookup

LEMMA RereadStep ==
  ASSUME ConnectorsInv, NEW h \in Handlers, Reread(h)
  PROVE  ConnectorsInv' /\ Survives
BY Resumes DEF Reread, At, ConnectorsInv, TypeOK

\* A handler goes on with what it has seen.
LEMMA GoesTo ==
  ASSUME ConnectorsInv, NEW h \in Handlers, NEW step \in Steps, Goto(h, step)
  PROVE  LET next == [local[h] EXCEPT !.step = step]
         IN  /\ next \in Locals /\ next.step = step /\ next.seen = local[h].seen
             /\ next.account = local[h].account
             /\ Become(h, next) /\ local'[h] = next /\ UNCHANGED raced
<1> DEFINE next == [local[h] EXCEPT !.step = step]
<1>1. TypeOK /\ local[h] \in Locals
  BY DEF ConnectorsInv, TypeOK, Locals
<1>2. /\ next \in Locals /\ next.step = step /\ next.seen = local[h].seen
      /\ next.account = local[h].account
  BY <1>1 DEF Locals
<1>3. Become(h, next)
  BY DEF Goto
<1> HIDE DEF next
<1>4. local'[h] = next /\ UNCHANGED raced
  BY <1>1, <1>2, <1>3, BecomeFacts
<1> QED BY <1>2, <1>3, <1>4 DEF next

LEMMA CheckRevokedStep ==
  ASSUME ConnectorsInv, NEW h \in Handlers, CheckRevoked(h)
  PROVE  ConnectorsInv' /\ Survives
<1>1. /\ TypeOK /\ HandlerInv(h) /\ local[h].step = "checkRevoked"
      /\ UNCHANGED <<row, composio, events, faults, moves>>
  BY DEF CheckRevoked, At, ConnectorsInv, HandlersInv
<1>2. CASE Return(h)
  BY <1>1, <1>2, NothingWithdrawn, NothingToFree, Ends
<1>3. CASE Goto(h, "delete")
  <2> DEFINE next == [local[h] EXCEPT !.step = "delete"]
  <2>1. /\ next \in Locals /\ next.step = "delete" /\ next.seen = local[h].seen
        /\ Become(h, next) /\ local'[h] = next /\ UNCHANGED raced
    BY <1>3, GoesTo DEF Steps
  <2> HIDE DEF next
  <2>2. HandlerInv(h)'
    BY <1>1, <2>1 DEF HandlerInv, Known, Withdrawn, Reported
  <2> QED BY <1>1, <2>1, <2>2, NothingWithdrawn, NothingToFree, GoesOn DEF At
<1> QED BY <1>2, <1>3 DEF CheckRevoked

LEMMA DeleteStep ==
  ASSUME ConnectorsInv, NEW h \in Handlers, Delete(h)
  PROVE  ConnectorsInv' /\ Survives
<1> DEFINE a == local[h].seen.account
<1>1. /\ TypeOK /\ HandlerInv(h) /\ local[h].step = "delete"
      /\ UNCHANGED <<row, events, moves>>
  BY DEF Delete, At, ConnectorsInv, HandlersInv
<1>2. a \in Accounts /\ row.status # "absent"
  BY <1>1 DEF HandlerInv, Known
<1>3. CASE /\ composio[a] \in Live
           /\ composio' = [composio EXCEPT ![a] = "deleted"]
           /\ Goto(h, "mark") /\ UNCHANGED faults
  <2> DEFINE next == [local[h] EXCEPT !.step = "mark"]
  <2>1. /\ next \in Locals /\ next.step = "mark" /\ next.seen = local[h].seen
        /\ Become(h, next) /\ local'[h] = next /\ UNCHANGED raced
    BY <1>3, GoesTo DEF Steps
  <2> HIDE DEF next
  <2>2. /\ composio' \in [Accounts -> Live \cup {"none", "deleted"}]
        /\ composio'[a] = "deleted"
        /\ \A b \in Accounts : composio'[b] = composio[b]
                               \/ (composio[b] # "none" /\ composio'[b] = "deleted")
    <3>1. composio \in [Accounts -> Live \cup {"none", "deleted"}]
      BY <1>1 DEF TypeOK
    <3>2. composio[a] # "none"
      BY <1>3 DEF Live
    <3> HIDE DEF a
    <3> QED BY <1>2, <1>3, <3>1, <3>2
  <2>3. HandlerInv(h)'
    BY <1>1, <1>2, <2>1, <2>2 DEF HandlerInv, Known, Withdrawn, Reported
  <2> QED BY <1>1, <1>3, <2>1, <2>2, <2>3, NothingToFree, GoesOn DEF Withdraws
<1>4. CASE Return(h) /\ UNCHANGED composio /\ (UNCHANGED faults \/ Fault)
  BY <1>1, <1>4, NothingWithdrawn, NothingToFree, Ends
<1> QED BY <1>1, <1>3, <1>4 DEF Delete

LEMMA RevokeReplacedStep ==
  ASSUME ConnectorsInv, NEW h \in Handlers, RevokeReplaced(h)
  PROVE  ConnectorsInv' /\ Survives
<1> DEFINE a == local[h].seen.account
<1>1. /\ TypeOK /\ HandlerInv(h) /\ local[h] \in Locals
      /\ local[h].step = "revokeReplaced" /\ Return(h) /\ UNCHANGED <<row, events, moves>>
  BY DEF RevokeReplaced, At, ConnectorsInv, HandlersInv, TypeOK, Locals
<1>2. CASE /\ Replaced(h)
           /\ composio' = [composio EXCEPT ![a] = "deleted"] /\ UNCHANGED faults
  <2>1. a \in Accounts
    BY <1>1, <1>2 DEF Replaced, Locals, Rows
  <2>2. composio[a] # "none"
    BY <1>1, <2>1 DEF HandlerInv
  <2>3. /\ composio' \in [Accounts -> Live \cup {"none", "deleted"}]
        /\ composio'[a] = "deleted"
        /\ \A b \in Accounts : composio'[b] = composio[b]
                               \/ (composio[b] # "none" /\ composio'[b] = "deleted")
    <3>1. composio \in [Accounts -> Live \cup {"none", "deleted"}]
      BY <1>1 DEF TypeOK
    <3> HIDE DEF a
    <3> QED BY <1>2, <2>1, <2>2, <3>1
  <2> QED BY <1>1, <1>2, <2>3, Ends DEF Withdraws, Frees
<1>3. CASE UNCHANGED composio /\ (Fault \/ (~Replaced(h) /\ UNCHANGED faults))
  BY <1>1, <1>3, NothingWithdrawn, Ends DEF Frees
<1>4. \/ /\ Replaced(h) /\ UNCHANGED faults
         /\ composio' = [composio EXCEPT ![a] = "deleted"]
      \/ UNCHANGED composio /\ (Fault \/ (~Replaced(h) /\ UNCHANGED faults))
  BY DEF RevokeReplaced
<1> QED BY <1>2, <1>3, <1>4

LEMMA CrashStep ==
  ASSUME ConnectorsInv, NEW h \in Handlers, Crash(h)
  PROVE  ConnectorsInv' /\ Survives
BY NothingWithdrawn, Ends DEF Crash, Frees

\* A new account is made for a connect that is about to name it, or has failed.
LEMMA LinkStep ==
  ASSUME ConnectorsInv, NEW h \in Handlers, Link(h)
  PROVE  ConnectorsInv' /\ Survives
<1>1. /\ TypeOK /\ RowInv /\ ToldInv /\ HandlersInv /\ ApartInv /\ OvertakenInv /\ OrphansInv
      /\ local[h] \in Locals /\ local[h].step = "link" /\ UNCHANGED <<row, events, moves>>
  BY DEF Link, At, ConnectorsInv, TypeOK, Locals
<1>2. CASE Return(h) /\ UNCHANGED <<composio, faults>>
  BY <1>1, <1>2, NothingWithdrawn, NothingToFree, Ends
<1>3. ASSUME NEW a \in Accounts, composio[a] = "none",
             composio' = [composio EXCEPT ![a] = "INITIATED"],
             \/ UNCHANGED faults /\ Become(h, [local[h] EXCEPT !.account = a, !.step = "upsert"])
             \/ Fault /\ Return(h)
      PROVE  ConnectorsInv' /\ Survives
  <2>1. PICK next \in Locals :
          /\ Become(h, next)
          /\ \/ /\ UNCHANGED faults
                /\ next.step = "upsert" /\ next.account = a /\ next.seen = local[h].seen
             \/ Fault /\ next = Idle
    <3> DEFINE l == [local[h] EXCEPT !.account = a, !.step = "upsert"]
    <3>1. l \in Locals /\ l.step = "upsert" /\ l.account = a /\ l.seen = local[h].seen
      BY <1>1 DEF Locals, Steps
    <3> HIDE DEF l
    <3> QED BY <1>3, <3>1, IdleFacts DEF Return, l
  <2>2. /\ local' \in [Handlers -> Locals] /\ local'[h] = next
        /\ \A g \in Handlers \ {h} : local'[g] = local[g]
        /\ overtaken' \subseteq Handlers /\ raced' = raced
        /\ \A g \in overtaken : g # h \/ next.step # "idle" => g \in overtaken'
    BY <1>1, <2>1, BecomeFacts
  <2>3. /\ composio' \in [Accounts -> Live \cup {"none", "deleted"}]
        /\ composio'[a] = "INITIATED" /\ \A b \in Accounts \ {a} : composio'[b] = composio[b]
    <3>1. composio \in [Accounts -> Live \cup {"none", "deleted"}] /\ "INITIATED" \in Live
      BY <1>1 DEF TypeOK, Live
    <3> QED BY <1>3, <3>1
  <2>4. /\ \A b, s : Reported(b, s)' <=> Reported(b, s)
        /\ \A b \in Accounts : Withdrawn(b) => Withdrawn(b)'
    BY <1>1, <1>3, <2>3 DEF Reported, Withdrawn
  <2>5. /\ row.account # a
        /\ \A g \in Handlers : local[g].seen.account # a
        /\ \A g \in Handlers : At(g, "upsert") => local[g].account # a
    BY <1>1, <1>3 DEF RowInv, HandlersInv, HandlerInv, At
  <2>6. TypeOK'
    <3>1. faults' \in 0 .. MaxFaults
      BY <1>1, <2>1, ConnectorsAssumption DEF Fault, TypeOK
    <3> QED BY <1>1, <2>2, <2>3, <3>1 DEF TypeOK, Locals
  <2>7. RowInv'
    BY <1>1, <2>2, <2>3, <2>4, <2>5 DEF RowInv, Withdrawn
  <2>8. ToldInv'
    BY <1>1, <2>3, <2>4 DEF ToldInv
  <2>9. HandlersInv'
    <3>1. Onward(h)
      BY <1>1, <1>3, <2>2, <2>3 DEF Onward
    <3>2. ASSUME NEW g \in Handlers, g # h PROVE HandlerInv(g)'
      BY <2>2, <3>1, <3>2, OthersHold
    <3>3. HandlerInv(h)'
      <4>1. CASE next = Idle
        BY <2>2, <4>1, IdleHolds
      <4>2. CASE next # Idle
        <5>1. next.step = "upsert" /\ next.account = a /\ next.seen = local[h].seen
          BY <2>1, <4>2
        <5>2. local[h].seen.account \in Accounts =>
                /\ composio'[local[h].seen.account] # "none"
                /\ local[h].seen.status = "revoked" =>
                     \/ WithdrawnNext(local[h].seen.account)
                     \/ local[h].seen.account \in raced'
          <6> DEFINE b == local[h].seen.account
          <6>1. b \in Accounts =>
                  /\ composio[b] # "none"
                  /\ local[h].seen.status = "revoked" => Withdrawn(b) \/ b \in raced
            BY <1>1 DEF HandlersInv, HandlerInv
          <6>2. b # a /\ raced' = raced
            BY <2>2, <2>5
          <6>3. ASSUME NEW c \in Accounts PROVE Withdrawn(c) => WithdrawnNext(c)
            BY <2>4 DEF Withdrawn, WithdrawnNext, Reported
          <6> HIDE DEF b
          <6>4. b \in Accounts =>
                  /\ composio'[b] # "none"
                  /\ local[h].seen.status = "revoked" => WithdrawnNext(b) \/ b \in raced'
            BY <2>3, <6>1, <6>2, <6>3
          <6> QED BY <6>4 DEF b
        <5>3. local[h].seen.account = row.account /\ local[h].seen.connected => row.connected
          BY <1>1 DEF HandlersInv, HandlerInv
        <5> QED BY <1>1, <2>2, <2>3, <2>5, <5>1, <5>2, <5>3
              DEF HandlerInv, Known, Withdrawn, WithdrawnNext, Reported
      <4> QED BY <4>1, <4>2
    <3> QED BY <3>2, <3>3 DEF HandlersInv
  <2>10. ApartInv'
    <3>1. \A g \in Handlers :
            /\ local'[g].seen.account \in {local[g].seen.account, NoAccount}
            /\ At(g, "upsert")' => \/ g = h /\ local'[g].account = a
                                   \/ g # h /\ At(g, "upsert") /\ local'[g] = local[g]
      BY <2>1, <2>2, IdleFacts DEF At, NoRow
    <3>2. \A g \in Handlers : At(g, "upsert") => local[g].account \in Accounts
      BY <1>1 DEF HandlersInv, HandlerInv, At
    <3>3. ASSUME NEW g \in Handlers, At(g, "upsert")', NEW f \in Handlers
          PROVE  /\ local'[f].seen.account # local'[g].account
                 /\ f # g /\ At(f, "upsert")' => local'[f].account # local'[g].account
      <4>1. CASE g = h
        BY <2>5, <3>1, <3>3, <4>1, ConnectorsAssumption
      <4>2. CASE g # h
        BY <1>1, <2>5, <3>1, <3>2, <3>3, <4>2, ConnectorsAssumption DEF ApartInv
      <4> QED BY <4>1, <4>2
    <3> QED BY <3>3 DEF ApartInv
  <2>11. OvertakenInv'
    BY <1>1, <2>1, <2>2, IdleFacts DEF OvertakenInv
  <2>12. OrphansInv'
    <3>1. CASE Fault
      BY <1>1, <3>1 DEF Fault, OrphansInv, TypeOK
    <3>2. CASE ~Fault
      <4>1. UNCHANGED faults /\ next.step = "upsert" /\ next.account = a
        BY <2>1, <3>2
      <4>2. ASSUME faults' = 0, NEW b \in Orphans', ~Reported(b, "EXPIRED"), b \notin raced
            PROVE  \E g \in Handlers :
                     \/ At(g, "upsert")' /\ local'[g].account = b
                     \/ At(g, "revokeReplaced")' /\ local'[g].seen.account = b /\ Replaced(g)'
        <5>1. CASE b = a
          BY <2>2, <4>1, <5>1 DEF At
        <5>2. CASE b # a
          <6>1. b \in Orphans
            BY <1>1, <2>3, <5>2 DEF Orphans
          <6>2. PICK g \in Handlers :
                  \/ At(g, "upsert") /\ local[g].account = b
                  \/ At(g, "revokeReplaced") /\ local[g].seen.account = b /\ Replaced(g)
            BY <1>1, <4>1, <4>2, <6>1 DEF OrphansInv
          <6>3. g # h
            BY <1>1, <6>2 DEF At
          <6> QED BY <2>2, <6>2, <6>3 DEF At, Replaced
        <5> QED BY <5>1, <5>2
      <4> QED BY <2>2, <2>4, <4>2 DEF OrphansInv
    <3> QED BY <3>1, <3>2
  <2> QED BY <1>1, <2>6, <2>7, <2>8, <2>9, <2>10, <2>11, <2>12 DEF ConnectorsInv, Survives
<1> QED BY <1>2, <1>3 DEF Link

\* The row takes a new account, and the one it named may be left to h.
LEMMA UpsertStep ==
  ASSUME ConnectorsInv, NEW h \in Handlers, Upsert(h)
  PROVE  ConnectorsInv' /\ Survives
<1> DEFINE a == local[h].account
           new == [status |-> "initiated", account |-> a, connected |-> FALSE]
           next == [local[h] EXCEPT !.step = "revokeReplaced"]
<1>1. /\ TypeOK /\ RowInv /\ ToldInv /\ HandlersInv /\ ApartInv /\ OvertakenInv /\ OrphansInv
      /\ HandlerInv(h) /\ local[h] \in Locals /\ local[h].step = "upsert" /\ At(h, "upsert")
      /\ Write(h, new, next) /\ UNCHANGED <<composio, events, faults, moves>>
  BY DEF Upsert, At, ConnectorsInv, HandlersInv, TypeOK, Locals
<1>2. /\ next \in Locals /\ next.step = "revokeReplaced" /\ next.seen = local[h].seen
      /\ next.account = a
  BY <1>1 DEF Locals, Steps
<1>3. /\ a \in Accounts /\ a # row.account /\ composio[a] # "none"
      /\ \A g \in Handlers : local[g].seen.account # a
      /\ \A g \in Handlers \ {h} : At(g, "upsert") => local[g].account # a
  BY <1>1 DEF HandlerInv, ApartInv
<1>4. /\ new \in Rows /\ new.status = "initiated" /\ new.account = a
  BY <1>3 DEF Rows, Statuses
<1> HIDE DEF new, next, a
<1>5. /\ row' = new
      /\ local' \in [Handlers -> Locals] /\ local'[h] = next
      /\ \A g \in Handlers \ {h} : local'[g] = local[g]
      /\ raced \subseteq raced' /\ raced' \subseteq raced \cup {row.account}
      /\ row.account # local[h].seen.account => row.account \in raced'
      /\ overtaken' \subseteq Handlers
  BY <1>1, <1>2, WriteFacts
<1>6. \A b, s : Reported(b, s)' <=> Reported(b, s)
  BY <1>1 DEF Reported
<1>7. TypeOK'
  <2>1. row.account \in Accounts \cup {NoAccount}
    BY <1>1 DEF TypeOK, Rows
  <2> QED BY <1>1, <1>4, <1>5, <2>1 DEF TypeOK, Locals
<1>8. RowInv'
  BY <1>1, <1>3, <1>4, <1>5 DEF RowInv
<1>9. ToldInv'
  BY <1>1, <1>6 DEF ToldInv
<1>10. HandlersInv'
  <2>1. Onward(h)
    BY <1>1, <1>3, <1>4, <1>5 DEF Onward
  <2>2. ASSUME NEW g \in Handlers, g # h PROVE HandlerInv(g)'
    BY <1>5, <2>1, <2>2, OthersHold
  <2>3. HandlerInv(h)'
    <3> DEFINE b == local[h].seen.account
    <3>1. b \in Accounts =>
            /\ composio[b] # "none"
            /\ local[h].seen.status = "revoked" => Withdrawn(b) \/ b \in raced
      BY <1>1 DEF HandlerInv
    <3>2. b # row'.account
      BY <1>3, <1>4, <1>5
    <3>3. \A c : Withdrawn(c) => WithdrawnNext(c)
      BY <1>1 DEF Withdrawn, WithdrawnNext, Reported
    <3> HIDE DEF b
    <3>4. b \in Accounts =>
            /\ composio'[b] # "none"
            /\ local[h].seen.status = "revoked" => WithdrawnNext(b) \/ b \in raced'
      BY <1>1, <1>5, <3>1, <3>3
    <3> QED BY <1>2, <1>5, <3>2, <3>4
          DEF HandlerInv, Known, Withdrawn, WithdrawnNext, Reported, b
  <2> QED BY <2>2, <2>3 DEF HandlersInv
<1>11. ApartInv'
  BY <1>1, <1>2, <1>5, StaysApart
<1>12. OvertakenInv'
  BY <1>4, <1>5 DEF OvertakenInv, Terminal
<1>13. OrphansInv'
  <2>1. ASSUME faults' = 0, NEW b \in Orphans', ~Reported(b, "EXPIRED"), b \notin raced'
        PROVE  \E g \in Handlers :
                 \/ At(g, "upsert")' /\ local'[g].account = b
                 \/ At(g, "revokeReplaced")' /\ local'[g].seen.account = b /\ Replaced(g)'
    <3>1. b \in Accounts /\ composio[b] \in Live /\ b # a /\ b \notin raced
      BY <1>1, <1>4, <1>5, <2>1 DEF Orphans
    <3>2. CASE b = row.account
      <4>1. local[h].seen.account = b
        BY <1>5, <2>1, <3>2
      <4>2. local[h].seen.status # "revoked"
        BY <1>1, <2>1, <3>1, <4>1 DEF HandlerInv, Withdrawn, Live
      <4>3. Replaced(h)'
        BY <1>2, <1>5, <3>1, <4>1, <4>2, ConnectorsAssumption DEF Replaced
      <4> QED BY <1>2, <1>5, <4>1, <4>3 DEF At
    <3>3. CASE b # row.account
      <4>1. b \in Orphans
        BY <3>1, <3>3 DEF Orphans
      <4>2. PICK g \in Handlers :
              \/ At(g, "upsert") /\ local[g].account = b
              \/ At(g, "revokeReplaced") /\ local[g].seen.account = b /\ Replaced(g)
        BY <1>1, <2>1, <3>1, <4>1 DEF OrphansInv
      <4>3. g # h
        BY <1>1, <3>1, <4>2 DEF At, a
      <4> QED BY <1>5, <4>2, <4>3 DEF At, Replaced
    <3> QED BY <3>2, <3>3
  <2> QED BY <1>6, <2>1 DEF OrphansInv
<1>14. Survives
  BY <1>3, <1>4, <1>5 DEF Survives
<1> QED BY <1>7, <1>8, <1>9, <1>10, <1>11, <1>12, <1>13, <1>14 DEF ConnectorsInv

\* What a handler has decided on the account it has seen is written, whatever
\* account the row names by then.
LEMMA Rewrites ==
  ASSUME ConnectorsInv, NEW h \in Handlers, NEW new \in Rows, NEW next \in Locals,
         Write(h, new, next), UNCHANGED <<composio, events, faults, moves>>,
         new.account = row.account, row.connected => new.connected,
         local[h].step \in Known, new.status # "absent",
         local[h].seen.account = row.account =>
           /\ new.status = "revoked" => Withdrawn(row.account)
           /\ new.status = "active" => Reported(row.account, "ACTIVE") /\ new.connected,
         \/ next = Idle
         \/ next.step = "reread" /\ next.seen = local[h].seen
  PROVE  ConnectorsInv'
<1>1. /\ TypeOK /\ RowInv /\ ToldInv /\ HandlersInv /\ OvertakenInv /\ OrphansInv
      /\ HandlerInv(h) /\ local[h] \in Locals
  BY DEF ConnectorsInv, HandlersInv, TypeOK, Locals
<1>2. /\ row' = new
      /\ local' \in [Handlers -> Locals] /\ local'[h] = next
      /\ \A g \in Handlers \ {h} : local'[g] = local[g]
      /\ raced \subseteq raced' /\ raced' \subseteq raced \cup {row.account}
      /\ row.account # local[h].seen.account => row.account \in raced'
      /\ overtaken' \subseteq Handlers
      /\ \A g \in Handlers \ {h} : ~At(g, "idle") /\ new.status \in Terminal
           => g \in overtaken'
  BY <1>1, WriteFacts
<1>3. /\ \A b, s : Reported(b, s)' <=> Reported(b, s)
      /\ \A b : Withdrawn(b)' <=> Withdrawn(b)
  BY DEF Reported, Withdrawn
<1>4. local[h].seen.account \in Accounts /\ row.status # "absent"
  BY <1>1 DEF HandlerInv
<1>5. TypeOK'
  <2>1. row.account \in Accounts \cup {NoAccount}
    BY <1>1 DEF TypeOK, Rows
  <2> QED BY <1>1, <1>2, <2>1 DEF TypeOK, Locals
<1>6. RowInv'
  BY <1>1, <1>2, <1>3, <1>4 DEF RowInv
<1>7. ToldInv'
  BY <1>1, <1>3 DEF ToldInv
<1>8. HandlersInv'
  <2>1. Onward(h)
    BY <1>1, <1>2 DEF Onward
  <2>2. ASSUME NEW g \in Handlers, g # h PROVE HandlerInv(g)'
    BY <1>2, <2>1, <2>2, OthersHold
  <2>3. HandlerInv(h)'
    <3>1. CASE next = Idle
      BY <1>2, <3>1, IdleHolds
    <3>2. CASE next.step = "reread" /\ next.seen = local[h].seen
      BY <1>1, <1>2, <1>3, <1>4, <3>2 DEF HandlerInv, Known, Withdrawn, Reported
    <3> QED BY <3>1, <3>2
  <2> QED BY <2>2, <2>3 DEF HandlersInv
<1>9. ApartInv'
  BY <1>2, StaysApart, IdleFacts DEF NoRow
<1>10. OvertakenInv'
  <2>1. ASSUME NEW g \in Handlers, local'[g].step \in {"lookup", "write"},
               new.status \in Terminal
        PROVE  g \in overtaken'
    <3>1. g # h
      BY <1>2, <2>1, IdleFacts
    <3> QED BY <1>2, <2>1, <3>1 DEF At
  <2> QED BY <1>2, <2>1 DEF OvertakenInv
<1>11. OrphansInv'
  <2>1. ASSUME faults' = 0, NEW b \in Orphans', ~Reported(b, "EXPIRED"), b \notin raced'
        PROVE  \E g \in Handlers :
                 \/ At(g, "upsert")' /\ local'[g].account = b
                 \/ At(g, "revokeReplaced")' /\ local'[g].seen.account = b /\ Replaced(g)'
    <3>1. b \in Orphans /\ b \notin raced
      BY <1>2, <2>1 DEF Orphans
    <3>2. PICK g \in Handlers :
            \/ At(g, "upsert") /\ local[g].account = b
            \/ At(g, "revokeReplaced") /\ local[g].seen.account = b /\ Replaced(g)
      BY <1>1, <2>1, <3>1 DEF OrphansInv
    <3>3. g # h
      BY <3>2 DEF At, Known
    <3> QED BY <1>2, <3>2, <3>3 DEF At, Replaced
  <2> QED BY <1>3, <2>1 DEF OrphansInv
<1> QED BY <1>5, <1>6, <1>7, <1>8, <1>9, <1>10, <1>11 DEF ConnectorsInv

LEMMA WriteStatusStep ==
  ASSUME ConnectorsInv, NEW h \in Handlers, WriteStatus(h)
  PROVE  ConnectorsInv' /\ Survives
<1> DEFINE l == local[h]
           new == [row EXCEPT !.status = l.status,
                     !.connected = @ \/ (l.status = "active" /\ ~l.seen.connected)]
           next == [l EXCEPT !.step = "reread"]
<1>1. /\ TypeOK /\ HandlerInv(h) /\ OvertakenInv /\ l \in Locals /\ row \in Rows
      /\ l.step = "write" /\ Write(h, new, next)
      /\ UNCHANGED <<composio, events, faults, moves>>
  BY DEF WriteStatus, At, ConnectorsInv, HandlersInv, TypeOK, Locals
<1>2. /\ next \in Locals /\ next.step = "reread" /\ next.seen = l.seen
  BY <1>1 DEF Locals, Steps
<1>3. /\ new \in Rows /\ new.account = row.account /\ new.status = l.status
      /\ row.connected => new.connected
      /\ l.status = "active" => row.connected \/ new.connected \/ l.seen.connected
      /\ l.status \in Statuses
  BY <1>1 DEF Rows, Locals
<1>4. l.seen.account = row.account =>
        /\ new.status = "revoked" => Withdrawn(row.account)
        /\ new.status = "active" => Reported(row.account, "ACTIVE") /\ new.connected
  BY <1>1, <1>3 DEF HandlerInv, Withdrawn
<1> HIDE DEF new, next
<1>5. ConnectorsInv'
  BY <1>1, <1>2, <1>3, <1>4, Rewrites DEF Known, Statuses
<1>6. Survives
  <2>1. row.status \in Terminal => h \in overtaken
    BY <1>1 DEF OvertakenInv
  <2> QED BY <2>1 DEF Survives
<1> QED BY <1>5, <1>6

LEMMA MarkRevokedStep ==
  ASSUME ConnectorsInv, NEW h \in Handlers, MarkRevoked(h)
  PROVE  ConnectorsInv' /\ Survives
<1> DEFINE new == [row EXCEPT !.status = "revoked"]
<1>1. /\ TypeOK /\ HandlerInv(h) /\ row \in Rows
      /\ local[h].step = "mark" /\ Write(h, new, Idle)
      /\ UNCHANGED <<composio, events, faults, moves>>
  BY DEF MarkRevoked, At, ConnectorsInv, HandlersInv, TypeOK
<1>2. /\ new \in Rows /\ new.account = row.account /\ new.status = "revoked"
      /\ row.connected => new.connected
  BY <1>1 DEF Rows, Statuses
<1>3. local[h].seen.account = row.account => Withdrawn(row.account)
  BY <1>1 DEF HandlerInv, Withdrawn
<1>4. row' = new
  BY <1>1 DEF Write
<1> HIDE DEF new
<1>5. ConnectorsInv'
  BY <1>1, <1>2, <1>3, IdleFacts, Rewrites DEF Known
<1>6. Survives
  BY <1>2, <1>4 DEF Survives, Terminal
<1> QED BY <1>5, <1>6

\* Composio reports what it does to an account that exists.
LEMMA ComposioStep ==
  ASSUME ConnectorsInv, ComposioMoves
  PROVE  ConnectorsInv' /\ Survives
<1>1. PICK a \in Accounts, s \in {"ACTIVE", "FAILED", "EXPIRED"} :
        /\ composio[a] \in Live \ {s}
        /\ composio' = [composio EXCEPT ![a] = s]
        /\ events' = events \cup {[account |-> a, status |-> s]}
  BY DEF ComposioMoves
<1>2. /\ TypeOK /\ RowInv /\ ToldInv /\ HandlersInv /\ ApartInv /\ OvertakenInv /\ OrphansInv
      /\ moves < MaxMoves /\ moves' = moves + 1
      /\ UNCHANGED <<row, local, faults, raced, overtaken>>
  BY DEF ConnectorsInv, ComposioMoves
<1>3. s \in Live /\ composio[a] \notin {"none", "deleted"}
  BY <1>1 DEF Live
<1>4. /\ composio' \in [Accounts -> Live \cup {"none", "deleted"}]
      /\ composio'[a] = s /\ \A b \in Accounts \ {a} : composio'[b] = composio[b]
  <2>1. composio \in [Accounts -> Live \cup {"none", "deleted"}]
    BY <1>2 DEF TypeOK
  <2> QED BY <1>1, <1>3, <2>1
<1>5. /\ \A b, t : Reported(b, t) => Reported(b, t)'
      /\ Reported(a, s)'
      /\ \A b \in Accounts : Withdrawn(b) => Withdrawn(b)'
  BY <1>1, <1>3, <1>4 DEF Reported, Withdrawn
<1>6. TypeOK'
  BY <1>1, <1>2, <1>3, <1>4, ConnectorsAssumption DEF TypeOK
<1>7. RowInv'
  <2>1. row.status \in {"revoked", "active"} => row.account \in Accounts
    BY <1>2 DEF RowInv
  <2> QED BY <1>2, <1>3, <1>4, <1>5, <2>1 DEF RowInv, Live
<1>8. ToldInv'
  BY <1>2, <1>4, <1>5 DEF ToldInv
<1>9. HandlersInv'
  <2>1. ASSUME NEW g \in Handlers PROVE HandlerInv(g)'
    <3>1. HandlerInv(g)
      BY <1>2 DEF HandlersInv
    <3>2. \A b \in Accounts : /\ composio[b] # "none" => composio'[b] # "none"
                              /\ composio[b] = "deleted" => composio'[b] = "deleted"
      BY <1>3, <1>4 DEF Live
    <3>3. local[g].seen.account \in Accounts =>
            /\ composio'[local[g].seen.account] # "none"
            /\ local[g].seen.status = "revoked" =>
                 WithdrawnNext(local[g].seen.account) \/ local[g].seen.account \in raced
      <4>1. \A b \in Accounts : Withdrawn(b) => WithdrawnNext(b)
        BY <1>5 DEF Withdrawn, WithdrawnNext, Reported
      <4> QED BY <3>1, <3>2, <4>1 DEF HandlerInv
    <3>4. local[g].step = "mark" => composio'[local[g].seen.account] = "deleted"
      <4>1. local[g].step = "mark" =>
              local[g].seen.account \in Accounts /\ composio[local[g].seen.account] = "deleted"
        BY <3>1 DEF HandlerInv, Known
      <4> QED BY <3>2, <4>1
    <3>5. local[g].step = "write" =>
            /\ local[g].status = "active" => Reported(local[g].seen.account, "ACTIVE")'
            /\ local[g].status = "revoked" => Reported(local[g].seen.account, "EXPIRED")'
      BY <1>1, <1>2, <3>1 DEF HandlerInv, Reported
    <3>6. local[g].step = "upsert" => /\ local[g].account \in Accounts \ {row.account}
                                      /\ composio'[local[g].account] # "none"
      BY <3>1, <3>2 DEF HandlerInv
    <3>7. /\ local[g].seen.account = row.account /\ local[g].seen.connected => row.connected
          /\ local[g].step \in Known =>
               local[g].seen.account \in Accounts /\ row.status # "absent"
      BY <3>1 DEF HandlerInv
    <3> QED BY <1>2, <3>3, <3>4, <3>5, <3>6, <3>7
          DEF HandlerInv, Withdrawn, WithdrawnNext, Reported
  <2> QED BY <2>1 DEF HandlersInv
<1>10. ApartInv' /\ OvertakenInv'
  BY <1>2 DEF ApartInv, OvertakenInv, At
<1>11. OrphansInv'
  <2>1. Orphans' \subseteq Orphans
    BY <1>1, <1>2, <1>4 DEF Orphans
  <2> QED BY <1>2, <1>5, <2>1 DEF OrphansInv, At, Replaced
<1>12. Survives
  BY <1>2 DEF Survives
<1> QED BY <1>6, <1>7, <1>8, <1>9, <1>10, <1>11, <1>12 DEF ConnectorsInv

-----------------------------------------------------------------------------
LEMMA StepKeeps ==
  ASSUME ConnectorsInv, [Next]_vars
  PROVE  ConnectorsInv' /\ [Survives]_row
<1>1. CASE Next
  <2>1. ASSUME NEW h \in Handlers, ConnectRead(h) \/ ReadRow(h) \/ Webhook(h)
        PROVE  ConnectorsInv' /\ Survives
    BY <2>1, ConnectReadStep, ReadRowStep, WebhookStep
  <2>2. ASSUME NEW h \in Handlers, Link(h) \/ Upsert(h) \/ RevokeReplaced(h)
        PROVE  ConnectorsInv' /\ Survives
    BY <2>2, LinkStep, UpsertStep, RevokeReplacedStep
  <2>3. ASSUME NEW h \in Handlers, Lookup(h) \/ WriteStatus(h) \/ Reread(h)
        PROVE  ConnectorsInv' /\ Survives
    BY <2>3, LookupStep, WriteStatusStep, RereadStep
  <2>4. ASSUME NEW h \in Handlers,
               CheckRevoked(h) \/ Delete(h) \/ MarkRevoked(h) \/ Crash(h)
        PROVE  ConnectorsInv' /\ Survives
    BY <2>4, CheckRevokedStep, DeleteStep, MarkRevokedStep, CrashStep
  <2> QED BY <1>1, <2>1, <2>2, <2>3, <2>4, ComposioStep DEF Next, Continue
<1>2. CASE UNCHANGED vars
  <2>1. UNCHANGED <<row, composio, events, local, faults, moves, raced, overtaken>>
    BY <1>2 DEF vars
  <2>2. TypeOK' /\ RowInv' /\ ToldInv'
    BY <2>1 DEF ConnectorsInv, TypeOK, RowInv, ToldInv, Withdrawn, Reported
  <2>3. HandlersInv'
    BY <2>1 DEF ConnectorsInv, HandlersInv, HandlerInv, Withdrawn, Reported
  <2>4. ApartInv' /\ OvertakenInv'
    BY <2>1 DEF ConnectorsInv, ApartInv, OvertakenInv, At
  <2>5. OrphansInv'
    BY <2>1 DEF ConnectorsInv, OrphansInv, Orphans, Reported, At, Replaced
  <2> QED BY <2>1, <2>2, <2>3, <2>4, <2>5 DEF ConnectorsInv
<1> QED BY <1>1, <1>2

LEMMA InitHolds ==
  ASSUME Init
  PROVE  ConnectorsInv
<1>1. /\ row = NoRow /\ composio = [a \in Accounts |-> "none"] /\ events = {}
      /\ local = [h \in Handlers |-> Idle] /\ faults = 0 /\ moves = 0
      /\ raced = {} /\ overtaken = {}
  BY DEF Init
<1>2. TypeOK
  BY <1>1, IdleFacts, ConnectorsAssumption DEF TypeOK, Locals
<1>3. \A h \in Handlers : local[h].step = "idle" /\ local[h].seen = NoRow
  BY <1>1, IdleFacts
<1>4. RowInv /\ ToldInv /\ HandlersInv
  BY <1>1, <1>3, ConnectorsAssumption
    DEF RowInv, ToldInv, HandlersInv, HandlerInv, NoRow, Known, Live
<1>5. ApartInv /\ OvertakenInv
  BY <1>3 DEF ApartInv, OvertakenInv, At
<1>6. OrphansInv
  BY <1>1 DEF OrphansInv, Orphans, Live
<1> QED BY <1>2, <1>4, <1>5, <1>6 DEF ConnectorsInv

\* Whatever the handlers, Composio, failed calls and crashes do, the row is wrong
\* only about an account it named when a handler wrote what it had decided on
\* another account (applyStatus, RevokeConnectionUseCase, upsertInitiated).
THEOREM RowTellsTheTruth == Spec => []RowMatchesAccount
<1>1. ConnectorsInv => RowMatchesAccount
  BY DEF ConnectorsInv, RowInv, RowMatchesAccount, Withdrawn
<1> QED BY <1>1, InitHolds, StepKeeps, PTL DEF Spec

\* Whatever webhooks come late or twice, only a new connect with a new account
\* brings a settled row back, or a handler that was under way when another one
\* settled it (TERMINAL_STATUSES).
THEOREM TerminalStaysTerminal == Spec => NeverRevives
<1>1. [Survives]_row <=> [row.status \in Terminal /\ row'.status \notin Terminal
        => \/ row'.account # row.account
           \/ \E h \in overtaken : WriteStatus(h)]_row
  BY DEF Survives
<1> QED BY <1>1, InitHolds, StepKeeps, PTL DEF Spec, NeverRevives

\* When no call has failed and no handler is under way, the live accounts the row
\* does not name are expired, or were named by it when a handler that had read
\* another account wrote it (revokeReplacedAccount).
THEOREM OrphansAreExpired == Spec => []OrphansHadExpired
<1>1. ConnectorsInv => OrphansHadExpired
  BY DEF ConnectorsInv, OrphansInv, OrphansHadExpired, Quiet, At
<1> QED BY <1>1, InitHolds, StepKeeps, PTL DEF Spec
=============================================================================
