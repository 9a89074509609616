----------------------------- MODULE Connectors -----------------------------
(***************************************************************************)
(* The connection of one user to one provider: its row in                  *)
(* connector_connections, the connected accounts Composio holds for it,    *)
(* and the handlers that keep the two together                             *)
(* (application/connectors):                                               *)
(*                                                                         *)
(*  - connect (InitiateConnectionUseCase): a new account, the row back to  *)
(*    initiated, the replaced account revoked;                             *)
(*  - revoke (RevokeConnectionUseCase): the account deleted at Composio,   *)
(*    the row marked;                                                      *)
(*  - read (GetConnectionUseCase, ListConnectionsUseCase): an initiated    *)
(*    row is reconciled with Composio's answer;                            *)
(*  - webhook (SyncConnectionStatusUseCase): Composio reports a status.    *)
(*                                                                         *)
(* A handler reads the row, awaits Composio and writes the row by its id,  *)
(* so whatever it decides, it decides on what it has `seen', and nothing   *)
(* keeps two handlers apart.  Two history variables, which no action       *)
(* reads, record what this costs, so that the properties can say what      *)
(* holds all the same: the accounts the row named when a handler wrote     *)
(* what it had decided on another one (raced), and the handlers under way  *)
(* when another one wrote a terminal status (overtaken).                   *)
(*                                                                         *)
(* External: Composio.  It makes a fresh account for every connect, and    *)
(* its webhooks come late, twice, in any order or never.                   *)
(***************************************************************************)
EXTENDS Naturals

CONSTANTS
  Handlers,   \* requests and webhook deliveries that run at the same time
  Accounts,   \* bound: connected accounts Composio makes
  NoAccount,
  MaxFaults,  \* bound: failed calls and crashes
  MaxMoves    \* bound: what the user and Composio do to the accounts

ASSUME ConnectorsAssumption ==
  NoAccount \notin Accounts /\ MaxFaults \in Nat /\ MaxMoves \in Nat

VARIABLES
  row,       \* the connector_connections row
  composio,  \* status of every account at Composio
  events,    \* webhooks sent so far; each may arrive at any time, again and again
  local,     \* the handlers' local variables
  faults,
  moves,
  raced,     \* history: accounts the row named when it was written for another
  overtaken  \* history: handlers under way when another made the row terminal

vars == <<row, composio, events, local, faults, moves, raced, overtaken>>

Statuses == {"initiated", "active", "revoked", "failed"}
Terminal == {"revoked", "failed"}

Rows == [status : Statuses \cup {"absent"}, account : Accounts \cup {NoAccount},
         connected : BOOLEAN]   \* connected_at is set

NoRow == [status |-> "absent", account |-> NoAccount, connected |-> FALSE]

\* Statuses an account has at Composio while it exists.
Live == {"INITIATED", "ACTIVE", "FAILED", "EXPIRED"}

Operations == {"none", "connect", "revoke", "read", "webhook"}
Steps == {"idle", "link", "upsert", "revokeReplaced", "lookup", "write",
          "reread", "checkRevoked", "delete", "mark"}

Idle == [op |-> "none", step |-> "idle", seen |-> NoRow,
         account |-> NoAccount, status |-> "initiated"]

Fault == faults < MaxFaults /\ faults' = faults + 1

At(h, step) == local[h].step = step

\* Without a write, a handler goes on as `next'.
Become(h, next) ==
  /\ local' = [local EXCEPT ![h] = next]
  /\ overtaken' = IF next.step = "idle" THEN overtaken \ {h} ELSE overtaken
  /\ UNCHANGED raced

Goto(h, step) == Become(h, [local[h] EXCEPT !.step = step])
Return(h) == Become(h, Idle)

\* A handler writes the row, found by its id, and goes on as `next'.
Write(h, new, next) ==
  /\ row' = new
  /\ local' = [local EXCEPT ![h] = next]
  /\ raced' = IF row.account = local[h].seen.account THEN raced
              ELSE raced \cup {row.account}
  /\ overtaken' = IF new.status \in Terminal
                  THEN {g \in Handlers : ~At(g, "idle")} \ {h}
                  ELSE IF next.step = "idle" THEN overtaken \ {h} ELSE overtaken

\* ComposioConnectorGateway.mapStatus; what it does not know is failed.
MapStatus(s) ==
  CASE s = "INITIATED" -> "initiated"
    [] s = "ACTIVE" -> "active"
    [] s = "EXPIRED" -> "revoked"
    [] OTHER -> "failed"

-----------------------------------------------------------------------------
(* connect *)

ConnectRead(h) ==
  /\ At(h, "idle")
  /\ Become(h, [Idle EXCEPT !.op = "connect", !.step = "link", !.seen = row])
  /\ UNCHANGED <<row, composio, events, faults, moves>>

\* An answer without a redirect URL throws, and the account exists.
Link(h) ==
  /\ At(h, "link")
  /\ \/ \E a \in Accounts :
          /\ composio[a] = "none"
          /\ composio' = [composio EXCEPT ![a] = "INITIATED"]
          /\ \/ /\ Become(h, [local[h] EXCEPT !.account = a, !.step = "upsert"])
                /\ UNCHANGED faults
             \/ Fault /\ Return(h)
     \/ Return(h) /\ UNCHANGED <<composio, faults>>
  /\ UNCHANGED <<row, events, moves>>

\* upsertInitiated: an insert that loses against another falls back to the
\* same update, so the row ends the same way whatever its pre-check read.
Upsert(h) ==
  /\ At(h, "upsert")
  /\ Write(h, [status |-> "initiated", account |-> local[h].account,
               connected |-> FALSE],
           [local[h] EXCEPT !.step = "revokeReplaced"])
  /\ UNCHANGED <<composio, events, faults, moves>>

Bug_Replaced(h) == local[h].seen.status = "active"

Replaced(h) ==
  LET previous == local[h].seen
  IN  /\ previous.account \notin {NoAccount, local[h].account}
      /\ previous.status # "revoked"

\* Best effort: a failed call is logged.
RevokeReplaced(h) ==
  /\ At(h, "revokeReplaced")
  /\ \/ /\ Replaced(h)
        /\ \/ /\ composio' = [composio EXCEPT ![local[h].seen.account] = "deleted"]
              /\ UNCHANGED faults
           \/ Fault /\ UNCHANGED composio
     \/ ~Replaced(h) /\ UNCHANGED <<composio, faults>>
  /\ Return(h)
  /\ UNCHANGED <<row, events, moves>>

-----------------------------------------------------------------------------
(* read, and the read a revoke begins with; the row's owner has been checked *)

\* What the caller of reconcile does with the connection it returns.
Resume(h, connection) ==
  Become(h, IF local[h].op = "revoke"
            THEN [local[h] EXCEPT !.seen = connection, !.step = "checkRevoked"]
            ELSE Idle)

ReadRow(h) ==
  /\ At(h, "idle") /\ row.status # "absent"
  /\ \E op \in {"read", "revoke"} :
       /\ op = "read" => row.status = "initiated"
       /\ Become(h, [Idle EXCEPT !.op = op, !.seen = row,
                                 !.step = IF row.status = "initiated" THEN "lookup"
                                          ELSE "checkRevoked"])
  /\ UNCHANGED <<row, composio, events, faults, moves>>

Bug_Lookup(h) ==
  /\ At(h, "lookup")
  /\ Resume(h, local[h].seen)
  /\ UNCHANGED <<row, composio, events, faults, moves>>

\* reconcile of an initiated row: an error falls back to the row as read.
Lookup(h) ==
  /\ At(h, "lookup")
  /\ LET now == composio[local[h].seen.account]
         status == MapStatus(now)
     IN  \/ /\ now \in Live /\ status # local[h].seen.status
            /\ Become(h, [local[h] EXCEPT !.status = status, !.step = "write"])
            /\ UNCHANGED faults
         \/ /\ now \notin Live \/ status = local[h].seen.status
            /\ Resume(h, local[h].seen)
            /\ UNCHANGED faults
         \/ Fault /\ Resume(h, local[h].seen)
  /\ UNCHANGED <<row, composio, events, moves>>

\* applyStatus and updateStatus: the row is found by its id.
WriteStatus(h) ==
  /\ At(h, "write")
  /\ Write(h, [row EXCEPT !.status = local[h].status,
                          !.connected = @ \/ (/\ local[h].status = "active"
                                              /\ ~local[h].seen.connected)],
           [local[h] EXCEPT !.step = "reread"])
  /\ UNCHANGED <<composio, events, faults, moves>>

Reread(h) ==
  /\ At(h, "reread")
  /\ Resume(h, row)
  /\ UNCHANGED <<row, composio, events, faults, moves>>

-----------------------------------------------------------------------------
(* webhook *)

Bug_Settled(seen, status) == seen.status = status

\* applyStatus returns early.
Settled(seen, status) == seen.status = status \/ seen.status \in Terminal

\* A webhook whose account no row names is acknowledged and ignored.
Webhook(h) ==
  /\ At(h, "idle")
  /\ \E e \in events :
       LET status == MapStatus(e.status)
       IN  /\ e.account = row.account /\ ~Settled(row, status)
           /\ Become(h, [Idle EXCEPT !.op = "webhook", !.seen = row,
                                     !.status = status, !.step = "write"])
  /\ UNCHANGED <<row, composio, events, faults, moves>>

-----------------------------------------------------------------------------
(* revoke *)

\* Already revoked: nothing is left to do.
CheckRevoked(h) ==
  /\ At(h, "checkRevoked")
  /\ \/ local[h].seen.status = "revoked" /\ Return(h)
     \/ local[h].seen.status # "revoked" /\ Goto(h, "delete")
  /\ UNCHANGED <<row, composio, events, faults, moves>>

Bug_Delete(h) ==
  /\ At(h, "delete")
  /\ \/ /\ composio[local[h].seen.account] \in Live
        /\ composio' = [composio EXCEPT ![local[h].seen.account] = "deleted"]
        /\ UNCHANGED faults
     \/ Fault /\ UNCHANGED composio
  /\ Goto(h, "mark")
  /\ UNCHANGED <<row, events, moves>>

\* Composio throws for an account that is gone, and the request fails.
Delete(h) ==
  /\ At(h, "delete")
  /\ LET a == local[h].seen.account
     IN  \/ /\ composio[a] \in Live
            /\ composio' = [composio EXCEPT ![a] = "deleted"]
            /\ Goto(h, "mark")
            /\ UNCHANGED faults
         \/ /\ composio[a] \notin Live
            /\ Return(h)
            /\ UNCHANGED <<composio, faults>>
         \/ Fault /\ Return(h) /\ UNCHANGED composio
  /\ UNCHANGED <<row, events, moves>>

MarkRevoked(h) ==
  /\ At(h, "mark")
  /\ Write(h, [row EXCEPT !.status = "revoked"], Idle)
  /\ UNCHANGED <<composio, events, faults, moves>>

-----------------------------------------------------------------------------
(* The environment *)

\* The user authorises, access expires or fails, or is renewed; Composio
\* sends a webhook.
ComposioMoves ==
  /\ \E a \in Accounts, s \in {"ACTIVE", "FAILED", "EXPIRED"} :
       /\ composio[a] \in Live \ {s}
       /\ composio' = [composio EXCEPT ![a] = s]
       /\ events' = events \cup {[account |-> a, status |-> s]}
  /\ moves < MaxMoves /\ moves' = moves + 1
  /\ UNCHANGED <<row, local, faults, raced, overtaken>>

\* The process dies, or a query fails and with it the request.
Crash(h) ==
  /\ ~At(h, "idle")
  /\ Fault
  /\ Return(h)
  /\ UNCHANGED <<row, composio, events, moves>>

-----------------------------------------------------------------------------
Init ==
  /\ row = NoRow
  /\ composio = [a \in Accounts |-> "none"]
  /\ events = {}
  /\ local = [h \in Handlers |-> Idle]
  /\ faults = 0 /\ moves = 0
  /\ raced = {} /\ overtaken = {}

\* A handler goes on.
Continue(h) ==
  \/ Link(h) \/ Upsert(h) \/ RevokeReplaced(h)
  \/ Lookup(h) \/ WriteStatus(h) \/ Reread(h)
  \/ CheckRevoked(h) \/ Delete(h) \/ MarkRevoked(h)

Next ==
  \/ \E h \in Handlers :
       ConnectRead(h) \/ ReadRow(h) \/ Webhook(h) \/ Continue(h) \/ Crash(h)
  \/ ComposioMoves

Spec == Init /\ [][Next]_vars

\* A handler that started goes on, and the owner keeps looking at the row.
Fairness ==
  \A h \in Handlers : WF_vars(Continue(h)) /\ SF_vars(ReadRow(h))

FairSpec == Spec /\ Fairness

-----------------------------------------------------------------------------
TypeOK ==
  /\ row \in Rows
  /\ composio \in [Accounts -> Live \cup {"none", "deleted"}]
  /\ events \subseteq [account : Accounts, status : Live]
  /\ local \in [Handlers -> [op : Operations, step : Steps, seen : Rows,
                             account : Accounts \cup {NoAccount},
                             status : Statuses]]
  /\ faults \in 0 .. MaxFaults
  /\ moves \in 0 .. MaxMoves
  /\ raced \subseteq Accounts \cup {NoAccount}
  /\ overtaken \subseteq Handlers

Reported(account, status) == [account |-> account, status |-> status] \in events

\* A connection that was revoked or has failed never comes back to life by a
\* webhook, however stale or repeated, or by a reconcile: only a new connect,
\* with a new account, starts it again (TERMINAL_STATUSES).  The guard looks at
\* the row as it was read, so the one exception is a handler that was under way
\* when another one settled the row: its write finds the row by its id.
NeverRevives ==
  [][row.status \in Terminal /\ row'.status \notin Terminal
       => \/ row'.account # row.account
          \/ \E h \in overtaken : WriteStatus(h)]_row

\* In a well-typed state, the row tells the truth about the account it names: a
\* revoked connection gives no access any more, its account is deleted at
\* Composio or its access had expired there (RevokeConnectionUseCase); one that
\* counts as active does so by the authorisation of that account and is dated
\* (upsertInitiated, applyStatus).  It may be wrong only about an account it
\* named when a handler wrote what it had decided on another account.
RowMatchesAccount ==
  /\ TypeOK
  /\ row.account \notin raced =>
       /\ row.status = "revoked" =>
            composio[row.account] = "deleted" \/ Reported(row.account, "EXPIRED")
       /\ row.status = "active" => Reported(row.account, "ACTIVE") /\ row.connected

\* No handler is under way.
Quiet == \A h \in Handlers : At(h, "idle")

\* The live accounts at Composio that the row no longer names.
Orphans == {a \in Accounts : composio[a] \in Live /\ a # row.account}

\* When every call succeeded, the only accounts left behind are those whose
\* access had expired, which are taken for revoked (revokeReplacedAccount), and
\* those the row named when a handler that had read another account wrote it:
\* two connects at the same time revoke the account both have read, and neither
\* revokes the account of the one whose upsert came first.
OrphansHadExpired ==
  Quiet /\ faults = 0 => \A a \in Orphans : Reported(a, "EXPIRED") \/ a \in raced

\* A missed webhook heals: the row of an account that was authorised does not
\* stay initiated while its owner looks at it (reconcile).
MissedWebhookHeals ==
  \A a \in Accounts :
    (row.status = "initiated" /\ row.account = a /\ composio[a] = "ACTIVE")
      ~> ~(row.status = "initiated" /\ row.account = a /\ composio[a] = "ACTIVE")
=============================================================================
