------------------------------ MODULE AuditLog ------------------------------
(***************************************************************************)
(* The audit log: what a use case emits after its write, the listener      *)
(* (audit.listener.ts) stores as a row, later and once, or not at all: a   *)
(* failed write is logged and swallowed, and a process that ends takes the *)
(* events it has not stored with it.  Rows are never changed.              *)
(***************************************************************************)
VARIABLES
  events,  \* emitted, and not yet stored
  audit    \* audit_logs

\* The row for an event: its name is the action, what it says beside the user
\* is the metadata.
EntryOf(event) ==
  [action |-> event.name, user |-> event.user, metadata |-> event.payload]

\* emit: the request does not wait for the listener.
Emit(event) ==
  /\ events' = events \cup {event}
  /\ UNCHANGED audit

Silent == UNCHANGED <<events, audit>>

\* The repository only ever inserts.
Save(entry) == audit' = audit \cup {entry}

\* RecordAuditEventUseCase.
Record(event) ==
  /\ event \in events
  /\ events' = events \ {event}
  /\ Save(EntryOf(event))

\* safeRecord catches the failure.
Lose(event) ==
  /\ event \in events
  /\ events' = events \ {event}
  /\ UNCHANGED audit
=============================================================================
