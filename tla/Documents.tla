------------------------------- MODULE Documents -------------------------------
(***************************************************************************)
(* One document: its sections in PostgreSQL, its versions in MongoDB, and  *)
(* the requests of its owner that run at the same time.                    *)
(*                                                                         *)
(* Every await of a use case ends a step.  A statement that changes rows   *)
(* waits for their row locks; a transaction of several statements keeps    *)
(* its locks until it commits, and what it wrote is seen from then on.     *)
(* INSERT INTO sections checks its foreign key with a share lock on the    *)
(* document row, so it waits for who has locked that row.                  *)
(*                                                                         *)
(* Two reads in a row are one step when the second one can only end the    *)
(* request early: the statement that follows would have found no row.      *)
(***************************************************************************)
EXTENDS DocumentStore

CONSTANTS Requests,     \* bound: requests handled, each once
          Nobody,       \* holder of a free lock
          OldSections   \* sections of a document that is there at the start

ASSUME DocumentsAssumption == Nobody \notin Requests /\ OldSections \in Nat

VARIABLES
  document,  \* the row of the document exists
  created,   \* its id has been given out
  rows,      \* its sections
  next,      \* the number of the next row inserted
  versions,  \* the document_versions saved
  docLock,   \* the request whose transaction holds the document row FOR UPDATE
  rowLocks,  \* <<r, s>>: the transaction of r has updated or deleted row s
  local,     \* the requests' local variables
  events     \* emitted, and not yet handled by the listener

\* What the properties need to remember; no action reads it.
VARIABLES
  lastOrder,  \* the rows of the last reorder that committed, in its order
  revived     \* the document was deleted, and inserted again by a late update

lockVars == <<docLock, rowLocks>>
documentVars == <<document, created, revived>>
sectionVars == <<rows, next, lastOrder>>
docsVars == <<documentVars, sectionVars, versions, lockVars, local, events>>

Kinds == {"none", "createSection", "updateSection", "deleteSection", "reorder",
          "updateDocument", "deleteDocument", "saveVersion", "restore", "apply",
          "createTemplate", "editTemplate", "administerTemplate", "deleteTemplate"}

Ended == {"done", "failed", "duplicate"}

Steps == Ended \cup
  {"idle", "maxOrder", "insert", "write", "reread", "remove", "list", "move",
   "select", "update", "insertDocument", "lockDocument", "clear", "append",
   "snapshot", "maxVersion", "insertVersion", "templateSections",
   "lockTemplate", "saveTemplate", "removeTemplate"}

\* `number' is the maximum read, or the index of the row to move next; `seen'
\* the number of versions when a save began; `size'
\* and `publish' what a template has, or is to have.
Locals == [kind : Kinds, step : Steps, section : Nat, order : Seq(Nat),
           words : Words, number : Int, content : Seq(Contents),
           targets : SUBSET Nat, retried : BOOLEAN, seen : Nat, size : Nat,
           publish : BOOLEAN]

Idle == [kind |-> "none", step |-> "idle", section |-> 0, order |-> <<>>,
         words |-> "brief", number |-> 0, content |-> <<>>, targets |-> {},
         retried |-> FALSE, seen |-> 0, size |-> 0, publish |-> FALSE]

At(r, step) == local[r].step = step
Goto(r, step) == local' = [local EXCEPT ![r].step = step]
End(r, outcome) == local' = [local EXCEPT ![r] = [Idle EXCEPT !.step = outcome]]

Emit(r, event, words) ==
  events' = events \cup {[from |-> r, event |-> event, words |-> words, stage |-> "award"]}

DocumentsInit ==
  /\ \/ document = FALSE /\ created = FALSE /\ rows = <<>> /\ next = 1 /\ versions = {}
     \/ /\ document = TRUE /\ created = TRUE /\ next = OldSections + 1
        /\ rows = [s \in 1 .. OldSections |->
                     [order |-> s - 1, words |-> "brief", placed |-> "created"]]
        /\ versions = {[number |-> 1, content |-> Blank(1, -1), by |-> Nobody]}
  /\ docLock = Nobody
  /\ rowLocks = {}
  /\ local = [r \in Requests |-> Idle]
  /\ events = {}
  /\ lastOrder = <<>>
  /\ revived = FALSE
-----------------------------------------------------------------------------
\* Locks.

Free(r, s) == \A q \in Requests \ {r} : <<q, s>> \notin rowLocks
Mine(r) == {lock[2] : lock \in {l \in rowLocks : l[1] = r}}

\* What an UPDATE or DELETE of row s leaves locked: nothing if it is gone.
Locking(r, s) == IF s \in DOMAIN rows THEN {<<r, s>>} ELSE {}

\* The transaction of r ends.
Release(r) ==
  /\ docLock' = IF docLock = r THEN Nobody ELSE docLock
  /\ rowLocks' = {l \in rowLocks : l[1] # r}

\* No other transaction holds the document row.
DocumentFree(r) == docLock \in {r, Nobody}

\* The rows that the next statement of r may wait for.
Wants(r) ==
  CASE At(r, "move") /\ local[r].number <= Len(local[r].order) ->
         {local[r].order[local[r].number]}
    [] At(r, "clear") -> local[r].targets
    [] OTHER -> {}

WaitsFor(r) == {q \in Requests \ {r} : \E s \in Wants(r) : <<q, s>> \in rowLocks}

\* PostgreSQL ends a deadlock: a statement of one of its transactions fails,
\* and with it the request, for no repository retries.
DeadlockVictim(r) ==
  /\ Mine(r) # {}
  /\ \E S \in SUBSET Requests :
       r \in S /\ \A q \in S : WaitsFor(q) \cap S # {}
  /\ Release(r)
  /\ End(r, "failed")
  /\ UNCHANGED <<documentVars, sectionVars, versions, events>>
-----------------------------------------------------------------------------
\* Requests.

CreateDocument(r) ==
  /\ At(r, "idle")
  /\ ~created
  /\ document' = TRUE
  /\ created' = TRUE
  /\ Emit(r, "document.created", "brief")
  /\ End(r, "done")
  /\ UNCHANGED <<revived, sectionVars, versions, lockVars>>

\* What the owner may ask for, knowing the sections and versions there are.
Asked ==
  {[Idle EXCEPT !.kind = "createSection", !.step = "maxOrder", !.words = w] : w \in Words}
  \cup {[Idle EXCEPT !.kind = "updateSection", !.step = "write", !.section = s, !.words = w]
          : s \in DOMAIN rows, w \in Words}
  \cup {[Idle EXCEPT !.kind = "deleteSection", !.step = "remove", !.section = s]
          : s \in DOMAIN rows}
  \cup {[Idle EXCEPT !.kind = "reorder", !.step = "list", !.order = o]
          : o \in SetToSeqs(DOMAIN rows) \ {<<>>}}
  \cup {[Idle EXCEPT !.kind = "updateDocument", !.step = "select"],
        [Idle EXCEPT !.kind = "deleteDocument", !.step = "lockDocument"],
        [Idle EXCEPT !.kind = "saveVersion", !.step = "snapshot"]}
  \cup {[Idle EXCEPT !.kind = "restore", !.step = "lockDocument", !.content = v.content]
          : v \in versions}

\* The request finds the document, and the section or the version it names.
Begin(r) ==
  /\ At(r, "idle")
  /\ document
  /\ \E asked \in Asked : local' = [local EXCEPT ![r] = asked]
  /\ UNCHANGED <<documentVars, sectionVars, versions, lockVars, events>>
-----------------------------------------------------------------------------
\* Sections, one statement at a time.

ReadMaxOrder(r) ==
  /\ At(r, "maxOrder")
  /\ local' = [local EXCEPT ![r].number = MaxOrder(rows), ![r].step = "insert"]
  /\ UNCHANGED <<documentVars, sectionVars, versions, lockVars, events>>

Bug_InsertSection(r) ==
  /\ At(r, "insert")
  /\ rows' = Inserted(rows, next,
               <<[order |-> local[r].number + 1, words |-> local[r].words]>>, "created")
  /\ next' = next + 1
  /\ Emit(r, "section.created", "brief")
  /\ End(r, "done")
  /\ UNCHANGED <<documentVars, lastOrder, versions, lockVars>>

InsertSection(r) ==
  /\ At(r, "insert")
  /\ DocumentFree(r)
  /\ IF document
     THEN /\ rows' = Inserted(rows, next,
                       <<[order |-> local[r].number + 1, words |-> local[r].words]>>, "created")
          /\ next' = next + 1
          /\ Emit(r, "section.created", "brief")
          /\ End(r, "done")
     ELSE End(r, "failed") /\ UNCHANGED <<rows, next, events>>
  /\ UNCHANGED <<documentVars, lastOrder, versions, lockVars>>

\* A patch without content leaves the words, and so does one that finds no row.
WriteSection(r) ==
  LET s == local[r].section IN
  /\ At(r, "write")
  /\ Free(r, s)
  /\ \/ rows' = rows
     \/ s \in DOMAIN rows /\ rows' = [rows EXCEPT ![s].words = local[r].words]
  /\ Goto(r, "reread")
  /\ UNCHANGED <<documentVars, next, lastOrder, versions, lockVars, events>>

\* The event carries the words found now, which another request may have written.
RereadSection(r) ==
  LET s == local[r].section IN
  /\ At(r, "reread")
  /\ IF s \in DOMAIN rows
     THEN Emit(r, "section.updated", rows[s].words) /\ End(r, "done")
     ELSE End(r, "failed") /\ UNCHANGED events
  /\ UNCHANGED <<documentVars, sectionVars, versions, lockVars>>

RemoveSection(r) ==
  /\ At(r, "remove")
  /\ Free(r, local[r].section)
  /\ rows' = Deleted(rows, {local[r].section})
  /\ End(r, "done")
  /\ UNCHANGED <<documentVars, next, lastOrder, versions, lockVars, events>>
-----------------------------------------------------------------------------
\* Reordering: the check reads outside the transaction.

ListSections(r) ==
  /\ At(r, "list")
  /\ IF IsListingOf(local[r].order, rows)
     THEN local' = [local EXCEPT ![r].step = "move", ![r].number = 1]
     ELSE End(r, "failed")
  /\ UNCHANGED <<documentVars, sectionVars, versions, lockVars, events>>

\* Every UPDATE commits on its own.
Bug_MoveRow(r) ==
  LET i == local[r].number IN
  /\ At(r, "move")
  /\ i <= Len(local[r].order)
  /\ rows' = Moved(rows, local[r].order, {local[r].order[i]})
  /\ local' = [local EXCEPT ![r].number = i + 1]
  /\ UNCHANGED <<documentVars, next, lastOrder, versions, lockVars, events>>

MoveRow(r) ==
  LET i == local[r].number
      s == local[r].order[i] IN
  /\ At(r, "move")
  /\ i <= Len(local[r].order)
  /\ Free(r, s)
  /\ rowLocks' = rowLocks \cup Locking(r, s)
  /\ local' = [local EXCEPT ![r].number = i + 1]
  /\ UNCHANGED <<documentVars, sectionVars, versions, docLock, events>>

CommitReorder(r) ==
  /\ At(r, "move")
  /\ local[r].number > Len(local[r].order)
  /\ rows' = Moved(rows, local[r].order, Mine(r))
  /\ lastOrder' = local[r].order
  /\ Release(r)
  /\ End(r, "done")
  /\ UNCHANGED <<documentVars, next, versions, events>>
-----------------------------------------------------------------------------
\* The document row.  save() of a preloaded entity looks for its row again,
\* and inserts it when it finds none.

SelectForSave(r) ==
  /\ At(r, "select")
  /\ Goto(r, IF document THEN "update" ELSE "insertDocument")
  /\ UNCHANGED <<documentVars, sectionVars, versions, lockVars, events>>

\* Columns that nothing here reads, or no row at all.
SaveDocument(r) ==
  /\ At(r, "update")
  /\ DocumentFree(r)
  /\ End(r, "done")
  /\ UNCHANGED <<documentVars, sectionVars, versions, lockVars, events>>

ReinsertDocument(r) ==
  /\ At(r, "insertDocument")
  /\ DocumentFree(r)
  /\ document' = TRUE
  /\ revived' = (revived \/ ~document)
  /\ End(r, IF document THEN "failed" ELSE "done")
  /\ UNCHANGED <<created, sectionVars, versions, lockVars, events>>
-----------------------------------------------------------------------------
\* The transactions that lock the document row: deleting it, restoring a
\* version, applying a template.  What the second statement reads is read with
\* the lock: no row can be added in between, and who removes or moves one is
\* ordered before.

Bug_LockDocument(r) ==
  /\ At(r, "lockDocument")
  /\ local' = [local EXCEPT
       ![r].step = IF local[r].kind = "apply" THEN "append" ELSE "clear",
       ![r].targets = IF local[r].kind = "apply" THEN {} ELSE DOMAIN rows,
       ![r].number = IF local[r].kind = "apply" THEN MaxOrder(rows) ELSE 0]
  /\ docLock' = IF local[r].kind # "deleteDocument" THEN docLock ELSE r
  /\ UNCHANGED <<documentVars, sectionVars, versions, rowLocks, events>>

LockDocument(r) ==
  /\ At(r, "lockDocument")
  /\ docLock = Nobody
  /\ docLock' = IF document THEN r ELSE Nobody
  /\ local' = [local EXCEPT
       ![r].step = IF local[r].kind = "apply" THEN "append" ELSE "clear",
       ![r].targets = IF local[r].kind = "apply" THEN {} ELSE DOMAIN rows,
       ![r].number = IF local[r].kind = "apply" THEN MaxOrder(rows) ELSE 0]
  /\ UNCHANGED <<documentVars, sectionVars, versions, rowLocks, events>>

\* DELETE FROM sections WHERE document_id, or the cascade, comes to a row.
ClearRow(r) ==
  /\ At(r, "clear")
  /\ \E s \in local[r].targets :
       /\ Free(r, s)
       /\ rowLocks' = rowLocks \cup Locking(r, s)
       /\ local' = [local EXCEPT ![r].targets = @ \ {s}]
  /\ UNCHANGED <<documentVars, sectionVars, versions, docLock, events>>

\* The DELETE of a document has removed no row when it was gone already.
DeleteDocument(r) ==
  /\ At(r, "clear")
  /\ local[r].kind = "deleteDocument"
  /\ local[r].targets = {}
  /\ document' = IF docLock = r THEN FALSE ELSE document
  /\ rows' = Deleted(rows, Mine(r))
  /\ Release(r)
  /\ End(r, "done")
  /\ UNCHANGED <<created, revived, next, lastOrder, versions, events>>

ReplaceSections(r) ==
  LET content == local[r].content IN
  /\ At(r, "clear")
  /\ local[r].kind = "restore"
  /\ local[r].targets = {}
  /\ DocumentFree(r)
  /\ IF document
     THEN /\ rows' = Inserted(Deleted(rows, Mine(r)), next, content, "restored")
          /\ next' = next + Len(content)
     ELSE UNCHANGED <<rows, next>>
  /\ Release(r)
  /\ End(r, IF document \/ content = <<>> THEN "done" ELSE "failed")
  /\ UNCHANGED <<documentVars, lastOrder, versions, events>>
-----------------------------------------------------------------------------
\* Versions.

TakeSnapshot(r) ==
  /\ At(r, "snapshot")
  /\ \E age \in Ages(rows) :
       local' = [local EXCEPT ![r].content = Snapshot(rows, age), ![r].step = "maxVersion",
                              ![r].seen = Cardinality(versions)]
  /\ UNCHANGED <<documentVars, sectionVars, versions, lockVars, events>>

ReadMaxVersion(r) ==
  /\ At(r, "maxVersion")
  /\ local' = [local EXCEPT ![r].number = MaxVersion(versions), ![r].step = "insertVersion"]
  /\ UNCHANGED <<documentVars, sectionVars, versions, lockVars, events>>

Bug_Taken(number) == FALSE

\* The index on (document_id, version) rejects a number that is taken.
Taken(number) == \E v \in versions : v.number = number

InsertVersion(r) ==
  LET number == local[r].number + 1 IN
  /\ At(r, "insertVersion")
  /\ CASE ~Taken(number) ->
            /\ versions' = versions \cup
                 {[number |-> number, content |-> local[r].content, by |-> r]}
            /\ End(r, "done")
       [] Taken(number) /\ ~local[r].retried ->
            /\ local' = [local EXCEPT ![r].step = "maxVersion", ![r].retried = TRUE]
            /\ UNCHANGED versions
       [] OTHER -> Goto(r, "duplicate") /\ UNCHANGED versions
  /\ UNCHANGED <<documentVars, sectionVars, lockVars, events>>

DocumentsStep(r) ==
  \/ Begin(r)
  \/ ReadMaxOrder(r) \/ InsertSection(r)
  \/ WriteSection(r) \/ RereadSection(r) \/ RemoveSection(r)
  \/ ListSections(r) \/ MoveRow(r) \/ CommitReorder(r)
  \/ SelectForSave(r) \/ SaveDocument(r) \/ ReinsertDocument(r)
  \/ LockDocument(r) \/ ClearRow(r) \/ ReplaceSections(r)
  \/ TakeSnapshot(r) \/ ReadMaxVersion(r) \/ InsertVersion(r)
  \/ CreateDocument(r) \/ DeadlockVictim(r)
=============================================================================
