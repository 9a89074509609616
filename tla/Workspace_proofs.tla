--------------------------- MODULE Workspace_proofs ---------------------------
(***************************************************************************)
(* The documents, templates and rewards, for any number of requests,       *)
(* sections, versions and template sections: every property of Workspace   *)
(* that is checked, but the one that the code does not have.               *)
(*                                                                         *)
(* OrphanInv       Who holds the document row is in the middle of a        *)
(*                 transaction that locked it; while that is a deletion,   *)
(*                 every section is one that it still has to come to or    *)
(*                 has locked, for those that would add one wait.  So when *)
(*                 it has come to all of them and commits, none is left.   *)
(* TypeInv         TypeOK, and what keeps it: the locks of a transaction   *)
(*                 are on rows of its statement, and a maximum that was    *)
(*                 read is no less than the least there is.                *)
(* EditInv         Who is about to save a template holds its row, and an   *)
(*                 author's request one that is not published.             *)
(* VersionsInv     A save whose number was taken has missed a version.     *)
(* RewardInv       The XP is what the awards were worth.                   *)
(* ReorderInv      The rows a reorder has come to are locked by it; those  *)
(*                 that the last one placed are where it put them.         *)
(* GrantInv        Who should hold the document row and does not found     *)
(*                 none; there is none then, until one comes back.         *)
(* AppliedInv      The maximum that an application read is still that of   *)
(*                 the sections appended.                                  *)
(* SortedInv       Versions list their sections in order.                  *)
(* ClearInv        A restore has come to every section or still will.      *)
(***************************************************************************)
EXTENDS Workspace, FiniteSetTheorems, TLAPS

\* The local variables are records: no more than these fields is needed of them.
Fields == {"kind", "step", "targets"}

LocalsShape ==
  /\ DOMAIN local = Requests
  /\ \A r \in Requests : Fields \subseteq DOMAIN local[r]

Holder == docLock # Nobody =>
  docLock \in Requests /\ local[docLock].step \in {"clear", "append"}

Covered ==
  \A r \in Requests :
    docLock = r /\ local[r].kind = "deleteDocument"
      => DOMAIN rows \subseteq local[r].targets \cup Mine(r)

OrphanInv ==
  /\ LocalsShape
  /\ ~document => DOMAIN rows = {} /\ docLock = Nobody
  /\ Holder
  /\ Covered

OthersUnchanged(r) == \A q \in Requests \ {r} : local'[q] = local[q]

-----------------------------------------------------------------------------
\* Going to a step changes that and nothing else.
LEMMA GotoFacts ==
  ASSUME LocalsShape, NEW r \in Requests, NEW step, Goto(r, step)
  PROVE  /\ LocalsShape' /\ OthersUnchanged(r)
         /\ local'[r].step = step /\ local'[r].kind = local[r].kind
BY DEF LocalsShape, Fields, OthersUnchanged, Goto

\* Ending leaves nothing of the request but its outcome.
LEMMA EndFacts ==
  ASSUME LocalsShape, NEW r \in Requests, NEW outcome, End(r, outcome)
  PROVE  LocalsShape' /\ OthersUnchanged(r) /\ local'[r].step = outcome
BY DEF LocalsShape, Fields, OthersUnchanged, End, Idle

\* Replacing the record of one request.
LEMMA RecordFacts ==
  ASSUME LocalsShape, NEW r \in Requests, NEW x, Fields \subseteq DOMAIN x,
         local' = [local EXCEPT ![r] = x]
  PROVE  LocalsShape' /\ OthersUnchanged(r) /\ local'[r] = x
BY DEF LocalsShape, Fields, OthersUnchanged

\* A step of a request that holds no lock on the document and adds no section.
LEMMA QuietStep ==
  ASSUME OrphanInv, NEW r \in Requests, docLock # r, LocalsShape', OthersUnchanged(r),
         document' = document \/ document', DOMAIN rows' \subseteq DOMAIN rows,
         \A q \in Requests \ {r} : Mine(q)' = Mine(q), docLock' = docLock
  PROVE  OrphanInv'
<1>1. ASSUME NEW q \in Requests, docLock' = q, local'[q].kind = "deleteDocument"
      PROVE  DOMAIN rows' \subseteq local'[q].targets \cup Mine(q)'
  BY <1>1 DEF OrphanInv, Covered, OthersUnchanged
<1>2. Covered'
  BY <1>1 DEF Covered
<1>3. Holder'
  BY DEF OrphanInv, Holder, OthersUnchanged
<1>4. ~document' => DOMAIN rows' = {} /\ docLock' = Nobody
  BY DEF OrphanInv
<1>5. QED
  BY <1>2, <1>3, <1>4 DEF OrphanInv

\* A transaction that ends, and adds sections at most to a document it may use.
LEMMA ReleaseStep ==
  ASSUME OrphanInv, NEW r \in Requests, LocalsShape', OthersUnchanged(r), Release(r),
         document' = document,
         DOMAIN rows' \subseteq DOMAIN rows \/ (document /\ docLock \in {r, Nobody})
  PROVE  OrphanInv'
<1>1. docLock' # Nobody => docLock' = docLock /\ docLock # r
  BY DEF Release
<1>2. \A q \in Requests \ {r} : Mine(q)' = Mine(q)
  BY DEF Release, Mine
<1>3. docLock' # Nobody => DOMAIN rows' \subseteq DOMAIN rows
  BY <1>1
<1>4. ASSUME NEW q \in Requests, docLock' = q, local'[q].kind = "deleteDocument"
      PROVE  DOMAIN rows' \subseteq local'[q].targets \cup Mine(q)'
  <2>1. q # Nobody /\ docLock = q /\ q # r
    BY <1>1, <1>4, DocumentsAssumption
  <2>2. local'[q] = local[q] /\ Mine(q)' = Mine(q)
    BY <1>2, <2>1 DEF OthersUnchanged
  <2>3. DOMAIN rows \subseteq local[q].targets \cup Mine(q)
    BY <1>4, <2>1, <2>2 DEF OrphanInv, Covered
  <2>4. QED
    BY <1>3, <1>4, <2>1, <2>2, <2>3
<1>5. Covered'
  BY <1>4 DEF Covered
<1>6. Holder'
  BY <1>1 DEF OrphanInv, Holder, OthersUnchanged
<1>7. ~document' => DOMAIN rows' = {} /\ docLock' = Nobody
  BY <1>1 DEF OrphanInv
<1>8. QED
  BY <1>5, <1>6, <1>7 DEF OrphanInv

\* A row that a statement comes to is locked, and nobody else's locks change.
LEMMA LockingFacts ==
  ASSUME NEW r \in Requests, NEW s, rowLocks' = rowLocks \cup Locking(r, s)
  PROVE  /\ \A q \in Requests \ {r} : Mine(q)' = Mine(q)
         /\ Mine(r) \subseteq Mine(r)'
         /\ s \in DOMAIN rows => s \in Mine(r)'
<1>1. \A l \in Locking(r, s) : l[1] = r
  BY DEF Locking
<1>2. \A q \in Requests \ {r} : Mine(q)' = Mine(q)
  BY <1>1 DEF Mine
<1>3. Mine(r) \subseteq Mine(r)'
  BY DEF Mine
<1>4. ASSUME s \in DOMAIN rows
      PROVE  s \in Mine(r)'
  <2>1. <<r, s>> \in rowLocks'
    BY <1>4 DEF Locking
  <2>2. QED
    BY <2>1 DEF Mine
<1>5. QED
  BY <1>2, <1>3, <1>4

\* Whose step is none of a locking transaction does not hold the document.
LEMMA NotHolder ==
  ASSUME OrphanInv, NEW r \in Requests, local[r].step \notin {"clear", "append"}
  PROVE  docLock # r
BY DocumentsAssumption DEF OrphanInv, Holder

\* The rows that statements leave.
LEMMA RowsFacts ==
  /\ \A ids : DOMAIN Deleted(rows, ids) = DOMAIN rows \ ids
  /\ \A order, ids : DOMAIN Moved(rows, order, ids) = DOMAIN rows
BY DEF Deleted, Restrict, Moved

\* Every request asked is such a record.
LEMMA AskedFacts == \A x \in Asked : Fields \subseteq DOMAIN x
<1> DEFINE Plain(k, step) == [Idle EXCEPT !.kind = k, !.step = step]
           Creating(w)    == [Idle EXCEPT !.kind = "createSection", !.step = "maxOrder",
                                          !.words = w]
           Updating(s, w) == [Idle EXCEPT !.kind = "updateSection", !.step = "write",
                                          !.section = s, !.words = w]
           Deleting(s)    == [Idle EXCEPT !.kind = "deleteSection", !.step = "remove",
                                          !.section = s]
           Reordering(o)  == [Idle EXCEPT !.kind = "reorder", !.step = "list", !.order = o]
           Restoring(c)   == [Idle EXCEPT !.kind = "restore", !.step = "lockDocument",
                                          !.content = c]
<1>1. Asked = {Creating(w) : w \in Words}
              \cup {Updating(s, w) : s \in DOMAIN rows, w \in Words}
              \cup {Deleting(s) : s \in DOMAIN rows}
              \cup {Reordering(o) : o \in SetToSeqs(DOMAIN rows) \ {<<>>}}
              \cup {Plain("updateDocument", "select"),
                    Plain("deleteDocument", "lockDocument"), Plain("saveVersion", "snapshot")}
              \cup {Restoring(v.content) : v \in versions}
  BY DEF Asked
<1>2. /\ \A k, step : Fields \subseteq DOMAIN Plain(k, step)
      /\ \A w : Fields \subseteq DOMAIN Creating(w)
      /\ \A s, w : Fields \subseteq DOMAIN Updating(s, w)
      /\ \A s : Fields \subseteq DOMAIN Deleting(s)
      /\ \A o : Fields \subseteq DOMAIN Reordering(o)
      /\ \A c : Fields \subseteq DOMAIN Restoring(c)
  BY DEF Fields, Idle
<1> HIDE DEF Plain, Creating, Updating, Deleting, Reordering, Restoring
<1>3. QED
  BY <1>1, <1>2

-----------------------------------------------------------------------------
\* Beginning: the record of the request is one of those it may ask for.
LEMMA BeginSteps ==
  ASSUME OrphanInv, NEW r \in Requests, UNCHANGED <<documentVars, sectionVars, lockVars>>,
         At(r, "idle"), NEW x, Fields \subseteq DOMAIN x, local' = [local EXCEPT ![r] = x]
  PROVE  OrphanInv'
<1>1. docLock # r
  BY NotHolder DEF At
<1>2. LocalsShape' /\ OthersUnchanged(r)
  BY RecordFacts DEF OrphanInv
<1>3. \A q \in Requests : Mine(q)' = Mine(q)
  BY DEF Mine, lockVars
<1>4. QED
  BY <1>1, <1>2, <1>3, QuietStep DEF documentVars, sectionVars, lockVars

\* A request that ends, holds nothing and adds nothing.
LEMMA EndSteps ==
  ASSUME OrphanInv, NEW r \in Requests, UNCHANGED lockVars, NEW outcome, End(r, outcome),
         local[r].step \notin {"clear", "append"},
         document' = document \/ document', DOMAIN rows' \subseteq DOMAIN rows
  PROVE  OrphanInv'
<1>1. docLock # r
  BY NotHolder
<1>2. LocalsShape' /\ OthersUnchanged(r)
  BY EndFacts DEF OrphanInv
<1>3. \A q \in Requests : Mine(q)' = Mine(q)
  BY DEF Mine, lockVars
<1>4. QED
  BY <1>1, <1>2, <1>3, QuietStep DEF lockVars

\* A request that goes on, holds nothing and adds nothing.
LEMMA GotoSteps ==
  ASSUME OrphanInv, NEW r \in Requests, UNCHANGED lockVars, NEW step, Goto(r, step),
         local[r].step \notin {"clear", "append"},
         document' = document \/ document', DOMAIN rows' \subseteq DOMAIN rows
  PROVE  OrphanInv'
<1>1. docLock # r
  BY NotHolder
<1>2. LocalsShape' /\ OthersUnchanged(r)
  BY GotoFacts DEF OrphanInv
<1>3. \A q \in Requests : Mine(q)' = Mine(q)
  BY DEF Mine, lockVars
<1>4. QED
  BY <1>1, <1>2, <1>3, QuietStep DEF lockVars

\* The same for one that remembers what it has read.
LEMMA ReadSteps ==
  ASSUME OrphanInv, NEW r \in Requests, LocalsShape', OthersUnchanged(r),
         UNCHANGED <<documentVars, sectionVars, lockVars>>,
         local[r].step \notin {"clear", "append"}
  PROVE  OrphanInv'
<1>1. docLock # r
  BY NotHolder
<1>2. \A q \in Requests : Mine(q)' = Mine(q)
  BY DEF Mine, lockVars
<1>3. QED
  BY <1>1, <1>2, QuietStep DEF documentVars, sectionVars, lockVars

-----------------------------------------------------------------------------
\* One lemma for every step of a request: it keeps the invariant.

\* Begin of Documents.
LEMMA BeginInv ==
  ASSUME OrphanInv, NEW r \in Requests, Begin(r)
  PROVE  OrphanInv'
<1>1. PICK x \in Asked : local' = [local EXCEPT ![r] = x]
  BY DEF Begin
<1>2. Fields \subseteq DOMAIN x
  BY <1>1, AskedFacts
<1>3. QED
  BY <1>1, <1>2, BeginSteps DEF Begin

\* The read of the greatest order, which create makes first.
LEMMA ReadMaxOrderInv ==
  ASSUME OrphanInv, NEW r \in Requests, ReadMaxOrder(r)
  PROVE  OrphanInv'
<1>1. LocalsShape' /\ OthersUnchanged(r)
  BY DEF OrphanInv, ReadMaxOrder, LocalsShape, Fields, OthersUnchanged
<1>2. QED
  BY <1>1, ReadSteps DEF ReadMaxOrder, At

\* The insert of create: who holds the document row makes it wait.
LEMMA InsertSectionInv ==
  ASSUME OrphanInv, NEW r \in Requests, InsertSection(r)
  PROVE  OrphanInv'
<1>1. local[r].step = "insert"
  BY DEF InsertSection, At
<1>2. docLock # r
  BY <1>1, NotHolder
<1>3. docLock = Nobody
  BY <1>2 DEF InsertSection, DocumentFree
<1>4. CASE ~document
  <2>1. End(r, "failed") /\ rows' = rows /\ document' = document /\ UNCHANGED lockVars
    BY <1>4 DEF InsertSection, documentVars
  <2>2. QED
    BY <1>1, <2>1, EndSteps
<1>5. CASE document
  <2>1. LocalsShape'
    BY <1>5, EndFacts DEF InsertSection, OrphanInv
  <2>2. document' /\ docLock' = Nobody
    BY <1>3, <1>5 DEF InsertSection, documentVars, lockVars
  <2>3. QED
    BY <2>1, <2>2, DocumentsAssumption DEF OrphanInv, Holder, Covered
<1>6. QED
  BY <1>4, <1>5

\* The write of an update.
LEMMA WriteSectionInv ==
  ASSUME OrphanInv, NEW r \in Requests, WriteSection(r)
  PROVE  OrphanInv'
<1>1. local[r].step = "write" /\ Goto(r, "reread") /\ UNCHANGED lockVars
  BY DEF WriteSection, At
<1>2. document' = document /\ DOMAIN rows' \subseteq DOMAIN rows
  BY DEF WriteSection, documentVars
<1>3. QED
  BY <1>1, <1>2, GotoSteps

\* The read that answers an update.
LEMMA RereadSectionInv ==
  ASSUME OrphanInv, NEW r \in Requests, RereadSection(r)
  PROVE  OrphanInv'
<1>1. local[r].step = "reread" /\ UNCHANGED lockVars
  BY DEF RereadSection, At
<1>2. End(r, "done") \/ End(r, "failed")
  BY DEF RereadSection
<1>3. document' = document /\ rows' = rows
  BY DEF RereadSection, documentVars, sectionVars
<1>4. QED
  BY <1>1, <1>2, <1>3, EndSteps

\* The deletion of a section.
LEMMA RemoveSectionInv ==
  ASSUME OrphanInv, NEW r \in Requests, RemoveSection(r)
  PROVE  OrphanInv'
<1>1. local[r].step = "remove" /\ End(r, "done") /\ UNCHANGED lockVars
  BY DEF RemoveSection, At
<1>2. document' = document /\ DOMAIN rows' \subseteq DOMAIN rows
  BY RowsFacts DEF RemoveSection, documentVars
<1>3. QED
  BY <1>1, <1>2, EndSteps

\* The check of a reorder.
LEMMA ListSectionsInv ==
  ASSUME OrphanInv, NEW r \in Requests, ListSections(r)
  PROVE  OrphanInv'
<1>1. local[r].step = "list" /\ UNCHANGED <<documentVars, sectionVars, lockVars>>
  BY DEF ListSections, At
<1>2. CASE End(r, "failed")
  BY <1>1, <1>2, EndSteps DEF documentVars, sectionVars
<1>3. CASE local' = [local EXCEPT ![r].step = "move", ![r].number = 1]
  <2>1. LocalsShape' /\ OthersUnchanged(r)
    BY <1>3 DEF OrphanInv, LocalsShape, Fields, OthersUnchanged
  <2>2. QED
    BY <1>1, <2>1, ReadSteps
<1>4. QED
  BY <1>2, <1>3 DEF ListSections

\* One UPDATE of a reorder.
LEMMA MoveRowInv ==
  ASSUME OrphanInv, NEW r \in Requests, MoveRow(r)
  PROVE  OrphanInv'
<1>1. LocalsShape' /\ OthersUnchanged(r)
  BY DEF OrphanInv, MoveRow, LocalsShape, Fields, OthersUnchanged
<1>2. /\ local[r].step = "move" /\ UNCHANGED <<documentVars, sectionVars, docLock>>
      /\ \E s : rowLocks' = rowLocks \cup Locking(r, s)
  BY DEF MoveRow, At
<1>3. \A q \in Requests \ {r} : Mine(q)' = Mine(q)
  BY <1>2, LockingFacts
<1>4. docLock # r
  BY <1>2, NotHolder
<1>5. QED
  BY <1>1, <1>2, <1>3, <1>4, QuietStep DEF documentVars, sectionVars

\* The COMMIT of a reorder.
LEMMA CommitReorderInv ==
  ASSUME OrphanInv, NEW r \in Requests, CommitReorder(r)
  PROVE  OrphanInv'
<1>1. LocalsShape' /\ OthersUnchanged(r)
  BY EndFacts DEF CommitReorder, OrphanInv
<1>2. DOMAIN rows' = DOMAIN rows
  BY RowsFacts DEF CommitReorder
<1>3. Release(r) /\ document' = document
  BY DEF CommitReorder, documentVars
<1>4. DOMAIN rows' \subseteq DOMAIN rows \/ (document /\ docLock \in {r, Nobody})
  BY <1>2
<1>5. QED
  BY <1>1, <1>3, <1>4, ReleaseStep

-----------------------------------------------------------------------------
\* The read that save() makes of the document.
LEMMA SelectForSaveInv ==
  ASSUME OrphanInv, NEW r \in Requests, SelectForSave(r)
  PROVE  OrphanInv'
<1>1. local[r].step = "select" /\ UNCHANGED <<documentVars, sectionVars, lockVars>>
  BY DEF SelectForSave, At
<1>2. \E step : Goto(r, step)
  BY DEF SelectForSave
<1>3. QED
  BY <1>1, <1>2, GotoSteps DEF documentVars, sectionVars

\* The UPDATE that save() makes.
LEMMA SaveDocumentInv ==
  ASSUME OrphanInv, NEW r \in Requests, SaveDocument(r)
  PROVE  OrphanInv'
<1>1. /\ local[r].step = "update" /\ End(r, "done")
      /\ UNCHANGED <<documentVars, sectionVars, lockVars>>
  BY DEF SaveDocument, At
<1>2. QED
  BY <1>1, EndSteps DEF documentVars, sectionVars

\* The INSERT that save() makes.
LEMMA ReinsertDocumentInv ==
  ASSUME OrphanInv, NEW r \in Requests, ReinsertDocument(r)
  PROVE  OrphanInv'
<1>1. /\ local[r].step = "insertDocument" /\ document'
      /\ UNCHANGED <<sectionVars, lockVars>>
  BY DEF ReinsertDocument, At
<1>2. \E outcome : End(r, outcome)
  BY DEF ReinsertDocument
<1>3. QED
  BY <1>1, <1>2, EndSteps DEF sectionVars

\* The creation of the document.
LEMMA CreateDocumentInv ==
  ASSUME OrphanInv, NEW r \in Requests, CreateDocument(r)
  PROVE  OrphanInv'
<1>1. /\ local[r].step = "idle" /\ document' /\ End(r, "done")
      /\ UNCHANGED <<sectionVars, lockVars>>
  BY DEF CreateDocument, At
<1>2. QED
  BY <1>1, EndSteps DEF sectionVars

\* A deadlock's victim.
LEMMA DeadlockVictimInv ==
  ASSUME OrphanInv, NEW r \in Requests, DeadlockVictim(r)
  PROVE  OrphanInv'
<1>1. LocalsShape' /\ OthersUnchanged(r)
  BY EndFacts DEF DeadlockVictim, OrphanInv
<1>2. Release(r) /\ document' = document /\ rows' = rows
  BY DEF DeadlockVictim, documentVars, sectionVars
<1>3. DOMAIN rows' \subseteq DOMAIN rows \/ (document /\ docLock \in {r, Nobody})
  BY <1>2
<1>4. QED
  BY <1>1, <1>2, <1>3, ReleaseStep

-----------------------------------------------------------------------------
\* The transactions that lock the document row.  From the lock on, a deletion
\* has every section among its targets.
LEMMA LockDocumentInv ==
  ASSUME OrphanInv, NEW r \in Requests, LockDocument(r)
  PROVE  OrphanInv'
<1>1. /\ UNCHANGED <<documentVars, sectionVars, rowLocks>>
      /\ docLock' = IF document THEN r ELSE Nobody
  BY DEF LockDocument
<1>2. LocalsShape' /\ local'[r].kind = local[r].kind
      /\ local'[r].step \in {"clear", "append"}
  BY DEF OrphanInv, LockDocument, LocalsShape, Fields
<1>3. local[r].kind = "deleteDocument" => local'[r].targets = DOMAIN rows
  BY DEF OrphanInv, LockDocument, LocalsShape, Fields
<1>4. Holder'
  BY <1>1, <1>2 DEF Holder
<1>5. Covered'
  <2>1. SUFFICES ASSUME NEW q \in Requests, docLock' = q, local'[q].kind = "deleteDocument"
                 PROVE  DOMAIN rows' \subseteq local'[q].targets \cup Mine(q)'
    BY DEF Covered
  <2>2. q = r
    BY <1>1, <2>1, DocumentsAssumption
  <2>3. QED
    BY <1>1, <1>2, <1>3, <2>1, <2>2 DEF sectionVars
<1>6. ~document' => DOMAIN rows' = {} /\ docLock' = Nobody
  BY <1>1 DEF OrphanInv, documentVars, sectionVars
<1>7. QED
  BY <1>2, <1>4, <1>5, <1>6 DEF OrphanInv

\* A row that a deletion comes to is one it has locked instead.
LEMMA ClearRowInv ==
  ASSUME OrphanInv, NEW r \in Requests, ClearRow(r)
  PROVE  OrphanInv'
<1>1. PICK s \in local[r].targets :
        /\ rowLocks' = rowLocks \cup Locking(r, s)
        /\ local' = [local EXCEPT ![r].targets = @ \ {s}]
  BY DEF ClearRow
<1>2. UNCHANGED <<documentVars, sectionVars, docLock>> /\ local[r].step = "clear"
  BY DEF ClearRow, At
<1>3. LocalsShape' /\ OthersUnchanged(r)
  BY <1>1 DEF OrphanInv, LocalsShape, Fields, OthersUnchanged
<1>4. /\ local'[r].targets = local[r].targets \ {s} /\ local'[r].kind = local[r].kind
      /\ local'[r].step = "clear"
  BY <1>1, <1>2 DEF OrphanInv, LocalsShape, Fields
<1>5. /\ \A q \in Requests \ {r} : Mine(q)' = Mine(q)
      /\ Mine(r) \subseteq Mine(r)'
      /\ s \in DOMAIN rows => s \in Mine(r)'
  BY <1>1, LockingFacts
<1>6. Covered'
  <2>1. SUFFICES ASSUME NEW q \in Requests, docLock' = q, local'[q].kind = "deleteDocument"
                 PROVE  DOMAIN rows' \subseteq local'[q].targets \cup Mine(q)'
    BY DEF Covered
  <2>2. docLock = q /\ rows' = rows /\ local[q].kind = "deleteDocument"
    BY <1>2, <1>3, <1>4, <2>1 DEF sectionVars, OthersUnchanged
  <2>3. DOMAIN rows \subseteq local[q].targets \cup Mine(q)
    BY <2>2 DEF OrphanInv, Covered
  <2>4. CASE q = r
    BY <1>4, <1>5, <2>2, <2>3, <2>4
  <2>5. CASE q # r
    BY <1>3, <1>5, <2>2, <2>3, <2>5 DEF OthersUnchanged
  <2>6. QED
    BY <2>4, <2>5
<1>7. Holder'
  BY <1>2, <1>3, <1>4 DEF OrphanInv, Holder, OthersUnchanged
<1>8. ~document' => DOMAIN rows' = {} /\ docLock' = Nobody
  BY <1>2 DEF OrphanInv, documentVars, sectionVars
<1>9. QED
  BY <1>3, <1>6, <1>7, <1>8 DEF OrphanInv

\* A deletion that commits has come to every section, and leaves none.
LEMMA DeleteDocumentInv ==
  ASSUME OrphanInv, NEW r \in Requests, DeleteDocument(r)
  PROVE  OrphanInv'
<1>1. LocalsShape' /\ OthersUnchanged(r)
  BY EndFacts DEF DeleteDocument, OrphanInv
<1>2. DOMAIN rows' = DOMAIN rows \ Mine(r)
  BY RowsFacts DEF DeleteDocument
<1>3. CASE docLock # r
  <2>1. document' = document
    BY <1>3 DEF DeleteDocument
  <2>2. DOMAIN rows' \subseteq DOMAIN rows \/ (document /\ docLock \in {r, Nobody})
    BY <1>2
  <2>3. Release(r)
    BY DEF DeleteDocument
  <2>4. QED
    BY <1>1, <2>1, <2>2, <2>3, ReleaseStep
<1>4. CASE docLock = r
  <2>1. DOMAIN rows \subseteq Mine(r)
    BY <1>4 DEF OrphanInv, Covered, DeleteDocument
  <2>2. DOMAIN rows' = {}
    BY <1>2, <2>1
  <2>3. docLock' = Nobody
    BY <1>4 DEF DeleteDocument, Release
  <2>4. Holder' /\ Covered'
    BY <2>3, DocumentsAssumption DEF Holder, Covered
  <2>5. QED
    BY <1>1, <2>2, <2>3, <2>4 DEF OrphanInv
<1>5. QED
  BY <1>3, <1>4

\* A restore adds sections only to a document that it has found again.
LEMMA ReplaceSectionsInv ==
  ASSUME OrphanInv, NEW r \in Requests, ReplaceSections(r)
  PROVE  OrphanInv'
<1>1. LocalsShape' /\ OthersUnchanged(r)
  <2>1. PICK outcome : End(r, outcome)
    BY DEF ReplaceSections
  <2>2. QED
    BY <2>1, EndFacts DEF OrphanInv
<1>2. Release(r) /\ document' = document /\ docLock \in {r, Nobody}
  BY DEF ReplaceSections, documentVars, DocumentFree
<1>3. ~document => rows' = rows
  BY DEF ReplaceSections
<1>4. DOMAIN rows' \subseteq DOMAIN rows \/ (document /\ docLock \in {r, Nobody})
  BY <1>2, <1>3
<1>5. QED
  BY <1>1, <1>2, <1>4, ReleaseStep

-----------------------------------------------------------------------------
\* The read of the sections that a save makes.
LEMMA TakeSnapshotInv ==
  ASSUME OrphanInv, NEW r \in Requests, TakeSnapshot(r)
  PROVE  OrphanInv'
<1>1. LocalsShape' /\ OthersUnchanged(r)
  BY DEF OrphanInv, TakeSnapshot, LocalsShape, Fields, OthersUnchanged
<1>2. QED
  BY <1>1, ReadSteps DEF TakeSnapshot, At

\* The read of the greatest number.
LEMMA ReadMaxVersionInv ==
  ASSUME OrphanInv, NEW r \in Requests, ReadMaxVersion(r)
  PROVE  OrphanInv'
<1>1. LocalsShape' /\ OthersUnchanged(r)
  BY DEF OrphanInv, ReadMaxVersion, LocalsShape, Fields, OthersUnchanged
<1>2. QED
  BY <1>1, ReadSteps DEF ReadMaxVersion, At

\* The insert of a version, and what it does when the number is taken.
LEMMA InsertVersionInv ==
  ASSUME OrphanInv, NEW r \in Requests, InsertVersion(r)
  PROVE  OrphanInv'
<1>1. local[r].step = "insertVersion" /\ UNCHANGED <<documentVars, sectionVars, lockVars>>
  BY DEF InsertVersion, At
<1>2. \/ End(r, "done") \/ Goto(r, "duplicate")
      \/ local' = [local EXCEPT ![r].step = "maxVersion", ![r].retried = TRUE]
  <2> DEFINE taken == Taken(local[r].number + 1)
  <2>1. taken \in BOOLEAN
    BY DEF Taken
  <2> HIDE DEF taken
  <2>2. CASE ~taken
    BY <2>2 DEF InsertVersion, taken
  <2>3. CASE taken /\ ~local[r].retried
    BY <2>3 DEF InsertVersion, taken
  <2>4. CASE taken /\ local[r].retried
    BY <2>4 DEF InsertVersion, taken
  <2>5. QED
    BY <2>2, <2>3, <2>4
<1>3. CASE End(r, "done")
  BY <1>1, <1>3, EndSteps DEF documentVars, sectionVars
<1>4. CASE Goto(r, "duplicate")
  BY <1>1, <1>4, GotoSteps DEF documentVars, sectionVars
<1>5. CASE local' = [local EXCEPT ![r].step = "maxVersion", ![r].retried = TRUE]
  <2>1. LocalsShape' /\ OthersUnchanged(r)
    BY <1>5 DEF OrphanInv, LocalsShape, Fields, OthersUnchanged
  <2>2. QED
    BY <1>1, <2>1, ReadSteps
<1>6. QED
  BY <1>2, <1>3, <1>4, <1>5

\* Every step of a request for the document.
LEMMA DocumentsStepInv ==
  ASSUME OrphanInv, NEW r \in Requests, DocumentsStep(r)
  PROVE  OrphanInv'
BY BeginInv, ReadMaxOrderInv, InsertSectionInv, WriteSectionInv, RereadSectionInv,
   RemoveSectionInv, ListSectionsInv, MoveRowInv, CommitReorderInv, SelectForSaveInv,
   SaveDocumentInv, ReinsertDocumentInv, LockDocumentInv, ClearRowInv, ReplaceSectionsInv,
   TakeSnapshotInv, ReadMaxVersionInv, InsertVersionInv, CreateDocumentInv,
   DeadlockVictimInv DEF DocumentsStep

-----------------------------------------------------------------------------
\* The early checks of a request about the template.
LEMMA BeginTemplateInv ==
  ASSUME OrphanInv, NEW r \in Requests, BeginTemplate(r)
  PROVE  OrphanInv'
<1>1. PICK kind, size, publish :
        local' = [local EXCEPT ![r] = TemplateRequest(kind, size, publish)]
  BY DEF BeginTemplate
<1>2. Fields \subseteq DOMAIN TemplateRequest(kind, size, publish)
  BY DEF Fields, Idle, TemplateRequest
<1>3. QED
  BY <1>1, <1>2, BeginSteps DEF BeginTemplate

\* The transaction of an update of the template.
LEMMA LockTemplateInv ==
  ASSUME OrphanInv, NEW r \in Requests, LockTemplate(r)
  PROVE  OrphanInv'
<1>1. local[r].step = "lockTemplate" /\ UNCHANGED <<documentVars, sectionVars, lockVars>>
  BY DEF LockTemplate, At
<1>2. Goto(r, "saveTemplate") \/ End(r, "failed")
  BY DEF LockTemplate
<1>3. QED
  BY <1>1, <1>2, GotoSteps, EndSteps DEF documentVars, sectionVars

\* The reads of an application before its transaction.
LEMMA ReadTemplateSectionsInv ==
  ASSUME OrphanInv, NEW r \in Requests, ReadTemplateSections(r)
  PROVE  OrphanInv'
<1>1. /\ local[r].step = "templateSections"
      /\ UNCHANGED <<documentVars, sectionVars, lockVars>>
  BY DEF ReadTemplateSections, At
<1>2. CASE End(r, "failed")
  BY <1>1, <1>2, EndSteps DEF documentVars, sectionVars
<1>3. ASSUME NEW size,
             local' = [local EXCEPT ![r].size = size, ![r].step = "lockDocument"]
      PROVE  OrphanInv'
  <2>1. LocalsShape' /\ OthersUnchanged(r)
    BY <1>3 DEF OrphanInv, LocalsShape, Fields, OthersUnchanged
  <2>2. QED
    BY <1>1, <2>1, ReadSteps
<1>4. QED
  BY <1>2, <1>3 DEF ReadTemplateSections

\* The transaction of an application, which adds the sections.
LEMMA ApplyToDocumentInv ==
  ASSUME OrphanInv, NEW r \in Requests, ApplyToDocument(r)
  PROVE  OrphanInv'
<1>1. LocalsShape' /\ OthersUnchanged(r)
  <2>1. PICK outcome : End(r, outcome)
    BY DEF ApplyToDocument
  <2>2. QED
    BY <2>1, EndFacts DEF OrphanInv
<1>2. Release(r) /\ document' = document /\ docLock \in {r, Nobody}
  BY DEF ApplyToDocument, documentVars, DocumentFree
<1>3. ~document => rows' = rows
  BY DEF ApplyToDocument
<1>4. DOMAIN rows' \subseteq DOMAIN rows \/ (document /\ docLock \in {r, Nobody})
  BY <1>2, <1>3
<1>5. QED
  BY <1>1, <1>2, <1>4, ReleaseStep

\* Every step of a request about the template.
LEMMA TemplatesStepInv ==
  ASSUME OrphanInv, NEW r \in Requests, TemplatesStep(r)
  PROVE  OrphanInv'
<1>1. CASE CreateTemplate(r) \/ SaveTemplate(r) \/ RemoveTemplate(r)
  <2>1. /\ local[r].step \in {"idle", "saveTemplate", "removeTemplate"} /\ End(r, "done")
        /\ UNCHANGED <<documentVars, sectionVars, lockVars>>
    BY <1>1 DEF CreateTemplate, SaveTemplate, RemoveTemplate, At
  <2>2. QED
    BY <2>1, EndSteps DEF documentVars, sectionVars
<1>2. QED
  BY <1>1, BeginTemplateInv, LockTemplateInv, ReadTemplateSectionsInv, ApplyToDocumentInv
     DEF TemplatesStep

-----------------------------------------------------------------------------
\* It holds at the start, with the document or without it.
LEMMA InitInv == Init => OrphanInv
<1>1. SUFFICES ASSUME Init PROVE OrphanInv
  OBVIOUS
<1>2. LocalsShape
  BY <1>1 DEF Init, DocumentsInit, LocalsShape, Fields, Idle
<1>3. docLock = Nobody
  BY <1>1 DEF Init, DocumentsInit
<1>4. ~document => DOMAIN rows = {}
  BY <1>1 DEF Init, DocumentsInit
<1>5. QED
  BY <1>2, <1>3, <1>4, DocumentsAssumption DEF OrphanInv, Holder, Covered

\* And every step keeps it; the listener's touch neither documents nor sections.
LEMMA NextInv == OrphanInv /\ [Next]_vars => OrphanInv'
<1>1. SUFFICES ASSUME OrphanInv, [Next]_vars PROVE OrphanInv'
  OBVIOUS
<1>2. ASSUME NEW r \in Requests, DocumentsStep(r)
      PROVE  OrphanInv'
  BY <1>1, <1>2, DocumentsStepInv
<1>3. ASSUME NEW r \in Requests, TemplatesStep(r)
      PROVE  OrphanInv'
  BY <1>1, <1>3, TemplatesStepInv
<1>4. ASSUME NEW r \in Requests, Delete(r)
      PROVE  OrphanInv'
  BY <1>1, <1>4, DeleteDocumentInv DEF Delete
<1>5. ASSUME document' = document, rows' = rows, docLock' = docLock,
             rowLocks' = rowLocks, local' = local
      PROVE  OrphanInv'
  <2>1. LocalsShape'
    BY <1>1, <1>5 DEF OrphanInv, LocalsShape
  <2>2. \A r \in Requests : Mine(r)' = Mine(r)
    BY <1>5 DEF Mine
  <2>3. Holder'
    BY <1>1, <1>5 DEF OrphanInv, Holder
  <2>4. Covered'
    BY <1>1, <1>5, <2>2 DEF OrphanInv, Covered
  <2>5. QED
    BY <1>1, <1>5, <2>1, <2>3, <2>4 DEF OrphanInv
<1>6. ASSUME NEW e \in events, RewardsStep(e)
      PROVE  OrphanInv'
  BY <1>5, <1>6 DEF RewardsStep, documentVars, sectionVars, lockVars
<1>7. CASE UNCHANGED vars
  BY <1>5, <1>7 DEF vars, docsVars, documentVars, sectionVars, lockVars
<1>8. CASE Rest
  BY <1>7, <1>8 DEF Rest
<1>9. QED
  BY <1>1, <1>2, <1>3, <1>4, <1>6, <1>7, <1>8 DEF Next

(* A section never outlives its document, whatever requests run together, for *)
(* any number of them and of sections (the lock of the deletion, the foreign  *)
(* key and its cascade).                                                      *)
THEOREM Orphans == Spec => []NoOrphanSections
<1>1. OrphanInv => NoOrphanSections
  BY DEF OrphanInv, NoOrphanSections
<1>2. QED
  BY <1>1, InitInv, NextInv, PTL DEF Spec
-----------------------------------------------------------------------------
(* Ranks, maxima and listings of finite sets. *)

\* The elements of S that R puts before s.
Before(R, S, s) == {t \in S : <<t, s>> \in R}

StrictOrder(R, S) ==
  /\ \A s \in S : <<s, s>> \notin R
  /\ \A s, t \in S : s # t => <<s, t>> \in R \/ <<t, s>> \in R
  /\ \A s, t, u \in S : <<s, t>> \in R /\ <<t, u>> \in R => <<s, u>> \in R

\* A strict total order of a finite set numbers its elements from 0, by how many
\* come before each.
LEMMA Ranks ==
  ASSUME NEW S, IsFiniteSet(S), NEW R, StrictOrder(R, S)
  PROVE  /\ Cardinality(S) \in Nat
         /\ \A s \in S : /\ IsFiniteSet(Before(R, S, s))
                         /\ Cardinality(Before(R, S, s)) \in 0 .. Cardinality(S) - 1
         /\ \A s, t \in S : <<s, t>> \in R
              => Cardinality(Before(R, S, s)) < Cardinality(Before(R, S, t))
         /\ \A n \in 0 .. Cardinality(S) - 1 : \E s \in S : Cardinality(Before(R, S, s)) = n
<1> DEFINE Rank(s) == Cardinality(Before(R, S, s))
           Numbers1 == 0 .. Cardinality(S) - 1
           rank == [s \in S |-> Rank(s)]
<1>1. Cardinality(S) \in Nat
  BY FS_CardinalityType
<1>2. \A s \in S : IsFiniteSet(Before(R, S, s)) /\ Rank(s) \in Nat
  <2>1. \A s \in S : Before(R, S, s) \in SUBSET S
    BY DEF Before
  <2>2. QED
    BY <2>1, FS_Subset, FS_CardinalityType
<1>3. ASSUME NEW s \in S
      PROVE  Rank(s) \in Numbers1
  <2>1. IsFiniteSet(S \ {s}) /\ Cardinality(S \ {s}) = Cardinality(S) - 1
    BY FS_RemoveElement
  <2>2. Before(R, S, s) \in SUBSET (S \ {s})
    BY DEF Before, StrictOrder
  <2>3. Rank(s) <= Cardinality(S) - 1
    BY <2>1, <2>2, FS_Subset
  <2>4. QED
    BY <1>1, <1>2, <2>3
<1>4. ASSUME NEW s \in S, NEW t \in S, <<s, t>> \in R
      PROVE  Rank(s) < Rank(t)
  <2>1. s \notin Before(R, S, s)
    BY DEF Before, StrictOrder
  <2>2. Before(R, S, s) \cup {s} \in SUBSET Before(R, S, t)
    BY <1>4 DEF Before, StrictOrder
  <2>3. IsFiniteSet(Before(R, S, s)) /\ IsFiniteSet(Before(R, S, t))
    BY <1>2
  <2>4. Cardinality(Before(R, S, s) \cup {s}) = Rank(s) + 1
    BY <2>1, <2>3, FS_AddElement
  <2>5. Cardinality(Before(R, S, s) \cup {s}) <= Rank(t)
    BY <2>2, <2>3, FS_Subset
  <2>6. QED
    BY <1>2, <2>4, <2>5
<1>5. \A s, t \in S : Rank(s) = Rank(t) => s = t
  <2> HIDE DEF Rank
  <2>1. \A s, t \in S : <<s, t>> \in R => Rank(s) # Rank(t)
    BY <1>2, <1>4
  <2>2. \A s, t \in S : s # t => <<s, t>> \in R \/ <<t, s>> \in R
    BY DEF StrictOrder
  <2> QED BY <2>1, <2>2
<1>6. rank \in Injection(S, Numbers1)
  <2>1. rank \in [S -> Numbers1]
    BY <1>3
  <2>2. IsInjective(rank)
    BY <1>5 DEF IsInjective
  <2>3. QED
    BY <2>1, <2>2 DEF Injection
<1>7. IsFiniteSet(Numbers1) /\ Cardinality(Numbers1) = Cardinality(S)
  BY <1>1, FS_Interval
<1>8. rank \in Surjection(S, Numbers1)
  BY <1>6, <1>7, FS_Injection
<1>9. \A n \in Numbers1 : \E s \in S : Rank(s) = n
  BY <1>8 DEF Surjection
<1> QED
  BY <1>1, <1>2, <1>3, <1>4, <1>9

\* A finite set of integers has a greatest element.
LEMMA MaxFacts ==
  ASSUME NEW S \in SUBSET Int, IsFiniteSet(S), S # {}
  PROVE  Max(S) \in S /\ \A y \in S : Max(S) >= y
<1> DEFINE R == {p \in S \X S : p[1] < p[2]}
<1>1. StrictOrder(R, S)
  BY DEF StrictOrder
<1>2. Cardinality(S) \in Nat /\ Cardinality(S) # 0
  BY FS_CardinalityType, FS_EmptySet
<1>3. PICK x \in S : Cardinality(Before(R, S, x)) = Cardinality(S) - 1
  <2>1. Cardinality(S) - 1 \in 0 .. Cardinality(S) - 1
    BY <1>2
  <2> HIDE DEF R
  <2>2. QED
    BY <1>1, <2>1, Ranks
<1>4. IsFiniteSet(Before(R, S, x))
  BY <1>1, Ranks
<1>5. x \notin Before(R, S, x)
  BY DEF Before
<1>6. Cardinality(Before(R, S, x) \cup {x}) = Cardinality(S)
  <2> HIDE DEF R
  <2>1. Cardinality(Before(R, S, x) \cup {x}) = Cardinality(Before(R, S, x)) + 1
    BY <1>4, <1>5, FS_AddElement
  <2> QED BY <1>2, <1>3, <2>1
<1>7. Before(R, S, x) \cup {x} \in SUBSET S
  BY DEF Before
<1>8. Before(R, S, x) \cup {x} = S
  BY <1>6, <1>7, FS_Subset
<1>9. \A y \in S : x >= y
  <2>1. \A y \in S : y = x \/ <<y, x>> \in R
    BY <1>8 DEF Before
  <2>2. \A y \in S : <<y, x>> \in R => y < x
    OBVIOUS
  <2>3. x \in Int /\ \A y \in S : y \in Int
    OBVIOUS
  <2> HIDE DEF R
  <2>4. ASSUME NEW y \in S
        PROVE  x >= y
    <3>1. y = x \/ y < x
      BY <2>1, <2>2
    <3> QED BY <2>3, <3>1
  <2> QED BY <2>4
<1> QED
  BY <1>9 DEF Max

\* MAX("order") is -1 or the order of a row, and no less than any.
LEMMA MaxOrderFacts ==
  ASSUME IsFiniteSet(DOMAIN rows), \A s \in DOMAIN rows : rows[s].order \in Nat
  PROVE  /\ MaxOrder(rows) \in Int /\ MaxOrder(rows) >= -1
         /\ \A s \in DOMAIN rows : rows[s].order <= MaxOrder(rows)
         /\ DOMAIN rows = {} => MaxOrder(rows) = -1
<1> DEFINE Orders == {rows[s].order : s \in DOMAIN rows}
<1>1. IsFiniteSet(Orders)
  <2>1. [s \in DOMAIN rows |-> rows[s].order] \in Surjection(DOMAIN rows, Orders)
    BY DEF Surjection
  <2> QED BY <2>1, FS_Surjection
<1>2. IsFiniteSet({-1} \cup Orders)
  <2>1. IsFiniteSet(Orders \cup {-1}) /\ Orders \cup {-1} = {-1} \cup Orders
    BY <1>1, FS_AddElement
  <2> QED BY <2>1
<1>3. {-1} \cup Orders \in SUBSET Int
  OBVIOUS
<1>4. /\ Max({-1} \cup Orders) \in {-1} \cup Orders
      /\ \A y \in {-1} \cup Orders : Max({-1} \cup Orders) >= y
  BY <1>2, <1>3, MaxFacts
<1>5. MaxOrder(rows) = Max({-1} \cup Orders)
  BY DEF MaxOrder
<1>6. MaxOrder(rows) \in {-1} \cup Orders /\ \A y \in {-1} \cup Orders : MaxOrder(rows) >= y
  <2> HIDE DEF Orders
  <2> QED BY <1>4, <1>5
<1>7. MaxOrder(rows) >= -1
  BY <1>6
<1>8. \A s \in DOMAIN rows : rows[s].order <= MaxOrder(rows)
  BY <1>6
<1> QED
  BY <1>6, <1>7, <1>8

\* A listing is a numbering of the rows, in their order.
LEMMA ListingFacts ==
  ASSUME IsFiniteSet(DOMAIN rows), DOMAIN rows \subseteq Nat,
         \A s \in DOMAIN rows : rows[s].order \in Nat, NEW age \in Ages(rows)
  PROVE  /\ Cardinality(DOMAIN rows) \in Nat
         /\ \A i \in 1 .. Cardinality(DOMAIN rows) : Listing(rows, age)[i] \in DOMAIN rows
         /\ \A i, j \in 1 .. Cardinality(DOMAIN rows) :
              i < j => Precedes(rows, age, Listing(rows, age)[i], Listing(rows, age)[j])
<1> DEFINE D == DOMAIN rows
           R == {p \in D \X D : Precedes(rows, age, p[1], p[2])}
<1>1. StrictOrder(R, D)
  <2>1. \A s, t \in D : s # t /\ rows[s].order = rows[t].order =>
          age[s] \in Nat /\ age[t] \in Nat /\ age[s] # age[t]
    <3>1. age \in [Tied(rows) -> Tied(rows)] /\ IsInjective(age)
      BY DEF Ages, Injection
    <3>2. Tied(rows) \subseteq Nat
      BY DEF Tied
    <3>3. \A s, t \in D : s # t /\ rows[s].order = rows[t].order =>
            s \in Tied(rows) /\ t \in Tied(rows)
      BY DEF Tied
    <3> QED BY <3>1, <3>2, <3>3 DEF IsInjective
  <2> QED BY <2>1 DEF StrictOrder, Precedes
<1>2. \A s \in D : Before(R, D, s) = {t \in D : Precedes(rows, age, t, s)}
  BY DEF Before
<1>3. Cardinality(D) \in Nat
  BY FS_CardinalityType
<1>4. ASSUME NEW i \in 1 .. Cardinality(D)
      PROVE  Listing(rows, age)[i] \in D /\ Cardinality(Before(R, D, Listing(rows, age)[i])) = i - 1
  <2>1. i - 1 \in 0 .. Cardinality(D) - 1
    BY <1>3
  <2>2. PICK s \in D : Cardinality(Before(R, D, s)) = i - 1
    <3> HIDE DEF R
    <3> QED BY <1>1, <2>1, Ranks
  <2>3. Cardinality({t \in D : Precedes(rows, age, t, s)}) = i - 1
    BY <1>2, <2>2
  <2>4. Listing(rows, age)[i] =
          CHOOSE u \in D : Cardinality({t \in D : Precedes(rows, age, t, u)}) = i - 1
    BY DEF Listing
  <2>5. /\ Listing(rows, age)[i] \in D
        /\ Cardinality({t \in D : Precedes(rows, age, t, Listing(rows, age)[i])}) = i - 1
    BY <2>3, <2>4
  <2> QED BY <1>2, <2>5
<1>5. ASSUME NEW i \in 1 .. Cardinality(D), NEW j \in 1 .. Cardinality(D), i < j
      PROVE  Precedes(rows, age, Listing(rows, age)[i], Listing(rows, age)[j])
  <2> DEFINE s == Listing(rows, age)[i]
             t == Listing(rows, age)[j]
  <2>1. /\ s \in D /\ Cardinality(Before(R, D, s)) = i - 1
        /\ t \in D /\ Cardinality(Before(R, D, t)) = j - 1
    BY <1>4
  <2> HIDE DEF s, t
  <2>2. s # t
    BY <1>3, <1>5, <2>1
  <2>3. <<t, s>> \notin R
    <3> HIDE DEF R
    <3>1. <<t, s>> \in R => Cardinality(Before(R, D, t)) < Cardinality(Before(R, D, s))
      BY <1>1, <2>1, Ranks
    <3> QED BY <1>3, <1>5, <2>1, <3>1
  <2>4. <<s, t>> \in R
    BY <1>1, <2>1, <2>2, <2>3 DEF StrictOrder
  <2> QED BY <2>4 DEF s, t
<1> QED
  BY <1>3, <1>4, <1>5

-----------------------------------------------------------------------------
(* TypeOK, with what it needs: the rows a transaction has locked are those of *)
(* its statement, a maximum that was read is no less than the least there is, *)
(* and there are finitely many versions.                                      *)

RowsBelow(rs, n) == DOMAIN rs \subseteq 1 .. n - 1 /\ \A s \in DOMAIN rs : rs[s] \in Rows

StoreOK ==
  /\ document \in BOOLEAN /\ created \in BOOLEAN /\ revived \in BOOLEAN
  /\ next \in Nat \ {0}
  /\ RowsBelow(rows, next)
  /\ IsFiniteSet(versions)
  /\ \A v \in versions : v.number \in Nat \ {0} /\ v.content \in Seq(Contents)
  /\ lastOrder \in Seq(Nat)

LocksOK ==
  /\ docLock \in Requests \cup {Nobody}
  /\ rowLocks \subseteq Requests \X (1 .. next - 1)

RequestOK(r) ==
  /\ local[r].step \in {"insert", "append"} => local[r].number >= -1
  /\ local[r].step = "insertVersion" => local[r].number >= 0
  /\ local[r].step = "move" =>
       local[r].number >= 1 /\ Mine(r) \subseteq ToSet(local[r].order)
  /\ local[r].step \notin {"move", "clear"} => Mine(r) = {}

RequestsOK == local \in [Requests -> Locals] /\ \A r \in Requests : RequestOK(r)

TemplateOK == template \in TemplateRows /\ templateLock \in Requests \cup {Nobody}

RewardsOK ==
  /\ milestones \subseteq {rule.type : rule \in MILESTONE_RULES}
  /\ user \in [xp : Nat, level : Nat]
  /\ mission \in [progress : Nat, completed : BOOLEAN]

TypeInv == StoreOK /\ LocksOK /\ RequestsOK /\ TemplateOK /\ RewardsOK

\* What the statements leave of the rows.
LEMMA InsertedType ==
  ASSUME NEW rs, NEW n \in Nat \ {0}, RowsBelow(rs, n),
         NEW contents \in Seq(Contents), NEW placed \in Placements
  PROVE  /\ n + Len(contents) \in Nat \ {0}
         /\ RowsBelow(Inserted(rs, n, contents, placed), n + Len(contents))
<1> DEFINE ins == Inserted(rs, n, contents, placed)
<1>1. Len(contents) \in Nat /\ n + Len(contents) \in Nat \ {0}
  OBVIOUS
<1>2. DOMAIN ins = DOMAIN rs \cup n .. n + Len(contents) - 1
  BY DEF Inserted
<1>3. DOMAIN ins \subseteq 1 .. n + Len(contents) - 1
  BY <1>1, <1>2 DEF RowsBelow
<1>4. ASSUME NEW s \in DOMAIN ins
      PROVE  ins[s] \in Rows
  <2>1. CASE s \in DOMAIN rs
    <3>1. ins[s] = rs[s]
      BY <1>2, <2>1 DEF Inserted
    <3> QED BY <2>1, <3>1 DEF RowsBelow
  <2>2. CASE s \notin DOMAIN rs
    <3>1. s - n + 1 \in 1 .. Len(contents)
      BY <1>1, <1>2, <2>2
    <3>2. contents[s - n + 1] \in Contents
      BY <3>1
    <3>3. ins[s] = [order |-> contents[s - n + 1].order,
                    words |-> contents[s - n + 1].words, placed |-> placed]
      BY <1>2, <2>2 DEF Inserted
    <3> QED BY <3>2, <3>3 DEF Contents, Rows
  <2> QED BY <2>1, <2>2
<1> QED BY <1>1, <1>3, <1>4 DEF RowsBelow

\* What a deletion leaves.
LEMMA DeletedType ==
  ASSUME NEW rs, NEW n, RowsBelow(rs, n), NEW ids
  PROVE  RowsBelow(Deleted(rs, ids), n)
BY DEF RowsBelow, Deleted, Restrict

\* What a reorder leaves.
LEMMA MovedType ==
  ASSUME NEW rs, NEW n, RowsBelow(rs, n), NEW order \in Seq(Nat), NEW ids,
         ids \subseteq ToSet(order)
  PROVE  RowsBelow(Moved(rs, order, ids), n)
<1> DEFINE mov == Moved(rs, order, ids)
           Index(s) == CHOOSE i \in 0 .. Len(order) - 1 : order[i + 1] = s
<1>1. DOMAIN mov = DOMAIN rs
  BY DEF Moved
<1>2. ASSUME NEW s \in DOMAIN rs
      PROVE  mov[s] \in Rows
  <2>1. CASE s \in ids
    <3>1. PICK k \in 1 .. Len(order) : order[k] = s
      BY <2>1 DEF ToSet
    <3>2. k - 1 \in 0 .. Len(order) - 1 /\ order[(k - 1) + 1] = s
      BY <3>1
    <3>3. Index(s) \in 0 .. Len(order) - 1
      BY <3>2
    <3>4. Index(s) \in Nat
      BY <3>3
    <3>5. mov[s] = [rs[s] EXCEPT !.order = Index(s), !.placed = "moved"]
      BY <2>1 DEF Moved
    <3> HIDE DEF Index
    <3> QED BY <3>4, <3>5 DEF RowsBelow, Rows, Placements
  <2>2. CASE s \notin ids
    BY <2>2 DEF Moved, RowsBelow
  <2> QED BY <2>1, <2>2
<1> QED BY <1>1, <1>2 DEF RowsBelow

\* There are finitely many rows, of which each has an order.
LEMMA RowsFinite ==
  ASSUME StoreOK
  PROVE  /\ IsFiniteSet(DOMAIN rows) /\ DOMAIN rows \subseteq Nat
         /\ \A s \in DOMAIN rows : rows[s].order \in Nat /\ rows[s].words \in Words
<1>1. IsFiniteSet(1 .. next - 1)
  BY FS_Interval DEF StoreOK
<1>2. DOMAIN rows \in SUBSET (1 .. next - 1)
  BY DEF StoreOK, RowsBelow
<1>3. IsFiniteSet(DOMAIN rows)
  BY <1>1, <1>2, FS_Subset
<1> QED BY <1>2, <1>3 DEF StoreOK, RowsBelow, Rows

\* What a save stores is contents.
LEMMA SnapshotType ==
  ASSUME StoreOK, NEW age \in Ages(rows)
  PROVE  Snapshot(rows, age) \in Seq(Contents)
<1> DEFINE N == Cardinality(DOMAIN rows)
<1>1. N \in Nat /\ \A i \in 1 .. N : Listing(rows, age)[i] \in DOMAIN rows
  BY RowsFinite, ListingFacts
<1>2. \A i \in 1 .. N : /\ rows[Listing(rows, age)[i]].order \in Nat
                        /\ rows[Listing(rows, age)[i]].words \in Words
  BY <1>1, RowsFinite
<1>3. Snapshot(rows, age) \in [1 .. N -> Contents]
  BY <1>2 DEF Snapshot, Contents
<1> HIDE DEF N
<1> QED BY <1>1, <1>3

\* What a template appends is contents.
LEMMA BlankType ==
  ASSUME NEW size \in Nat, NEW last \in Int, last >= -1
  PROVE  Blank(size, last) \in Seq(Contents) /\ Len(Blank(size, last)) = size
<1>1. Blank(size, last) \in [1 .. size -> Contents]
  BY DEF Blank, Contents, Words
<1> QED BY <1>1

\* The greatest number is no less than any, and no more than it must be.
LEMMA MaxVersionType ==
  ASSUME StoreOK
  PROVE  /\ MaxVersion(versions) \in Nat
         /\ \A v \in versions : v.number <= MaxVersion(versions)
         /\ \A n \in Nat : (\A v \in versions : v.number <= n) => MaxVersion(versions) <= n
<1> DEFINE Taking == {v.number : v \in versions}
<1>1. IsFiniteSet(Taking)
  <2>1. [v \in versions |-> v.number] \in Surjection(versions, Taking)
    BY DEF Surjection
  <2> QED BY <2>1, FS_Surjection DEF StoreOK
<1>2. IsFiniteSet({0} \cup Taking)
  <2>1. IsFiniteSet(Taking \cup {0}) /\ Taking \cup {0} = {0} \cup Taking
    BY <1>1, FS_AddElement
  <2> QED BY <2>1
<1>3. {0} \cup Taking \in SUBSET Nat
  BY DEF StoreOK
<1>4. {0} \cup Taking \in SUBSET Int /\ {0} \cup Taking # {}
  BY <1>3
<1>5. /\ MaxVersion(versions) \in {0} \cup Taking
      /\ \A y \in {0} \cup Taking : MaxVersion(versions) >= y
  <2>1. MaxVersion(versions) = Max({0} \cup Taking)
    BY DEF MaxVersion
  <2> HIDE DEF Taking
  <2> QED BY <1>2, <1>4, <2>1, MaxFacts
<1>6. MaxVersion(versions) \in Nat
  BY <1>3, <1>5
<1>7. \A v \in versions : v.number <= MaxVersion(versions)
  BY <1>5, <1>6 DEF StoreOK
<1>8. \A n \in Nat : (\A v \in versions : v.number <= n) => MaxVersion(versions) <= n
  BY <1>5, <1>6
<1> QED BY <1>6, <1>7, <1>8

-----------------------------------------------------------------------------
\* A request that changes its own record, and nobody else's locks.
LEMMA RequestStep ==
  ASSUME RequestsOK, NEW r \in Requests, local' \in [Requests -> Locals],
         OthersUnchanged(r), \A q \in Requests \ {r} : Mine(q)' = Mine(q), RequestOK(r)'
  PROVE  RequestsOK'
<1>1. ASSUME NEW q \in Requests \ {r}
      PROVE  RequestOK(q)'
  BY <1>1 DEF RequestsOK, RequestOK, OthersUnchanged
<1> QED BY <1>1 DEF RequestsOK

\* Taking a record that is of the type.
LEMMA TakeRecord ==
  ASSUME local \in [Requests -> Locals], NEW r \in Requests, NEW x \in Locals,
         local' = [local EXCEPT ![r] = x]
  PROVE  local' \in [Requests -> Locals] /\ OthersUnchanged(r) /\ local'[r] = x
BY DEF OthersUnchanged

\* Before and after a request: a record of the type.
LEMMA IdleType ==
  /\ Idle \in Locals
  /\ \A step \in Steps :
       /\ [Idle EXCEPT !.step = step] \in Locals
       /\ [Idle EXCEPT !.step = step].step = step
<1>1. /\ <<>> \in Seq(Nat) /\ <<>> \in Seq(Contents) /\ {} \in SUBSET Nat
      /\ "none" \in Kinds /\ "idle" \in Steps /\ "brief" \in Words
  BY DEF Kinds, Steps, Words
<1>2. Idle \in Locals
  BY <1>1 DEF Idle, Locals
<1> QED BY <1>2 DEF Locals

\* Ending.
LEMMA EndType ==
  ASSUME local \in [Requests -> Locals], NEW r \in Requests, NEW outcome \in Ended,
         End(r, outcome)
  PROVE  /\ local' \in [Requests -> Locals] /\ OthersUnchanged(r)
         /\ local'[r] = [Idle EXCEPT !.step = outcome] /\ local'[r].step = outcome
<1>1. outcome \in Steps
  BY DEF Steps
<1> QED BY <1>1, IdleType, TakeRecord DEF End

\* Going to a step.
LEMMA GotoType ==
  ASSUME local \in [Requests -> Locals], NEW r \in Requests, NEW step \in Steps,
         Goto(r, step)
  PROVE  /\ local' \in [Requests -> Locals] /\ OthersUnchanged(r)
         /\ local'[r] = [local[r] EXCEPT !.step = step] /\ local'[r].step = step
         /\ local'[r].number = local[r].number /\ local'[r].kind = local[r].kind
         /\ local'[r].order = local[r].order
<1>1. [local[r] EXCEPT !.step = step] \in Locals
  BY DEF Locals
<1>2. local' = [local EXCEPT ![r] = [local[r] EXCEPT !.step = step]]
  BY DEF Goto
<1>3. local' \in [Requests -> Locals] /\ OthersUnchanged(r)
      /\ local'[r] = [local[r] EXCEPT !.step = step]
  BY <1>1, <1>2, TakeRecord
<1> QED BY <1>3 DEF Locals

\* Numbers given out stay given out.
LEMMA Larger ==
  ASSUME NEW m \in Nat, NEW n \in Nat, m <= n
  PROVE  1 .. m - 1 \subseteq 1 .. n - 1
OBVIOUS

\* Going to a step with a number.
Reads(r, step, n) == local' = [local EXCEPT ![r].number = n, ![r].step = step]

\* It is of the type, and so is the step.
LEMMA NumberType ==
  ASSUME local \in [Requests -> Locals], NEW r \in Requests, NEW step \in Steps, NEW n \in Int,
         Reads(r, step, n)
  PROVE  /\ local' \in [Requests -> Locals] /\ OthersUnchanged(r)
         /\ local'[r].step = step /\ local'[r].number = n
<1> DEFINE x == [local[r] EXCEPT !.number = n, !.step = step]
<1>1. x \in Locals /\ x.step = step /\ x.number = n
  BY DEF Locals
<1>2. local' = [local EXCEPT ![r] = x]
  BY DEF Reads
<1> HIDE DEF x
<1>3. local' \in [Requests -> Locals] /\ OthersUnchanged(r) /\ local'[r] = x
  BY <1>1, <1>2, TakeRecord
<1> QED BY <1>1, <1>3

\* A reorder whose check succeeds begins with the first row of its list.
LEMMA FirstMoveType ==
  ASSUME local \in [Requests -> Locals], NEW r \in Requests,
         local' = [local EXCEPT ![r].step = "move", ![r].number = 1]
  PROVE  /\ local' \in [Requests -> Locals] /\ OthersUnchanged(r)
         /\ local'[r].step = "move" /\ local'[r].number = 1
<1>1. "move" \in Steps
  BY DEF Steps
<1>2. PICK n \in Int : n = 1
  OBVIOUS
<1>3. PICK step \in Steps : step = "move"
  BY <1>1
<1>4. local' = [local EXCEPT ![r].step = step, ![r].number = n]
  BY <1>2, <1>3
<1> DEFINE x == [local[r] EXCEPT !.step = step, !.number = n]
<1>5. x \in Locals /\ x.step = step /\ x.number = n
  BY DEF Locals
<1>6. local' = [local EXCEPT ![r] = x]
  BY <1>4
<1> HIDE DEF x
<1>7. local' \in [Requests -> Locals] /\ OthersUnchanged(r) /\ local'[r] = x
  BY <1>5, <1>6, TakeRecord
<1> QED BY <1>2, <1>3, <1>5, <1>7

\* The end of a transaction, and with it of the request.
LEMMA ReleaseType ==
  ASSUME RequestsOK, LocksOK, NEW r \in Requests, NEW outcome \in Ended,
         Release(r), End(r, outcome), next' \in Nat, next' >= next, next \in Nat
  PROVE  RequestsOK' /\ LocksOK'
<1>1. /\ local' \in [Requests -> Locals] /\ OthersUnchanged(r)
      /\ local'[r].step = outcome
  BY EndType DEF RequestsOK
<1>2. Mine(r)' = {} /\ \A q \in Requests \ {r} : Mine(q)' = Mine(q)
  BY DEF Release, Mine
<1>3. RequestOK(r)'
  BY <1>1, <1>2 DEF RequestOK, Ended
<1>4. RequestsOK'
  BY <1>1, <1>2, <1>3, RequestStep
<1>5. LocksOK'
  <2>1. docLock' \in Requests \cup {Nobody}
    BY DEF Release, LocksOK
  <2>2. 1 .. next - 1 \subseteq 1 .. next' - 1
    BY Larger
  <2>3. rowLocks' \subseteq Requests \X (1 .. next - 1)
    BY DEF Release, LocksOK
  <2>4. rowLocks' \subseteq Requests \X (1 .. next' - 1)
    BY <2>2, <2>3
  <2> QED BY <2>1, <2>4 DEF LocksOK
<1> QED BY <1>4, <1>5

\* A request that ends and holds no row.
LEMMA EndOK ==
  ASSUME RequestsOK, LocksOK, NEW r \in Requests, NEW outcome \in Ended, End(r, outcome),
         UNCHANGED lockVars, local[r].step \notin {"move", "clear"},
         next' \in Nat, next' >= next, next \in Nat
  PROVE  RequestsOK' /\ LocksOK'
<1>1. /\ local' \in [Requests -> Locals] /\ OthersUnchanged(r)
      /\ local'[r].step = outcome
  BY EndType DEF RequestsOK
<1>2. \A q \in Requests : Mine(q)' = Mine(q)
  BY DEF lockVars, Mine
<1>3. RequestOK(r)'
  BY <1>1, <1>2 DEF RequestsOK, RequestOK, Ended
<1>4. RequestsOK'
  BY <1>1, <1>2, <1>3, RequestStep
<1>5. LocksOK'
  <2>1. 1 .. next - 1 \subseteq 1 .. next' - 1
    BY Larger
  <2>2. rowLocks' \subseteq Requests \X (1 .. next' - 1)
    BY <2>1 DEF LocksOK, lockVars
  <2> QED BY <2>2 DEF LocksOK, lockVars
<1> QED BY <1>4, <1>5

\* A request that goes on from one step without locks to another.
LEMMA GoOnOK ==
  ASSUME RequestsOK, LocksOK, NEW r \in Requests, local' \in [Requests -> Locals],
         OthersUnchanged(r), UNCHANGED <<rowLocks, next>>, docLock' \in {docLock, r, Nobody},
         local[r].step \notin {"move", "clear"},
         local'[r].step = "move" => local'[r].number >= 1,
         local'[r].step \in {"insert", "append"} => local'[r].number >= -1,
         local'[r].step = "insertVersion" => local'[r].number >= 0
  PROVE  RequestsOK' /\ LocksOK'
<1>1. \A q \in Requests : Mine(q)' = Mine(q)
  BY DEF Mine
<1>2. Mine(r)' = {}
  BY <1>1 DEF RequestsOK, RequestOK
<1>3. RequestOK(r)'
  BY <1>2 DEF RequestOK
<1>4. RequestsOK'
  BY <1>1, <1>3, RequestStep
<1> QED BY <1>4 DEF LocksOK

-----------------------------------------------------------------------------
CoreOK == StoreOK /\ LocksOK /\ RequestsOK

\* A step that touches no table.
LEMMA StoreKept ==
  ASSUME StoreOK, UNCHANGED <<documentVars, sectionVars, versions>>
  PROVE  StoreOK'
BY DEF StoreOK, RowsBelow, documentVars, sectionVars

\* What an owner asks for is a record of the type.
LEMMA AskedType ==
  ASSUME StoreOK
  PROVE  \A x \in Asked :
           /\ x \in Locals /\ ~x.retried
           /\ x.step \in {"maxOrder", "write", "remove", "list", "select", "lockDocument",
                          "snapshot"}
<1> DEFINE Begun == {"maxOrder", "write", "remove", "list", "select", "lockDocument",
                     "snapshot"}
           Plain(k, step) == [Idle EXCEPT !.kind = k, !.step = step]
           Creating(w)    == [Idle EXCEPT !.kind = "createSection", !.step = "maxOrder",
                                          !.words = w]
           Updating(s, w) == [Idle EXCEPT !.kind = "updateSection", !.step = "write",
                                          !.section = s, !.words = w]
           Deleting(s)    == [Idle EXCEPT !.kind = "deleteSection", !.step = "remove",
                                          !.section = s]
           Reordering(o)  == [Idle EXCEPT !.kind = "reorder", !.step = "list", !.order = o]
           Restoring(c)   == [Idle EXCEPT !.kind = "restore", !.step = "lockDocument",
                                          !.content = c]
           Typed(y) == y \in Locals /\ ~y.retried /\ y.step \in Begun
<1>1. Asked = {Creating(w) : w \in Words}
              \cup {Updating(s, w) : s \in DOMAIN rows, w \in Words}
              \cup {Deleting(s) : s \in DOMAIN rows}
              \cup {Reordering(o) : o \in SetToSeqs(DOMAIN rows) \ {<<>>}}
              \cup {Plain("updateDocument", "select"),
                    Plain("deleteDocument", "lockDocument"), Plain("saveVersion", "snapshot")}
              \cup {Restoring(v.content) : v \in versions}
  BY DEF Asked
<1>2. /\ Idle \in Locals
      /\ Begun \subseteq Steps
      /\ {"createSection", "updateSection", "deleteSection", "reorder", "updateDocument",
          "deleteDocument", "saveVersion", "restore"} \subseteq Kinds
  <2>1. Begun \subseteq Steps
    BY DEF Steps
  <2>2. {"createSection", "updateSection", "deleteSection", "reorder", "updateDocument",
         "deleteDocument", "saveVersion", "restore"} \subseteq Kinds
    BY DEF Kinds
  <2> QED BY <2>1, <2>2, IdleType
<1>3. \A w \in Words : Typed(Creating(w))
  BY <1>2 DEF Locals, Idle
<1>4. \A s \in Nat, w \in Words : Typed(Updating(s, w))
  BY <1>2 DEF Locals, Idle
<1>5. \A s \in Nat : Typed(Deleting(s))
  BY <1>2 DEF Locals, Idle
<1>6. \A o \in Seq(Nat) : Typed(Reordering(o))
  BY <1>2 DEF Locals, Idle
<1>7. /\ Typed(Plain("updateDocument", "select"))
      /\ Typed(Plain("deleteDocument", "lockDocument"))
      /\ Typed(Plain("saveVersion", "snapshot"))
  BY <1>2 DEF Locals, Idle
<1>8. \A c \in Seq(Contents) : Typed(Restoring(c))
  BY <1>2 DEF Locals, Idle
<1>9. SetToSeqs(DOMAIN rows) \subseteq Seq(Nat)
  <2>1. Cardinality(DOMAIN rows) \in Nat /\ DOMAIN rows \subseteq Nat
    BY RowsFinite, FS_CardinalityType
  <2>2. \A o \in SetToSeqs(DOMAIN rows) : o \in [1 .. Cardinality(DOMAIN rows) -> DOMAIN rows]
    BY DEF SetToSeqs
  <2> QED BY <2>1, <2>2
<1>10. DOMAIN rows \subseteq Nat /\ \A v \in versions : v.content \in Seq(Contents)
  BY RowsFinite DEF StoreOK
<1> HIDE DEF Plain, Creating, Updating, Deleting, Reordering, Restoring, Typed
<1>11. \A x \in Asked : Typed(x)
  BY <1>1, <1>3, <1>4, <1>5, <1>6, <1>7, <1>8, <1>9, <1>10
<1> QED BY <1>11 DEF Typed

\* Creating the document.
LEMMA CreateDocumentOK ==
  ASSUME CoreOK, NEW r \in Requests, CreateDocument(r)
  PROVE  CoreOK'
<1>1. RequestsOK' /\ LocksOK'
  BY EndOK DEF CreateDocument, CoreOK, StoreOK, sectionVars, At, Ended
<1>2. StoreOK'
  BY DEF CreateDocument, CoreOK, StoreOK, RowsBelow, sectionVars
<1> QED BY <1>1, <1>2 DEF CoreOK

\* Asking.
LEMMA BeginOK ==
  ASSUME CoreOK, NEW r \in Requests, Begin(r)
  PROVE  CoreOK'
<1>1. PICK x \in Asked : local' = [local EXCEPT ![r] = x]
  BY DEF Begin
<1>2. x \in Locals /\ x.step \in {"maxOrder", "write", "remove", "list", "select",
                                  "lockDocument", "snapshot"}
  BY AskedType DEF CoreOK
<1>3. local' \in [Requests -> Locals] /\ OthersUnchanged(r) /\ local'[r] = x
  BY <1>1, <1>2, TakeRecord DEF CoreOK, RequestsOK
<1>4. UNCHANGED <<lockVars, next>> /\ local[r].step \notin {"move", "clear"}
  BY DEF Begin, At, sectionVars
<1>5. RequestsOK' /\ LocksOK'
  BY <1>2, <1>3, <1>4, GoOnOK DEF CoreOK, lockVars
<1>6. StoreOK'
  BY StoreKept DEF CoreOK, Begin
<1> QED BY <1>5, <1>6 DEF CoreOK

\* ReadMaxOrder keeps the types.
LEMMA ReadMaxOrderOK ==
  ASSUME CoreOK, NEW r \in Requests, ReadMaxOrder(r)
  PROVE  CoreOK'
<1>1. MaxOrder(rows) \in Int /\ MaxOrder(rows) >= -1
  BY RowsFinite, MaxOrderFacts DEF CoreOK
<1>2. /\ local' \in [Requests -> Locals] /\ OthersUnchanged(r)
      /\ local'[r].step = "insert" /\ local'[r].number = MaxOrder(rows)
  <2>1. "insert" \in Steps
    BY DEF Steps
  <2>2. local \in [Requests -> Locals]
    BY DEF CoreOK, RequestsOK
  <2>3. Reads(r, "insert", MaxOrder(rows))
    BY DEF ReadMaxOrder, Reads
  <2> QED BY <1>1, <2>1, <2>2, <2>3, NumberType
<1>3. UNCHANGED <<lockVars, next>> /\ local[r].step \notin {"move", "clear"}
  BY DEF ReadMaxOrder, At, sectionVars
<1>4. RequestsOK' /\ LocksOK'
  BY <1>1, <1>2, <1>3, GoOnOK DEF CoreOK, lockVars
<1> QED BY <1>4, StoreKept DEF CoreOK, ReadMaxOrder

\* InsertSection keeps the types.
LEMMA InsertSectionOK ==
  ASSUME CoreOK, NEW r \in Requests, InsertSection(r)
  PROVE  CoreOK'
<1> DEFINE content == <<[order |-> local[r].number + 1, words |-> local[r].words]>>
<1>1. content \in Seq(Contents) /\ Len(content) = 1
  <2>1. local[r].number + 1 \in Nat /\ local[r].words \in Words
    BY DEF InsertSection, At, CoreOK, RequestsOK, RequestOK, Locals
  <2>2. [order |-> local[r].number + 1, words |-> local[r].words] \in Contents
    BY <2>1 DEF Contents
  <2> QED BY <2>2
<1>2. CASE document
  <2>1. RowsBelow(Inserted(rows, next, content, "created"), next + Len(content))
    BY <1>1, InsertedType DEF CoreOK, StoreOK, Placements
  <2>2. next' = next + 1 /\ next' \in Nat \ {0} /\ RowsBelow(rows', next')
    BY <1>1, <1>2, <2>1 DEF InsertSection, CoreOK, StoreOK
  <2>3. StoreOK'
    BY <2>2 DEF InsertSection, CoreOK, StoreOK, documentVars
  <2>4. End(r, "done") /\ UNCHANGED lockVars /\ local[r].step = "insert"
    BY <1>2 DEF InsertSection, At
  <2>5. RequestsOK' /\ LocksOK'
    BY <2>2, <2>4, EndOK DEF CoreOK, StoreOK, Ended
  <2> QED BY <2>3, <2>5 DEF CoreOK
<1>3. CASE ~document
  <2>1. /\ End(r, "failed") /\ UNCHANGED lockVars /\ local[r].step = "insert"
        /\ UNCHANGED <<documentVars, sectionVars, versions>>
    BY <1>3 DEF InsertSection, At, sectionVars
  <2>2. RequestsOK' /\ LocksOK'
    BY <2>1, EndOK DEF CoreOK, StoreOK, Ended, sectionVars
  <2> QED BY <2>1, <2>2, StoreKept DEF CoreOK
<1> QED BY <1>2, <1>3

\* WriteSection keeps the types.
LEMMA WriteSectionOK ==
  ASSUME CoreOK, NEW r \in Requests, WriteSection(r)
  PROVE  CoreOK'
<1>1. /\ local' \in [Requests -> Locals] /\ OthersUnchanged(r)
      /\ local'[r].step = "reread"
  BY GotoType DEF WriteSection, CoreOK, RequestsOK, Steps
<1>2. UNCHANGED <<lockVars, next>> /\ local[r].step \notin {"move", "clear"}
  BY DEF WriteSection, At
<1>3. RequestsOK' /\ LocksOK'
  BY <1>1, <1>2, GoOnOK DEF CoreOK, lockVars
<1>4. local[r].words \in Words
  BY DEF CoreOK, RequestsOK, Locals
<1>5. RowsBelow(rows', next')
  <2> DEFINE s == local[r].section
  <2>1. RowsBelow(rows, next)
    BY DEF CoreOK, StoreOK
  <2>2. CASE rows' = rows
    BY <1>2, <2>1, <2>2 DEF RowsBelow
  <2>3. CASE s \in DOMAIN rows /\ rows' = [rows EXCEPT ![s].words = local[r].words]
    <3>1. [rows[s] EXCEPT !.words = local[r].words] \in Rows
      BY <1>4, <2>1, <2>3 DEF RowsBelow, Rows
    <3>2. DOMAIN rows' = DOMAIN rows /\ \A t \in DOMAIN rows : rows'[t] \in Rows
      BY <2>1, <2>3, <3>1 DEF RowsBelow
    <3> QED BY <1>2, <2>1, <3>2 DEF RowsBelow
  <2> QED BY <2>2, <2>3 DEF WriteSection
<1>6. StoreOK'
  BY <1>2, <1>5 DEF WriteSection, CoreOK, StoreOK, documentVars
<1> QED BY <1>3, <1>6 DEF CoreOK

\* RereadSection keeps the types.
LEMMA RereadSectionOK ==
  ASSUME CoreOK, NEW r \in Requests, RereadSection(r)
  PROVE  CoreOK'
<1>1. /\ End(r, "done") \/ End(r, "failed")
      /\ UNCHANGED lockVars /\ local[r].step = "reread"
      /\ UNCHANGED <<documentVars, sectionVars, versions>>
  BY DEF RereadSection, At
<1>2. RequestsOK' /\ LocksOK'
  BY <1>1, EndOK DEF CoreOK, StoreOK, Ended, sectionVars
<1> QED BY <1>1, <1>2, StoreKept DEF CoreOK

\* RemoveSection keeps the types.
LEMMA RemoveSectionOK ==
  ASSUME CoreOK, NEW r \in Requests, RemoveSection(r)
  PROVE  CoreOK'
<1>1. End(r, "done") /\ UNCHANGED <<lockVars, next>> /\ local[r].step = "remove"
  BY DEF RemoveSection, At
<1>2. RequestsOK' /\ LocksOK'
  BY <1>1, EndOK DEF CoreOK, StoreOK, Ended
<1>3. RowsBelow(rows', next')
  BY <1>1, DeletedType DEF RemoveSection, CoreOK, StoreOK
<1>4. StoreOK'
  BY <1>1, <1>3 DEF RemoveSection, CoreOK, StoreOK, documentVars
<1> QED BY <1>2, <1>4 DEF CoreOK

\* ListSections keeps the types.
LEMMA ListSectionsOK ==
  ASSUME CoreOK, NEW r \in Requests, ListSections(r)
  PROVE  CoreOK'
<1>1. /\ UNCHANGED <<lockVars, next>> /\ local[r].step = "list"
      /\ UNCHANGED <<documentVars, sectionVars, versions>>
  BY DEF ListSections, At, sectionVars
<1>2. CASE End(r, "failed")
  <2>1. RequestsOK' /\ LocksOK'
    BY <1>1, <1>2, EndOK DEF CoreOK, StoreOK, Ended
  <2> QED BY <1>1, <2>1, StoreKept DEF CoreOK
<1>3. CASE local' = [local EXCEPT ![r].step = "move", ![r].number = 1]
  <2>1. /\ local' \in [Requests -> Locals] /\ OthersUnchanged(r)
        /\ local'[r].step = "move" /\ local'[r].number = 1
    <3>1. local \in [Requests -> Locals]
      BY DEF CoreOK, RequestsOK
    <3> QED BY <1>3, <3>1, FirstMoveType
  <2>2. RequestsOK' /\ LocksOK'
    BY <1>1, <2>1, GoOnOK DEF CoreOK, lockVars
  <2> QED BY <1>1, <2>2, StoreKept DEF CoreOK
<1> QED BY <1>2, <1>3 DEF ListSections

-----------------------------------------------------------------------------
\* A statement that comes to a row, of a transaction that may lock it.
LEMMA LockingOK ==
  ASSUME CoreOK, NEW r \in Requests, NEW s, rowLocks' = rowLocks \cup Locking(r, s),
         UNCHANGED <<documentVars, sectionVars, versions, docLock>>,
         local' \in [Requests -> Locals], OthersUnchanged(r),
         local'[r].step = local[r].step, local[r].step \in {"move", "clear"},
         local[r].step = "move" => /\ s \in ToSet(local[r].order)
                                   /\ local'[r].order = local[r].order
                                   /\ local'[r].number >= 1
  PROVE  CoreOK'
<1>1. \A q \in Requests \ {r} : Mine(q)' = Mine(q)
  BY LockingFacts
<1>2. Mine(r)' \subseteq Mine(r) \cup {s}
  BY DEF Mine, Locking
<1>3. RequestOK(r)'
  BY <1>2 DEF CoreOK, RequestsOK, RequestOK
<1>4. RequestsOK'
  BY <1>1, <1>3, RequestStep DEF CoreOK
<1>5. Locking(r, s) \subseteq Requests \X (1 .. next - 1)
  BY DEF Locking, CoreOK, StoreOK, RowsBelow
<1>6. LocksOK'
  BY <1>5 DEF CoreOK, LocksOK, sectionVars
<1> QED BY <1>4, <1>6, StoreKept DEF CoreOK

\* MoveRow keeps the types.
LEMMA MoveRowOK ==
  ASSUME CoreOK, NEW r \in Requests, MoveRow(r)
  PROVE  CoreOK'
<1> DEFINE i == local[r].number
           s == local[r].order[i]
<1>1. local[r] \in Locals /\ local \in [Requests -> Locals]
  BY DEF CoreOK, RequestsOK
<1>2. /\ local[r].step = "move" /\ i <= Len(local[r].order)
      /\ rowLocks' = rowLocks \cup Locking(r, s)
      /\ local' = [local EXCEPT ![r].number = i + 1]
      /\ UNCHANGED <<documentVars, sectionVars, versions, docLock>>
  BY DEF MoveRow, At
<1>3. i \in Int /\ i >= 1 /\ local[r].order \in Seq(Nat)
  BY <1>1, <1>2 DEF CoreOK, RequestsOK, RequestOK, Locals
<1>4. i \in 1 .. Len(local[r].order)
  BY <1>2, <1>3
<1>5. s \in ToSet(local[r].order)
  BY <1>3, <1>4 DEF ToSet
<1>6. /\ local' \in [Requests -> Locals] /\ OthersUnchanged(r)
      /\ local'[r].step = local[r].step /\ local'[r].order = local[r].order
      /\ local'[r].number = i + 1
  <2>1. PICK n \in Int : n = i + 1
    BY <1>3
  <2> HIDE DEF i
  <2> DEFINE x == [local[r] EXCEPT !.number = n]
  <2>2. /\ x \in Locals /\ x.step = local[r].step /\ x.order = local[r].order
        /\ x.number = i + 1
    BY <1>1, <2>1 DEF Locals
  <2>3. local' = [local EXCEPT ![r] = x]
    BY <1>2, <2>1
  <2> HIDE DEF x
  <2> QED BY <1>1, <2>2, <2>3, TakeRecord
<1>7. local'[r].number >= 1
  BY <1>3, <1>6
<1> HIDE DEF i, s
<1> QED BY <1>2, <1>5, <1>6, <1>7, LockingOK

\* CommitReorder keeps the types.
LEMMA CommitReorderOK ==
  ASSUME CoreOK, NEW r \in Requests, CommitReorder(r)
  PROVE  CoreOK'
<1>1. Release(r) /\ End(r, "done") /\ next' = next /\ At(r, "move")
  BY DEF CommitReorder
<1>2. RequestsOK' /\ LocksOK'
  BY <1>1, ReleaseType DEF CoreOK, StoreOK, Ended
<1>3. local[r].order \in Seq(Nat) /\ Mine(r) \subseteq ToSet(local[r].order)
  BY <1>1 DEF CoreOK, RequestsOK, RequestOK, Locals, At
<1>4. RowsBelow(rows', next')
  BY <1>1, <1>3, MovedType DEF CommitReorder, CoreOK, StoreOK
<1>5. StoreOK'
  BY <1>1, <1>3, <1>4 DEF CommitReorder, CoreOK, StoreOK, documentVars
<1> QED BY <1>2, <1>5 DEF CoreOK

\* SelectForSave keeps the types.
LEMMA SelectForSaveOK ==
  ASSUME CoreOK, NEW r \in Requests, SelectForSave(r)
  PROVE  CoreOK'
<1>1. PICK step \in {"update", "insertDocument"} : Goto(r, step)
  BY DEF SelectForSave
<1>2. step \in Steps
  BY DEF Steps
<1>3. local' \in [Requests -> Locals] /\ OthersUnchanged(r) /\ local'[r].step = step
  BY <1>1, <1>2, GotoType DEF CoreOK, RequestsOK
<1>4. /\ UNCHANGED <<documentVars, sectionVars, versions, lockVars>>
      /\ local[r].step = "select"
  BY DEF SelectForSave, At
<1>5. RequestsOK' /\ LocksOK'
  BY <1>3, <1>4, GoOnOK DEF CoreOK, lockVars, sectionVars
<1> QED BY <1>4, <1>5, StoreKept DEF CoreOK

\* SaveDocument keeps the types.
LEMMA SaveDocumentOK ==
  ASSUME CoreOK, NEW r \in Requests, SaveDocument(r)
  PROVE  CoreOK'
<1>1. /\ End(r, "done") /\ UNCHANGED lockVars /\ local[r].step = "update"
      /\ UNCHANGED <<documentVars, sectionVars, versions>>
  BY DEF SaveDocument, At
<1>2. RequestsOK' /\ LocksOK'
  BY <1>1, EndOK DEF CoreOK, StoreOK, Ended, sectionVars
<1> QED BY <1>1, <1>2, StoreKept DEF CoreOK

\* ReinsertDocument keeps the types.
LEMMA ReinsertDocumentOK ==
  ASSUME CoreOK, NEW r \in Requests, ReinsertDocument(r)
  PROVE  CoreOK'
<1>1. /\ End(r, "done") \/ End(r, "failed")
      /\ UNCHANGED lockVars /\ local[r].step = "insertDocument"
      /\ UNCHANGED <<created, sectionVars, versions>> /\ document' = TRUE
  BY DEF ReinsertDocument, At
<1>2. RequestsOK' /\ LocksOK'
  BY <1>1, EndOK DEF CoreOK, StoreOK, Ended, sectionVars
<1>3. document' \in BOOLEAN /\ created' \in BOOLEAN /\ revived' \in BOOLEAN
  BY <1>1, Zenon DEF CoreOK, StoreOK, ReinsertDocument
<1>4. StoreOK'
  BY <1>1, <1>3 DEF CoreOK, StoreOK, RowsBelow, sectionVars
<1> QED BY <1>2, <1>4 DEF CoreOK

\* LockDocument keeps the types.
LEMMA LockDocumentOK ==
  ASSUME CoreOK, NEW r \in Requests, LockDocument(r)
  PROVE  CoreOK'
<1> DEFINE applies == local[r].kind = "apply"
           step == IF applies THEN "append" ELSE "clear"
           targets == IF applies THEN {} ELSE DOMAIN rows
           number == IF applies THEN MaxOrder(rows) ELSE 0
           x == [local[r] EXCEPT !.step = step, !.targets = targets, !.number = number]
<1>1. local[r] \in Locals /\ local \in [Requests -> Locals]
  BY DEF CoreOK, RequestsOK
<1>2. MaxOrder(rows) \in Int /\ MaxOrder(rows) >= -1 /\ DOMAIN rows \subseteq Nat
  BY RowsFinite, MaxOrderFacts DEF CoreOK
<1>3. "append" \in Steps /\ "clear" \in Steps
  BY DEF Steps
<1>4. /\ x \in Locals /\ x.step \in {"append", "clear"}
      /\ x.step = "append" => x.number = MaxOrder(rows)
  <2>1. step \in Steps /\ targets \in SUBSET Nat /\ number \in Int
    BY <1>2, <1>3
  <2>2. step \in {"append", "clear"} /\ (step = "append" => number = MaxOrder(rows))
    OBVIOUS
  <2> HIDE DEF step, targets, number
  <2>3. x \in Locals /\ x.step = step /\ x.number = number
    BY <1>1, <2>1 DEF Locals
  <2> QED BY <2>2, <2>3
<1>5. local' = [local EXCEPT ![r] = x]
  BY DEF LockDocument
<1> HIDE DEF x
<1>6. local' \in [Requests -> Locals] /\ OthersUnchanged(r) /\ local'[r] = x
  BY <1>1, <1>4, <1>5, TakeRecord
<1>7. /\ UNCHANGED <<documentVars, sectionVars, versions, rowLocks>>
      /\ docLock' \in {r, Nobody} /\ local[r].step = "lockDocument"
  BY DEF LockDocument, At
<1>8. RequestsOK' /\ LocksOK'
  BY <1>2, <1>4, <1>6, <1>7, GoOnOK DEF CoreOK, sectionVars
<1> QED BY <1>7, <1>8, StoreKept DEF CoreOK

\* ClearRow keeps the types.
LEMMA ClearRowOK ==
  ASSUME CoreOK, NEW r \in Requests, ClearRow(r)
  PROVE  CoreOK'
<1>1. PICK s \in local[r].targets :
        /\ rowLocks' = rowLocks \cup Locking(r, s)
        /\ local' = [local EXCEPT ![r].targets = @ \ {s}]
  BY DEF ClearRow
<1>2. local[r] \in Locals /\ local \in [Requests -> Locals]
  BY DEF CoreOK, RequestsOK
<1>3. local' \in [Requests -> Locals] /\ OthersUnchanged(r) /\ local'[r].step = local[r].step
  <2> DEFINE x == [local[r] EXCEPT !.targets = @ \ {s}]
  <2>1. x \in Locals /\ x.step = local[r].step
    BY <1>2 DEF Locals
  <2>2. local' = [local EXCEPT ![r] = x]
    BY <1>1
  <2> HIDE DEF x
  <2> QED BY <1>2, <2>1, <2>2, TakeRecord
<1>4. /\ UNCHANGED <<documentVars, sectionVars, versions, docLock>>
      /\ local[r].step = "clear"
  BY DEF ClearRow, At
<1> QED BY <1>1, <1>3, <1>4, LockingOK

\* DeleteDocument keeps the types.
LEMMA DeleteDocumentOK ==
  ASSUME CoreOK, NEW r \in Requests, DeleteDocument(r)
  PROVE  CoreOK'
<1>1. Release(r) /\ End(r, "done") /\ next' = next
  BY DEF DeleteDocument
<1>2. RequestsOK' /\ LocksOK'
  BY <1>1, ReleaseType DEF CoreOK, StoreOK, Ended
<1>3. RowsBelow(rows', next')
  BY <1>1, DeletedType DEF DeleteDocument, CoreOK, StoreOK
<1>4. StoreOK'
  BY <1>1, <1>3 DEF DeleteDocument, CoreOK, StoreOK
<1> QED BY <1>2, <1>4 DEF CoreOK

\* ReplaceSections keeps the types.
LEMMA ReplaceSectionsOK ==
  ASSUME CoreOK, NEW r \in Requests, ReplaceSections(r)
  PROVE  CoreOK'
<1> DEFINE content == local[r].content
<1>1. content \in Seq(Contents) /\ Len(content) \in Nat
  BY DEF CoreOK, RequestsOK, Locals
<1>2. /\ Release(r) /\ UNCHANGED <<documentVars, lastOrder, versions>>
      /\ End(r, "done") \/ End(r, "failed")
  BY DEF ReplaceSections
<1>3. /\ RowsBelow(rows', next') /\ next' \in Nat \ {0} /\ next' >= next
  <2>1. CASE document
    <3>1. RowsBelow(Deleted(rows, Mine(r)), next)
      BY DeletedType DEF CoreOK, StoreOK
    <3>2. next \in Nat \ {0} /\ "restored" \in Placements
      BY DEF CoreOK, StoreOK, Placements
    <3>3. RowsBelow(Inserted(Deleted(rows, Mine(r)), next, content, "restored"),
                    next + Len(content))
      BY <1>1, <3>1, <3>2, InsertedType
    <3>4. /\ rows' = Inserted(Deleted(rows, Mine(r)), next, content, "restored")
          /\ next' = next + Len(content)
      BY <2>1 DEF ReplaceSections
    <3> QED BY <1>1, <3>2, <3>3, <3>4
  <2>2. CASE ~document
    BY <2>2 DEF ReplaceSections, CoreOK, StoreOK
  <2> QED BY <2>1, <2>2 DEF CoreOK, StoreOK
<1>4. StoreOK'
  BY <1>2, <1>3 DEF CoreOK, StoreOK, documentVars
<1>5. RequestsOK' /\ LocksOK'
  BY <1>2, <1>3, ReleaseType DEF CoreOK, StoreOK, Ended
<1> QED BY <1>4, <1>5 DEF CoreOK

\* DeadlockVictim keeps the types.
LEMMA DeadlockVictimOK ==
  ASSUME CoreOK, NEW r \in Requests, DeadlockVictim(r)
  PROVE  CoreOK'
<1>1. /\ Release(r) /\ End(r, "failed") /\ next' = next
      /\ UNCHANGED <<documentVars, sectionVars, versions>>
  BY DEF DeadlockVictim, sectionVars
<1>2. RequestsOK' /\ LocksOK'
  BY <1>1, ReleaseType DEF CoreOK, StoreOK, Ended
<1> QED BY <1>1, <1>2, StoreKept DEF CoreOK

-----------------------------------------------------------------------------
\* Saving a version, and the templates.
LEMMA TakeSnapshotOK ==
  ASSUME CoreOK, NEW r \in Requests, TakeSnapshot(r)
  PROVE  CoreOK'
<1> PICK age \in Ages(rows) :
          local' = [local EXCEPT ![r].content = Snapshot(rows, age), ![r].step = "maxVersion",
                                 ![r].seen = Cardinality(versions)]
  BY DEF TakeSnapshot
<1> DEFINE content == Snapshot(rows, age)
           seen == Cardinality(versions)
           x == [local[r] EXCEPT !.content = content, !.step = "maxVersion", !.seen = seen]
<1>1. local[r] \in Locals /\ local \in [Requests -> Locals]
  BY DEF CoreOK, RequestsOK
<1>2. content \in Seq(Contents) /\ seen \in Nat /\ "maxVersion" \in Steps
  BY SnapshotType, FS_CardinalityType DEF CoreOK, StoreOK, Steps
<1>3. x \in Locals /\ x.step = "maxVersion"
  <2> HIDE DEF content, seen
  <2> QED BY <1>1, <1>2 DEF Locals
<1>4. local' = [local EXCEPT ![r] = x]
  OBVIOUS
<1> HIDE DEF x
<1>5. local' \in [Requests -> Locals] /\ OthersUnchanged(r) /\ local'[r] = x
  BY <1>1, <1>3, <1>4, TakeRecord
<1>6. /\ UNCHANGED <<documentVars, sectionVars, versions, lockVars>>
      /\ local[r].step = "snapshot"
  BY DEF TakeSnapshot, At
<1>7. RequestsOK' /\ LocksOK'
  BY <1>3, <1>5, <1>6, GoOnOK DEF CoreOK, lockVars, sectionVars
<1> QED BY <1>6, <1>7, StoreKept DEF CoreOK

\* ReadMaxVersion keeps the types.
LEMMA ReadMaxVersionOK ==
  ASSUME CoreOK, NEW r \in Requests, ReadMaxVersion(r)
  PROVE  CoreOK'
<1>1. MaxVersion(versions) \in Nat /\ "insertVersion" \in Steps
  BY MaxVersionType DEF CoreOK, Steps
<1>2. /\ local' \in [Requests -> Locals] /\ OthersUnchanged(r)
      /\ local'[r].step = "insertVersion" /\ local'[r].number = MaxVersion(versions)
  <2>1. local \in [Requests -> Locals] /\ MaxVersion(versions) \in Int
    BY <1>1 DEF CoreOK, RequestsOK
  <2>2. Reads(r, "insertVersion", MaxVersion(versions))
    BY DEF ReadMaxVersion, Reads
  <2> QED BY <1>1, <2>1, <2>2, NumberType
<1>3. /\ UNCHANGED <<documentVars, sectionVars, versions, lockVars>>
      /\ local[r].step = "maxVersion"
  BY DEF ReadMaxVersion, At
<1>4. RequestsOK' /\ LocksOK'
  BY <1>1, <1>2, <1>3, GoOnOK DEF CoreOK, lockVars, sectionVars
<1> QED BY <1>3, <1>4, StoreKept DEF CoreOK

\* What the insert of a version does to its request and to the versions.
LEMMA InsertVersionCases ==
  ASSUME CoreOK, NEW r \in Requests, InsertVersion(r)
  PROVE  LET number == local[r].number + 1 IN
         /\ local[r].step = "insertVersion" /\ local[r] \in Locals
         /\ local' \in [Requests -> Locals] /\ OthersUnchanged(r)
         /\ \/ /\ ~Taken(number)
               /\ versions' = versions \cup
                    {[number |-> number, content |-> local[r].content, by |-> r]}
               /\ End(r, "done") /\ local'[r].step = "done"
            \/ /\ Taken(number) /\ ~local[r].retried /\ versions' = versions
               /\ local'[r] = [local[r] EXCEPT !.step = "maxVersion", !.retried = TRUE]
               /\ local'[r].step = "maxVersion" /\ local'[r].retried
               /\ local'[r].seen = local[r].seen /\ local'[r].content = local[r].content
            \/ /\ Taken(number) /\ local[r].retried /\ versions' = versions
               /\ local'[r].step = "duplicate" /\ local'[r].seen = local[r].seen
<1> DEFINE number == local[r].number + 1
<1>1. local[r] \in Locals /\ local \in [Requests -> Locals]
  BY DEF CoreOK, RequestsOK
<1>2. local[r].step = "insertVersion"
  BY DEF InsertVersion, At
<1> HIDE DEF number
<1>3. CASE ~Taken(number)
  <2>1. /\ versions' = versions \cup
             {[number |-> number, content |-> local[r].content, by |-> r]}
        /\ End(r, "done")
    BY <1>3 DEF InsertVersion, number
  <2>2. local' \in [Requests -> Locals] /\ OthersUnchanged(r) /\ local'[r].step = "done"
    BY <1>1, <2>1, EndType DEF Ended
  <2> QED BY <1>1, <1>2, <1>3, <2>1, <2>2 DEF number
<1>4. CASE Taken(number) /\ ~local[r].retried
  <2> DEFINE x == [local[r] EXCEPT !.step = "maxVersion", !.retried = TRUE]
  <2>1. local' = [local EXCEPT ![r] = x] /\ versions' = versions
    BY <1>4 DEF InsertVersion, number
  <2>2. "maxVersion" \in Steps
    BY DEF Steps
  <2>3. /\ x \in Locals /\ x.step = "maxVersion" /\ x.retried
        /\ x.seen = local[r].seen /\ x.content = local[r].content
    BY <1>1, <2>2 DEF Locals
  <2> HIDE DEF x
  <2>4. local' \in [Requests -> Locals] /\ OthersUnchanged(r) /\ local'[r] = x
    BY <1>1, <2>1, <2>3, TakeRecord
  <2> QED BY <1>1, <1>2, <1>4, <2>1, <2>3, <2>4 DEF x, number
<1>5. CASE Taken(number) /\ local[r].retried
  <2>1. Goto(r, "duplicate") /\ versions' = versions /\ "duplicate" \in Steps
    BY <1>5 DEF InsertVersion, number, Steps, Ended
  <2>2. /\ local' \in [Requests -> Locals] /\ OthersUnchanged(r)
        /\ local'[r] = [local[r] EXCEPT !.step = "duplicate"]
        /\ local'[r].step = "duplicate"
    BY <1>1, <2>1, GotoType
  <2>3. local'[r].seen = local[r].seen
    BY <1>1, <2>2 DEF Locals
  <2> QED BY <1>1, <1>2, <1>5, <2>1, <2>2, <2>3 DEF number
<1>6. local[r].retried \in BOOLEAN /\ Taken(number) \in BOOLEAN
  BY <1>1 DEF Locals, Taken
<1> QED BY <1>3, <1>4, <1>5, <1>6

\* InsertVersion keeps the types.
LEMMA InsertVersionOK ==
  ASSUME CoreOK, NEW r \in Requests, InsertVersion(r)
  PROVE  CoreOK'
<1> DEFINE number == local[r].number + 1
           v == [number |-> number, content |-> local[r].content, by |-> r]
<1>1. /\ local[r].step = "insertVersion" /\ local[r] \in Locals
      /\ local' \in [Requests -> Locals] /\ OthersUnchanged(r)
      /\ local'[r].step \in {"done", "maxVersion", "duplicate"}
      /\ versions' = versions \/ versions' = versions \cup {v}
  BY InsertVersionCases
<1>2. UNCHANGED <<documentVars, sectionVars, lockVars>>
  BY DEF InsertVersion
<1>3. RequestsOK' /\ LocksOK'
  BY <1>1, <1>2, GoOnOK DEF CoreOK, lockVars, sectionVars
<1>4. number \in Nat \ {0} /\ local[r].content \in Seq(Contents)
  BY <1>1 DEF CoreOK, RequestsOK, RequestOK, Locals
<1>5. v.number = number /\ v.content = local[r].content
  OBVIOUS
<1> HIDE DEF v, number
<1>6. IsFiniteSet(versions')
  <2>1. IsFiniteSet(versions)
    BY DEF CoreOK, StoreOK
  <2>2. IsFiniteSet(versions \cup {v})
    BY <2>1, FS_AddElement
  <2> QED BY <1>1, <2>1, <2>2
<1>7. \A u \in versions' : u.number \in Nat \ {0} /\ u.content \in Seq(Contents)
  BY <1>1, <1>4, <1>5 DEF CoreOK, StoreOK
<1>8. StoreOK'
  BY <1>2, <1>6, <1>7 DEF CoreOK, StoreOK, RowsBelow, documentVars, sectionVars
<1> QED BY <1>3, <1>8 DEF CoreOK
-----------------------------------------------------------------------------
\* CreateTemplate keeps the types.
LEMMA CreateTemplateOK ==
  ASSUME CoreOK, NEW r \in Requests, CreateTemplate(r)
  PROVE  CoreOK'
<1>1. /\ End(r, "done") /\ UNCHANGED lockVars /\ local[r].step = "idle"
      /\ UNCHANGED <<documentVars, sectionVars, versions>>
  BY DEF CreateTemplate, At
<1>2. RequestsOK' /\ LocksOK'
  BY <1>1, EndOK DEF CoreOK, StoreOK, Ended, sectionVars
<1> QED BY <1>1, <1>2, StoreKept DEF CoreOK

\* What a request about a template starts with.
LEMMA TemplateRequestType ==
  ASSUME NEW kind \in {"editTemplate", "administerTemplate", "deleteTemplate", "apply"},
         NEW size \in Nat, NEW publish \in BOOLEAN
  PROVE  LET x == TemplateRequest(kind, size, publish) IN
         /\ x \in Locals /\ x.kind = kind /\ x.publish = publish
         /\ x.step \in {"templateSections", "removeTemplate", "lockTemplate"}
<1> DEFINE step == CASE kind = "apply" -> "templateSections"
                     [] kind = "deleteTemplate" -> "removeTemplate"
                     [] OTHER -> "lockTemplate"
<1>1. step \in {"templateSections", "removeTemplate", "lockTemplate"}
  OBVIOUS
<1>2. {"templateSections", "removeTemplate", "lockTemplate"} \subseteq Steps
  BY DEF Steps
<1>3. kind \in Kinds
  BY DEF Kinds
<1>4. TemplateRequest(kind, size, publish) =
        [Idle EXCEPT !.kind = kind, !.size = size, !.publish = publish, !.step = step]
  BY DEF TemplateRequest
<1>5. step \in Steps
  BY <1>1, <1>2
<1> DEFINE x == [Idle EXCEPT !.kind = kind, !.size = size, !.publish = publish,
                              !.step = step]
<1> HIDE DEF step
<1>6. x \in Locals /\ x.kind = kind /\ x.publish = publish /\ x.step = step
  <2>1. Idle \in Locals
    BY IdleType
  <2> QED BY <1>3, <1>5, <2>1 DEF Locals
<1> HIDE DEF x
<1> QED BY <1>1, <1>4, <1>6 DEF x

\* BeginTemplate keeps the types.
LEMMA BeginTemplateOK ==
  ASSUME CoreOK, NEW r \in Requests, BeginTemplate(r)
  PROVE  /\ CoreOK'
         /\ OthersUnchanged(r)
         /\ local'[r].step \in {"templateSections", "removeTemplate", "lockTemplate"}
<1>1. PICK kind \in {"editTemplate", "administerTemplate", "deleteTemplate", "apply"},
           size \in 1 .. MaxSize, publish \in BOOLEAN :
        local' = [local EXCEPT ![r] = TemplateRequest(kind, size, publish)]
  BY DEF BeginTemplate
<1> DEFINE x == TemplateRequest(kind, size, publish)
<1>2. size \in Nat
  BY MaxSizeAssumption
<1>3. x \in Locals /\ x.step \in {"templateSections", "removeTemplate", "lockTemplate"}
  BY <1>2, TemplateRequestType
<1>4. local' \in [Requests -> Locals] /\ OthersUnchanged(r) /\ local'[r] = x
  BY <1>1, <1>3, TakeRecord DEF CoreOK, RequestsOK
<1>5. /\ UNCHANGED <<documentVars, sectionVars, versions, lockVars>>
      /\ local[r].step = "idle"
  BY DEF BeginTemplate, At
<1>6. RequestsOK' /\ LocksOK'
  BY <1>3, <1>4, <1>5, GoOnOK DEF CoreOK, lockVars, sectionVars
<1> QED BY <1>3, <1>4, <1>5, <1>6, StoreKept DEF CoreOK

\* LockTemplate keeps the types.
LEMMA LockTemplateOK ==
  ASSUME CoreOK, NEW r \in Requests, LockTemplate(r)
  PROVE  CoreOK'
<1>1. /\ UNCHANGED <<documentVars, sectionVars, versions, lockVars>>
      /\ local[r].step = "lockTemplate"
  BY DEF LockTemplate, At
<1>2. CASE Goto(r, "saveTemplate")
  <2>1. /\ local' \in [Requests -> Locals] /\ OthersUnchanged(r)
        /\ local'[r].step = "saveTemplate"
    <3>1. "saveTemplate" \in Steps
      BY DEF Steps
    <3> QED BY <1>2, <3>1, GotoType DEF CoreOK, RequestsOK
  <2>2. RequestsOK' /\ LocksOK'
    BY <1>1, <2>1, GoOnOK DEF CoreOK, lockVars, sectionVars
  <2> QED BY <1>1, <2>2, StoreKept DEF CoreOK
<1>3. CASE End(r, "failed")
  <2>1. RequestsOK' /\ LocksOK'
    BY <1>1, <1>3, EndOK DEF CoreOK, StoreOK, Ended, sectionVars
  <2> QED BY <1>1, <2>1, StoreKept DEF CoreOK
<1> QED BY <1>2, <1>3 DEF LockTemplate

\* SaveTemplate keeps the types.
LEMMA SaveTemplateOK ==
  ASSUME CoreOK, NEW r \in Requests, SaveTemplate(r) \/ RemoveTemplate(r)
  PROVE  CoreOK'
<1>1. /\ End(r, "done") /\ UNCHANGED lockVars
      /\ local[r].step \in {"saveTemplate", "removeTemplate"}
      /\ UNCHANGED <<documentVars, sectionVars, versions>>
  BY DEF SaveTemplate, RemoveTemplate, At
<1>2. RequestsOK' /\ LocksOK'
  BY <1>1, EndOK DEF CoreOK, StoreOK, Ended, sectionVars
<1> QED BY <1>1, <1>2, StoreKept DEF CoreOK

\* ReadTemplateSections keeps the types.
LEMMA ReadTemplateSectionsOK ==
  ASSUME CoreOK, TemplateOK, NEW r \in Requests, ReadTemplateSections(r)
  PROVE  CoreOK'
<1>1. /\ UNCHANGED <<documentVars, sectionVars, versions, lockVars>>
      /\ local[r].step = "templateSections"
  BY DEF ReadTemplateSections, At
<1>2. CASE document
  <2> DEFINE size == IF Live THEN template.size ELSE 0
             x == [local[r] EXCEPT !.size = size, !.step = "lockDocument"]
  <2>1. local[r] \in Locals /\ size \in Nat /\ "lockDocument" \in Steps
    BY DEF CoreOK, RequestsOK, TemplateOK, TemplateRows, Steps
  <2>2. x \in Locals /\ x.step = "lockDocument"
    <3> HIDE DEF size
    <3> QED BY <2>1 DEF Locals
  <2>3. local' = [local EXCEPT ![r] = x]
    BY <1>2 DEF ReadTemplateSections
  <2> HIDE DEF x
  <2>4. local' \in [Requests -> Locals] /\ OthersUnchanged(r) /\ local'[r] = x
    BY <2>2, <2>3, TakeRecord DEF CoreOK, RequestsOK
  <2>5. RequestsOK' /\ LocksOK'
    BY <1>1, <2>2, <2>4, GoOnOK DEF CoreOK, lockVars, sectionVars
  <2> QED BY <1>1, <2>5, StoreKept DEF CoreOK
<1>3. CASE ~document
  <2>1. End(r, "failed")
    BY <1>3 DEF ReadTemplateSections
  <2>2. RequestsOK' /\ LocksOK'
    BY <1>1, <2>1, EndOK DEF CoreOK, StoreOK, Ended, sectionVars
  <2> QED BY <1>1, <2>2, StoreKept DEF CoreOK
<1> QED BY <1>2, <1>3

\* ApplyToDocument keeps the types.
LEMMA ApplyToDocumentOK ==
  ASSUME CoreOK, NEW r \in Requests, ApplyToDocument(r)
  PROVE  CoreOK'
<1> DEFINE content == Blank(local[r].size, local[r].number)
<1>1. /\ Release(r) /\ UNCHANGED <<documentVars, lastOrder, versions>>
      /\ End(r, "done") \/ End(r, "failed")
  BY DEF ApplyToDocument
<1>2. /\ local[r].size \in Nat /\ local[r].number \in Int /\ local[r].number >= -1
  BY DEF ApplyToDocument, At, CoreOK, RequestsOK, RequestOK, Locals
<1>3. content \in Seq(Contents) /\ Len(content) = local[r].size
  BY <1>2, BlankType
<1>4. /\ RowsBelow(rows', next') /\ next' \in Nat \ {0} /\ next' >= next
  <2>1. CASE document /\ Live
    <3>1. next \in Nat \ {0} /\ RowsBelow(rows, next) /\ "applied" \in Placements
      BY DEF CoreOK, StoreOK, Placements
    <3>2. RowsBelow(Inserted(rows, next, content, "applied"), next + Len(content))
      BY <1>3, <3>1, InsertedType
    <3>3. rows' = Inserted(rows, next, content, "applied") /\ next' = next + local[r].size
      BY <2>1 DEF ApplyToDocument
    <3> HIDE DEF content
    <3> QED BY <1>2, <1>3, <3>1, <3>2, <3>3
  <2>2. CASE ~(document /\ Live)
    BY <2>2 DEF ApplyToDocument, CoreOK, StoreOK
  <2> QED BY <2>1, <2>2
<1>5. StoreOK'
  BY <1>1, <1>4 DEF CoreOK, StoreOK, documentVars
<1>6. RequestsOK' /\ LocksOK'
  BY <1>1, <1>4, ReleaseType DEF CoreOK, StoreOK, Ended
<1> QED BY <1>5, <1>6 DEF CoreOK

-----------------------------------------------------------------------------
\* A step of a request of the document keeps the types.
LEMMA DocumentsStepOK ==
  ASSUME CoreOK, NEW r \in Requests, DocumentsStep(r)
  PROVE  CoreOK'
BY CreateDocumentOK, BeginOK, ReadMaxOrderOK, InsertSectionOK, WriteSectionOK,
   RereadSectionOK, RemoveSectionOK, ListSectionsOK, MoveRowOK, CommitReorderOK,
   SelectForSaveOK, SaveDocumentOK, ReinsertDocumentOK, LockDocumentOK, ClearRowOK,
   ReplaceSectionsOK, TakeSnapshotOK, ReadMaxVersionOK, InsertVersionOK, DeadlockVictimOK
   DEF DocumentsStep

\* A step of a request of the template keeps the types.
LEMMA TemplatesStepOK ==
  ASSUME CoreOK, TemplateOK, NEW r \in Requests, TemplatesStep(r)
  PROVE  CoreOK' /\ TemplateOK'
<1>1. CoreOK'
  BY CreateTemplateOK, BeginTemplateOK, LockTemplateOK, SaveTemplateOK,
     ReadTemplateSectionsOK, ApplyToDocumentOK DEF TemplatesStep
<1>2. CASE CreateTemplate(r)
  <2>1. 1 .. MaxSize \subseteq Nat
    BY MaxSizeAssumption
  <2> QED BY <1>1, <1>2, <2>1 DEF CreateTemplate, TemplateOK, TemplateRows
<1>3. CASE BeginTemplate(r) \/ ReadTemplateSections(r) \/ ApplyToDocument(r)
  BY <1>1, <1>3 DEF BeginTemplate, ReadTemplateSections, ApplyToDocument, TemplateOK, templateVars
<1>4. CASE LockTemplate(r)
  BY <1>1, <1>4 DEF LockTemplate, TemplateOK
<1>5. CASE SaveTemplate(r)
  <2>1. local[r].publish \in BOOLEAN /\ local[r].size \in Nat
    BY DEF CoreOK, RequestsOK, Locals
  <2> QED BY <1>1, <1>5, <2>1 DEF SaveTemplate, TemplateOK, TemplateRows
<1>6. CASE RemoveTemplate(r)
  BY <1>1, <1>6 DEF RemoveTemplate, TemplateOK, TemplateRows
<1> QED BY <1>1, <1>2, <1>3, <1>4, <1>5, <1>6 DEF TemplatesStep

\* XP is a natural number, and so is the level that follows from it.
LEMMA CreditedType ==
  ASSUME RewardsOK, NEW xp \in Nat
  PROVE  Credited(xp) \in [xp : Nat, level : Nat]
<1>1. user.xp + xp \in Nat
  BY DEF RewardsOK
<1>2. \A n \in Nat : n \div XP_PER_LEVEL + 1 \in Nat
  BY DEF XP_PER_LEVEL
<1> QED BY <1>1, <1>2 DEF Credited

\* Handling an event keeps the types.
LEMMA RewardsStepOK ==
  ASSUME RewardsOK, NEW e \in events, RewardsStep(e)
  PROVE  RewardsOK'
<1>1. CASE ApplyMilestoneRules(e)
  <2>1. CASE UNCHANGED <<milestones, user>>
    BY <1>1, <2>1 DEF ApplyMilestoneRules, RewardsOK
  <2>2. CASE \E rule \in Matching(e) : AwardOnce(rule)
    <3>1. PICK rule \in MILESTONE_RULES : AwardOnce(rule)
      BY <2>2 DEF Matching
    <3>2. rule.xp \in Nat /\ rule.type \in {u.type : u \in MILESTONE_RULES}
      BY DEF MILESTONE_RULES
    <3>3. Credited(rule.xp) \in [xp : Nat, level : Nat]
      BY <3>2, CreditedType
    <3>4. /\ milestones' \in {milestones, milestones \cup {rule.type}}
          /\ user' \in {user, Credited(rule.xp)} /\ mission' = mission
      BY <1>1, <3>1 DEF AwardOnce, ApplyMilestoneRules
    <3> QED BY <3>2, <3>3, <3>4 DEF RewardsOK
  <2> QED BY <1>1, <2>1, <2>2 DEF ApplyMilestoneRules
<1>2. CASE ApplyMissionProgress(e)
  <2>1. MissionXp \in Nat /\ MissionTarget \in Nat
    BY MissionAssumption
  <2>2. Credited(MissionXp) \in [xp : Nat, level : Nat]
    BY <2>1, CreditedType
  <2>3. milestones' = milestones
    BY <1>2 DEF ApplyMissionProgress
  <2>4. CASE UNCHANGED <<mission, user>>
    BY <2>3, <2>4 DEF RewardsOK
  <2>5. CASE IncrementAtomic /\ ~UNCHANGED <<mission, user>>
    <3>1. /\ mission' = [progress |-> mission.progress + 1,
                         completed |-> mission.progress + 1 >= MissionTarget]
          /\ user' \in {user, Credited(MissionXp)}
      BY <2>5 DEF IncrementAtomic
    <3>2. mission.progress + 1 \in Nat
      BY DEF RewardsOK
    <3>3. (mission.progress + 1 >= MissionTarget) \in BOOLEAN
      BY <2>1, <3>2
    <3> QED BY <2>2, <2>3, <3>1, <3>2, <3>3 DEF RewardsOK
  <2> QED BY <1>2, <2>4, <2>5 DEF ApplyMissionProgress
<1> QED BY <1>1, <1>2 DEF RewardsStep

\* The tables that there are at the start.
LEMMA StoreInit == Init => StoreOK
<1> SUFFICES ASSUME Init
             PROVE  StoreOK
  OBVIOUS
<1>1. OldSections \in Nat /\ lastOrder \in Seq(Nat)
  BY DocumentsAssumption DEF Init, DocumentsInit
<1>2. CASE document = FALSE /\ created = FALSE /\ rows = <<>> /\ next = 1 /\ versions = {}
  <2>1. DOMAIN rows = {}
    BY <1>2
  <2>2. IsFiniteSet(versions)
    BY <1>2, FS_EmptySet
  <2>3. RowsBelow(rows, next)
    BY <2>1 DEF RowsBelow
  <2>4. \A v \in versions : v.number \in Nat \ {0} /\ v.content \in Seq(Contents)
    BY <1>2
  <2>5. document \in BOOLEAN /\ created \in BOOLEAN /\ revived \in BOOLEAN
    <3>1. revived = FALSE
      BY DEF Init, DocumentsInit
    <3> QED BY <1>2, <3>1, Zenon
  <2>6. next \in Nat \ {0}
    BY <1>2
  <2> QED BY <1>1, <2>2, <2>3, <2>4, <2>5, <2>6 DEF StoreOK
<1>3. CASE /\ document = TRUE /\ created = TRUE /\ next = OldSections + 1
           /\ rows = [s \in 1 .. OldSections |->
                        [order |-> s - 1, words |-> "brief", placed |-> "created"]]
           /\ versions = {[number |-> 1, content |-> Blank(1, -1), by |-> Nobody]}
  <2>1. Blank(1, -1) \in Seq(Contents)
    BY BlankType
  <2>2. IsFiniteSet(versions)
    BY <1>3, FS_Singleton
  <2>3. \A v \in versions : v.number \in Nat \ {0} /\ v.content \in Seq(Contents)
    BY <1>3, <2>1
  <2>4. \A s \in 1 .. OldSections : s - 1 \in Nat
    BY <1>1
  <2>5. RowsBelow(rows, next)
    BY <1>1, <1>3, <2>4 DEF RowsBelow, Rows, Words, Placements
  <2>6. document \in BOOLEAN /\ created \in BOOLEAN /\ revived \in BOOLEAN
    <3>1. revived = FALSE
      BY DEF Init, DocumentsInit
    <3> QED BY <1>3, <3>1, Zenon
  <2> QED BY <1>1, <1>3, <2>2, <2>3, <2>5, <2>6 DEF StoreOK
<1> QED BY <1>2, <1>3 DEF Init, DocumentsInit

\* At the start.
LEMMA TypeInit == Init => TypeInv
<1> SUFFICES ASSUME Init
             PROVE  TypeInv
  OBVIOUS
<1>1. StoreOK
  BY StoreInit
<1>2. LocksOK
  BY DEF Init, DocumentsInit, LocksOK
<1>3. RequestsOK
  <2>1. \A r \in Requests : local[r].step = "idle" /\ Mine(r) = {}
    BY DEF Init, DocumentsInit, Idle, Mine
  <2>2. local \in [Requests -> Locals]
    BY IdleType DEF Init, DocumentsInit
  <2> QED BY <2>1, <2>2 DEF RequestsOK, RequestOK
<1>4. TemplateOK
  <2>1. template \in {[state |-> "none", published |-> FALSE, size |-> 0],
                     [state |-> "live", published |-> TRUE, size |-> 1]}
    BY DEF Init, TemplatesInit
  <2>2. \A state \in {"none", "live", "deleted"}, published \in BOOLEAN, size \in Nat :
          [state |-> state, published |-> published, size |-> size] \in TemplateRows
    BY DEF TemplateRows
  <2>3. 0 \in Nat /\ 1 \in Nat
    OBVIOUS
  <2>4. template \in TemplateRows
    BY <2>1, <2>2, <2>3, Zenon
  <2> QED BY <2>4 DEF Init, TemplatesInit, TemplateOK
<1>5. RewardsOK
  BY DEF Init, RewardsInit, RewardsOK, MILESTONE_RULES
<1> QED BY <1>1, <1>2, <1>3, <1>4, <1>5 DEF TypeInv

\* Every step.
LEMMA TypeNext == TypeInv /\ [Next]_vars => TypeInv'
<1> SUFFICES ASSUME TypeInv, [Next]_vars
             PROVE  TypeInv'
  OBVIOUS
<1>1. TypeInv <=> CoreOK /\ TemplateOK /\ RewardsOK
  BY DEF TypeInv, CoreOK
<1>2. TypeInv' <=> CoreOK' /\ TemplateOK' /\ RewardsOK'
  BY DEF TypeInv, CoreOK
<1>3. UNCHANGED templateVars => TemplateOK'
  BY <1>1 DEF TemplateOK, templateVars
<1>4. UNCHANGED rewardVars => RewardsOK'
  BY <1>1 DEF RewardsOK, rewardVars
<1>5. ASSUME UNCHANGED <<documentVars, sectionVars, versions, lockVars, local>>
      PROVE  CoreOK'
  <2>1. StoreOK'
    BY <1>1, <1>5, StoreKept DEF CoreOK
  <2>2. \A r \in Requests : Mine(r)' = Mine(r)
    BY <1>5 DEF Mine, lockVars
  <2> QED BY <1>1, <1>5, <2>1, <2>2
        DEF CoreOK, LocksOK, RequestsOK, RequestOK, lockVars, sectionVars
<1>6. ASSUME NEW r \in Requests, DocumentsStep(r), UNCHANGED <<templateVars, rewardVars>>
      PROVE  TypeInv'
  BY <1>1, <1>2, <1>3, <1>4, <1>6, DocumentsStepOK
<1>7. ASSUME NEW r \in Requests, TemplatesStep(r), UNCHANGED rewardVars
      PROVE  TypeInv'
  BY <1>1, <1>2, <1>4, <1>7, TemplatesStepOK
<1>8. ASSUME NEW r \in Requests, Delete(r)
      PROVE  TypeInv'
  <2>1. CoreOK'
    BY <1>1, <1>8, DeleteDocumentOK DEF Delete
  <2>2. RewardsOK'
    BY <1>1, <1>8 DEF Delete, MilestonesCascade, RewardsOK
  <2> QED BY <1>2, <1>3, <1>8, <2>1, <2>2 DEF Delete
<1>9. ASSUME NEW e \in events, RewardsStep(e), UNCHANGED templateVars
      PROVE  TypeInv'
  <2>1. CoreOK'
    BY <1>5, <1>9 DEF RewardsStep
  <2> QED BY <1>1, <1>2, <1>3, <1>9, <2>1, RewardsStepOK
<1>10. ASSUME UNCHANGED vars
       PROVE  TypeInv'
  BY <1>2, <1>3, <1>4, <1>5, <1>10 DEF vars, docsVars
<1> QED BY <1>6, <1>7, <1>8, <1>9, <1>10 DEF Next, Rest

(* Every variable holds what its column or field can, for any number of      *)
(* requests that run at once.                                                 *)
THEOREM WorkspaceTyped == Spec => []TypeOK
<1>1. TypeInv => TypeOK
  BY DEF TypeInv, TypeOK, StoreOK, RowsBelow, LocksOK, RequestsOK, TemplateOK, RewardsOK
<1> QED BY <1>1, TypeInit, TypeNext, PTL DEF Spec

-----------------------------------------------------------------------------
\* What a request does to its own record: which steps lead to the steps that
\* the invariants below speak of.
LEMMA Moves ==
  ASSUME CoreOK, NEW r \in Requests,
         DocumentsStep(r) \/ DeleteDocument(r) \/ TemplatesStep(r)
  PROVE  /\ OthersUnchanged(r)
         /\ local'[r].step = "saveTemplate" => LockTemplate(r)
         /\ local'[r].step \in {"maxVersion", "insertVersion", "duplicate"} =>
              TakeSnapshot(r) \/ ReadMaxVersion(r) \/ InsertVersion(r)
         /\ local'[r].step = "snapshot" => Begin(r)
         /\ local'[r].step = "move" => ListSections(r) \/ MoveRow(r)
         /\ local'[r].step = "append" => LockDocument(r)
         /\ local'[r].step = "clear" => LockDocument(r) \/ ClearRow(r)
         /\ local'[r].step = "lockDocument" => Begin(r) \/ ReadTemplateSections(r)
         /\ local'[r].step = "select" => Begin(r)
         /\ local'[r].step = "insertDocument" => SelectForSave(r)
<1> DEFINE Elsewhere ==
      local'[r].step \notin {"saveTemplate", "maxVersion", "insertVersion", "duplicate",
                             "snapshot", "move", "append", "clear", "lockDocument",
                             "select", "insertDocument"}
<1>1. local \in [Requests -> Locals] /\ local[r] \in Locals
  BY DEF CoreOK, RequestsOK
<1>2. ASSUME End(r, "done") \/ End(r, "failed")
      PROVE  OthersUnchanged(r) /\ Elsewhere
  BY <1>1, <1>2, EndType DEF Ended
<1>3. ASSUME NEW step \in {"reread", "update", "insertDocument"}, Goto(r, step)
      PROVE  OthersUnchanged(r) /\ (Elsewhere \/ local'[r].step = "insertDocument")
  <2>1. step \in Steps
    BY DEF Steps
  <2>2. OthersUnchanged(r) /\ local'[r].step = step
    BY <1>1, <1>3, <2>1, GotoType
  <2> QED BY <2>2
<1>4. CASE CreateDocument(r) \/ RereadSection(r) \/ RemoveSection(r) \/ CommitReorder(r)
           \/ SaveDocument(r) \/ ReinsertDocument(r) \/ DeleteDocument(r) \/ InsertSection(r)
           \/ ReplaceSections(r) \/ DeadlockVictim(r) \/ CreateTemplate(r)
           \/ SaveTemplate(r) \/ RemoveTemplate(r) \/ ApplyToDocument(r)
  <2>1. End(r, "done") \/ End(r, "failed")
    BY <1>4 DEF CreateDocument, RereadSection, RemoveSection, CommitReorder, SaveDocument,
         ReinsertDocument, DeleteDocument, InsertSection, ReplaceSections, DeadlockVictim,
         CreateTemplate, SaveTemplate, RemoveTemplate, ApplyToDocument
  <2> QED BY <1>2, <2>1
<1>5. CASE WriteSection(r) \/ SelectForSave(r)
  <2>1. CASE Goto(r, "reread")
    <3>1. "reread" \in Steps
      BY DEF Steps
    <3>2. local'[r].step = "reread"
      BY <1>1, <2>1, <3>1, GotoType
    <3> QED BY <1>3, <2>1, <3>2
  <2>2. CASE SelectForSave(r)
    <3>1. OthersUnchanged(r) /\ (Elsewhere \/ local'[r].step = "insertDocument")
      BY <1>3, <2>2 DEF SelectForSave
    <3> QED BY <2>2, <3>1
  <2> QED BY <1>5, <2>1, <2>2 DEF WriteSection
<1>6. CASE Begin(r)
  <2>1. PICK x \in Asked : local' = [local EXCEPT ![r] = x]
    BY <1>6 DEF Begin
  <2>2. x \in Locals /\ x.step \in {"maxOrder", "write", "remove", "list", "select",
                                    "lockDocument", "snapshot"}
    BY AskedType DEF CoreOK
  <2>3. OthersUnchanged(r) /\ local'[r] = x
    BY <1>1, <2>1, <2>2, TakeRecord
  <2> QED BY <1>6, <2>2, <2>3
<1>7. CASE BeginTemplate(r)
  BY <1>7, BeginTemplateOK
<1>8. CASE ReadMaxOrder(r)
  <2>1. OthersUnchanged(r) /\ local'[r].step = "insert"
    BY <1>1, <1>8 DEF ReadMaxOrder, OthersUnchanged, Locals
  <2> QED BY <2>1
<1>9. CASE ReadTemplateSections(r)
  <2>1. CASE document
    <3>1. OthersUnchanged(r) /\ local'[r].step = "lockDocument"
      BY <1>1, <1>9, <2>1 DEF ReadTemplateSections, OthersUnchanged, Locals
    <3> QED BY <1>9, <3>1
  <2>2. CASE ~document
    BY <1>2, <1>9, <2>2 DEF ReadTemplateSections
  <2> QED BY <2>1, <2>2
<1>10. CASE ListSections(r)
  <2>1. CASE End(r, "failed")
    BY <1>2, <2>1
  <2>2. CASE local' = [local EXCEPT ![r].step = "move", ![r].number = 1]
    <3>1. OthersUnchanged(r) /\ local'[r].step = "move"
      BY <1>1, <2>2 DEF OthersUnchanged, Locals
    <3> QED BY <1>10, <3>1
  <2> QED BY <1>10, <2>1, <2>2 DEF ListSections
<1>11. CASE MoveRow(r)
  <2>1. OthersUnchanged(r) /\ local'[r].step = "move"
    BY <1>1, <1>11 DEF MoveRow, OthersUnchanged, Locals, At
  <2> QED BY <1>11, <2>1
<1>12. CASE ClearRow(r)
  <2>1. OthersUnchanged(r) /\ local'[r].step = "clear"
    BY <1>1, <1>12 DEF ClearRow, OthersUnchanged, Locals, At
  <2> QED BY <1>12, <2>1
<1>13. CASE LockDocument(r)
  <2>1. OthersUnchanged(r) /\ local'[r].step \in {"append", "clear"}
    BY <1>1, <1>13 DEF LockDocument, OthersUnchanged, Locals
  <2> QED BY <1>13, <2>1
<1>14. CASE TakeSnapshot(r)
  <2>1. OthersUnchanged(r) /\ local'[r].step = "maxVersion"
    BY <1>1, <1>14 DEF TakeSnapshot, OthersUnchanged, Locals
  <2> QED BY <1>14, <2>1
<1>15. CASE ReadMaxVersion(r)
  <2>1. OthersUnchanged(r) /\ local'[r].step = "insertVersion"
    BY <1>1, <1>15 DEF ReadMaxVersion, OthersUnchanged, Locals
  <2> QED BY <1>15, <2>1
<1>16. CASE InsertVersion(r)
  <2>1. OthersUnchanged(r) /\ local'[r].step \in {"done", "maxVersion", "duplicate"}
    BY <1>16, InsertVersionCases
  <2> QED BY <1>16, <2>1
<1>17. CASE LockTemplate(r)
  <2>1. CASE End(r, "failed")
    BY <1>2, <2>1
  <2>2. CASE Goto(r, "saveTemplate")
    <3>1. OthersUnchanged(r) /\ local'[r].step = "saveTemplate"
      BY <1>1, <2>2 DEF Goto, OthersUnchanged, Locals
    <3> QED BY <1>17, <3>1
  <2> QED BY <1>17, <2>1, <2>2 DEF LockTemplate
<1> HIDE DEF Elsewhere
<1> QED
  BY <1>4, <1>5, <1>6, <1>7, <1>8, <1>9, <1>10, <1>11, <1>12, <1>13, <1>14, <1>15, <1>16,
     <1>17 DEF DocumentsStep, TemplatesStep, Elsewhere
-----------------------------------------------------------------------------
\* Who is about to save a template holds its row; and an author's request holds
\* one that is not published.
EditInv ==
  \A r \in Requests :
    local[r].step = "saveTemplate" =>
      /\ templateLock = r /\ Live
      /\ local[r].kind = "editTemplate" => ~template.published

\* The steps that leave the row of the template as it is.
LEMMA EditKept ==
  ASSUME EditInv, NEW r \in Requests, OthersUnchanged(r), local'[r].step # "saveTemplate",
         template' = template, templateLock' = templateLock
  PROVE  EditInv'
BY DEF EditInv, OthersUnchanged, Live

\* Every step of the template and of the document.
LEMMA EditNext ==
  ASSUME CoreOK, TemplateOK, EditInv, [Next]_vars
  PROVE  EditInv'
<1>1. ASSUME UNCHANGED <<templateVars, local>>
      PROVE  EditInv'
  BY <1>1 DEF EditInv, Live, templateVars
<1>2. ASSUME NEW r \in Requests, DocumentsStep(r) \/ DeleteDocument(r), UNCHANGED templateVars
      PROVE  EditInv'
  <2>1. OthersUnchanged(r) /\ (local'[r].step = "saveTemplate" => LockTemplate(r))
    BY <1>2, Moves
  <2>2. CASE local'[r].step # "saveTemplate"
    BY <1>2, <2>1, <2>2, EditKept DEF templateVars
  <2>3. CASE LockTemplate(r) /\ local'[r].step = "saveTemplate"
    <3>1. Live /\ (local[r].kind = "editTemplate" => ~template.published)
          /\ templateLock' = r /\ Goto(r, "saveTemplate")
      <4>1. ~End(r, "failed")
        <5>1. End(r, "failed") => local'[r].step = "failed"
          BY EndType DEF CoreOK, RequestsOK, Ended
        <5> QED BY <2>3, <5>1
      <4> QED BY <2>3, <4>1 DEF LockTemplate
    <3>2. local'[r].kind = local[r].kind
      BY <3>1 DEF Goto, CoreOK, RequestsOK, Locals
    <3>3. templateLock = Nobody /\ templateLock = r
      BY <1>2, <2>3, <3>1 DEF LockTemplate, templateVars
    <3> QED BY <3>3, DocumentsAssumption
  <2> QED BY <2>1, <2>2, <2>3
<1>3. ASSUME NEW r \in Requests, TemplatesStep(r)
      PROVE  EditInv'
  <2>1. OthersUnchanged(r) /\ (local'[r].step = "saveTemplate" => LockTemplate(r))
    BY <1>3, Moves
  <2>2. CASE BeginTemplate(r) \/ ReadTemplateSections(r) \/ ApplyToDocument(r)
    <3>1. template' = template /\ templateLock' = templateLock
      BY <2>2 DEF BeginTemplate, ReadTemplateSections, ApplyToDocument, templateVars
    <3>2. local'[r].step # "saveTemplate"
      <4>1. BeginTemplate(r) => local'[r].step # "saveTemplate"
        BY BeginTemplateOK
      <4>2. ASSUME ReadTemplateSections(r)
            PROVE  local'[r].step # "saveTemplate"
        <5>1. CASE End(r, "failed")
          BY <5>1, EndType DEF CoreOK, RequestsOK, Ended
        <5>2. CASE ~End(r, "failed")
          BY <4>2, <5>2 DEF ReadTemplateSections, CoreOK, RequestsOK, Locals
        <5> QED BY <5>1, <5>2
      <4>3. ASSUME ApplyToDocument(r)
            PROVE  local'[r].step # "saveTemplate"
        <5>1. End(r, "done") \/ End(r, "failed")
          BY <4>3 DEF ApplyToDocument
        <5> QED BY <5>1, EndType DEF CoreOK, RequestsOK, Ended
      <4> QED BY <2>2, <4>1, <4>2, <4>3
    <3> QED BY <2>1, <3>1, <3>2, EditKept
  <2>3. ASSUME End(r, "done") \/ End(r, "failed")
        PROVE  local'[r].step # "saveTemplate"
    BY <2>3, EndType DEF CoreOK, RequestsOK, Ended
  <2>4. CASE CreateTemplate(r)
    <3>1. \A q \in Requests : local[q].step # "saveTemplate"
      BY <2>4 DEF CreateTemplate, EditInv, Live
    <3>2. \A q \in Requests : local'[q].step # "saveTemplate"
      BY <2>1, <2>3, <2>4, <3>1 DEF CreateTemplate, OthersUnchanged
    <3> QED BY <3>2 DEF EditInv
  <2>5. CASE RemoveTemplate(r)
    <3>1. \A q \in Requests : local[q].step # "saveTemplate"
      BY <2>5, DocumentsAssumption DEF RemoveTemplate, EditInv
    <3>2. \A q \in Requests : local'[q].step # "saveTemplate"
      BY <2>1, <2>3, <2>5, <3>1 DEF RemoveTemplate, OthersUnchanged
    <3> QED BY <3>2 DEF EditInv
  <2>6. CASE SaveTemplate(r)
    <3>1. \A q \in Requests \ {r} : local[q].step # "saveTemplate"
      BY <2>6 DEF SaveTemplate, EditInv, At
    <3>2. \A q \in Requests : local'[q].step # "saveTemplate"
      BY <2>1, <2>3, <2>6, <3>1 DEF SaveTemplate, OthersUnchanged
    <3> QED BY <3>2 DEF EditInv
  <2>7. CASE LockTemplate(r)
    <3>1. \A q \in Requests \ {r} : local'[q].step # "saveTemplate"
      BY <2>1, <2>7, DocumentsAssumption DEF LockTemplate, EditInv, OthersUnchanged
    <3>2. CASE End(r, "failed")
      <4>1. local'[r].step # "saveTemplate"
        BY <2>3, <3>2
      <4> QED BY <3>1, <4>1 DEF EditInv
    <3>3. CASE ~End(r, "failed")
      <4>1. /\ Live /\ (local[r].kind = "editTemplate" => ~template.published)
            /\ templateLock' = r /\ Goto(r, "saveTemplate") /\ template' = template
        BY <2>7, <3>3 DEF LockTemplate
      <4>2. local'[r].kind = local[r].kind
        BY <4>1 DEF Goto, CoreOK, RequestsOK, Locals
      <4> QED BY <3>1, <4>1, <4>2 DEF EditInv, Live
    <3> QED BY <3>2, <3>3
  <2> QED BY <1>3, <2>2, <2>4, <2>5, <2>6, <2>7 DEF TemplatesStep
<1>4. ASSUME NEW e \in events, RewardsStep(e), UNCHANGED templateVars
      PROVE  EditInv'
  BY <1>1, <1>4 DEF RewardsStep
<1>5. ASSUME UNCHANGED vars
      PROVE  EditInv'
  BY <1>1, <1>5 DEF vars, docsVars
<1> QED BY <1>2, <1>3, <1>4, <1>5 DEF Next, Rest, Delete

(* No author's save lands on a published template, however many requests and *)
(* publications run with it: the check is repeated under the row lock, and    *)
(* who would publish waits for that lock (TemplateTypeOrmRepository.update).  *)
THEOREM AuthorsNeverEditPublished == Spec => PublishedNotEdited
<1>1. Init => EditInv
  BY DEF Init, DocumentsInit, Idle, EditInv
<1>2. TypeInv /\ EditInv /\ [Next]_vars => EditInv'
  BY EditNext DEF TypeInv, CoreOK
<1>3. EditInv => \A r \in Requests :
        At(r, "saveTemplate") /\ local[r].kind = "editTemplate" /\ local'[r].step = "done"
          => ~template.published
  BY DEF EditInv, At
<1> QED BY <1>1, <1>2, <1>3, TypeInit, TypeNext, PTL DEF Spec, PublishedNotEdited

-----------------------------------------------------------------------------
\* What a save has seen: as many versions as there were when it began, then a
\* number no less; and one that found its number taken has missed one more.
SaveInv(r) ==
  LET save == local[r]
      count == Cardinality(versions)
  IN /\ save.step = "snapshot" => ~save.retried
     /\ save.step = "maxVersion" => save.seen <= count /\ (save.retried => save.seen < count)
     /\ save.step = "insertVersion" =>
          /\ save.seen <= save.number /\ save.number <= count
          /\ save.retried => save.seen < save.number
     /\ save.step = "duplicate" => count - save.seen >= 2

VersionsInv ==
  /\ {v.number : v \in versions} = 1 .. Cardinality(versions)
  /\ \A r \in Requests : SaveInv(r)

\* Steps that save nothing.
LEMMA SavesKept ==
  ASSUME VersionsInv, NEW r \in Requests, OthersUnchanged(r), versions' = versions,
         SaveInv(r)'
  PROVE  VersionsInv'
<1>1. \A q \in Requests \ {r} : SaveInv(q)'
  BY DEF VersionsInv, SaveInv, OthersUnchanged
<1> QED BY <1>1 DEF VersionsInv

\* The greatest number is that of versions there are.
LEMMA MaxVersionIs ==
  ASSUME StoreOK, VersionsInv
  PROVE  MaxVersion(versions) = Cardinality(versions)
<1> DEFINE n == Cardinality(versions)
<1>1. n \in Nat
  BY FS_CardinalityType DEF StoreOK
<1>2. \A v \in versions : v.number \in 1 .. n
  BY DEF VersionsInv
<1>3. MaxVersion(versions) \in Nat /\ MaxVersion(versions) <= n
  BY <1>1, <1>2, MaxVersionType
<1>4. CASE n = 0
  BY <1>3, <1>4
<1>5. CASE n # 0
  <2>1. n \in {v.number : v \in versions}
    BY <1>1, <1>5 DEF VersionsInv
  <2>2. n <= MaxVersion(versions)
    BY <2>1, MaxVersionType
  <2> QED BY <1>1, <1>3, <2>2
<1> QED BY <1>4, <1>5

\* The insert of a save: a number that is taken has been given to a version since.
LEMMA InsertVersionSaves ==
  ASSUME CoreOK, VersionsInv, NEW r \in Requests, InsertVersion(r)
  PROVE  VersionsInv'
<1> DEFINE number == local[r].number + 1
           n == Cardinality(versions)
           v == [number |-> number, content |-> local[r].content, by |-> r]
<1>1. n \in Nat /\ IsFiniteSet(versions)
  BY FS_CardinalityType DEF CoreOK, StoreOK
<1>2. local[r].step = "insertVersion" /\ OthersUnchanged(r)
  BY InsertVersionCases
<1>3. /\ local[r].seen \in Nat /\ local[r].number \in Int /\ local[r].number >= 0
  BY <1>2 DEF CoreOK, RequestsOK, RequestOK, Locals
<1>4. /\ local[r].seen <= local[r].number /\ local[r].number <= n
      /\ local[r].retried => local[r].seen < local[r].number
  BY <1>2 DEF VersionsInv, SaveInv
<1>5. Taken(number) <=> number \in 1 .. n
  BY DEF Taken, VersionsInv
<1>6. Taken(number) => number <= n
  BY <1>5
<1>7. CASE ~Taken(number)
  <2>1. versions' = versions \cup {v} /\ local'[r].step = "done"
    BY <1>7, InsertVersionCases
  <2>2. number = n + 1
    BY <1>1, <1>3, <1>4, <1>5, <1>7
  <2>3. v \notin versions
    BY <1>7 DEF Taken
  <2>4. Cardinality(versions') = n + 1
    <3> HIDE DEF v
    <3> QED BY <1>1, <2>1, <2>3, FS_AddElement
  <2>5. {u.number : u \in versions'} = {u.number : u \in versions} \cup {number}
    <3>1. v.number = number
      OBVIOUS
    <3> HIDE DEF v, number
    <3> QED BY <2>1, <3>1
  <2>6. {u.number : u \in versions'} = 1 .. n + 1
    <3> HIDE DEF n
    <3> QED BY <1>1, <2>2, <2>5 DEF VersionsInv, n
  <2>7. ASSUME NEW q \in Requests
        PROVE  SaveInv(q)'
    <3>1. CASE q = r
      BY <2>1, <3>1 DEF SaveInv
    <3>2. CASE q # r
      <4>1. local'[q] = local[q] /\ SaveInv(q)
        BY <1>2, <3>2 DEF OthersUnchanged, VersionsInv
      <4>2. local[q].seen \in Nat /\ local[q].number \in Int
        BY DEF CoreOK, RequestsOK, Locals
      <4> HIDE DEF n
      <4> QED BY <1>1, <2>4, <4>1, <4>2 DEF SaveInv, n
    <3> QED BY <3>1, <3>2
  <2> QED BY <2>4, <2>6, <2>7 DEF VersionsInv
<1>8. CASE Taken(number) /\ ~local[r].retried
  <2>1. /\ versions' = versions /\ local'[r].step = "maxVersion"
        /\ local'[r].seen = local[r].seen
    BY <1>8, InsertVersionCases
  <2>2. local[r].seen < n
    BY <1>1, <1>3, <1>4, <1>6, <1>8
  <2>3. SaveInv(r)'
    BY <1>1, <1>3, <2>1, <2>2 DEF SaveInv
  <2> QED BY <1>2, <2>1, <2>3, SavesKept
<1>9. CASE Taken(number) /\ local[r].retried
  <2>1. /\ versions' = versions /\ local'[r].step = "duplicate"
        /\ local'[r].seen = local[r].seen
    BY <1>9, InsertVersionCases
  <2>2. n - local[r].seen >= 2
    BY <1>1, <1>3, <1>4, <1>6, <1>9
  <2>3. SaveInv(r)'
    BY <2>1, <2>2 DEF SaveInv
  <2> QED BY <1>2, <2>1, <2>3, SavesKept
<1>10. local[r].retried \in BOOLEAN /\ Taken(number) \in BOOLEAN
  BY DEF CoreOK, RequestsOK, Locals, Taken
<1> QED BY <1>7, <1>8, <1>9, <1>10

\* Every step.
LEMMA SavesNext ==
  ASSUME CoreOK, VersionsInv, [Next]_vars
  PROVE  VersionsInv'
<1>1. ASSUME UNCHANGED <<versions, local>>
      PROVE  VersionsInv'
  BY <1>1 DEF VersionsInv, SaveInv
<1>2. ASSUME NEW r \in Requests,
             DocumentsStep(r) \/ DeleteDocument(r) \/ TemplatesStep(r), ~InsertVersion(r)
      PROVE  VersionsInv'
  <2>1. versions' = versions
    BY <1>2 DEF DocumentsStep, TemplatesStep, DeleteDocument, CreateDocument, Begin,
         ReadMaxOrder, InsertSection, WriteSection, RereadSection, RemoveSection,
         ListSections, MoveRow, CommitReorder, SelectForSave, SaveDocument,
         ReinsertDocument, LockDocument, ClearRow, ReplaceSections, TakeSnapshot,
         ReadMaxVersion, DeadlockVictim, CreateTemplate, BeginTemplate, LockTemplate,
         SaveTemplate, RemoveTemplate, ReadTemplateSections, ApplyToDocument
  <2>2. /\ OthersUnchanged(r)
        /\ local'[r].step \in {"maxVersion", "insertVersion", "duplicate"} =>
             TakeSnapshot(r) \/ ReadMaxVersion(r)
        /\ local'[r].step = "snapshot" => Begin(r)
    BY <1>2, Moves
  <2>3. local[r] \in Locals /\ local \in [Requests -> Locals]
        /\ Cardinality(versions) \in Nat
    BY FS_CardinalityType DEF CoreOK, RequestsOK, StoreOK
  <2>4. CASE TakeSnapshot(r)
    <3>1. /\ local[r].step = "snapshot" /\ local'[r].step = "maxVersion"
          /\ local'[r].seen = Cardinality(versions) /\ local'[r].retried = local[r].retried
      BY <2>3, <2>4 DEF TakeSnapshot, At, Locals
    <3>2. ~local[r].retried
      BY <3>1 DEF VersionsInv, SaveInv
    <3>3. SaveInv(r)'
      BY <2>1, <2>3, <3>1, <3>2 DEF SaveInv
    <3> QED BY <2>1, <2>2, <3>3, SavesKept
  <2>5. CASE ReadMaxVersion(r)
    <3>1. /\ local[r].step = "maxVersion" /\ local'[r].step = "insertVersion"
          /\ local'[r].number = Cardinality(versions)
          /\ local'[r].seen = local[r].seen /\ local'[r].retried = local[r].retried
      BY <2>3, <2>5, MaxVersionIs DEF ReadMaxVersion, At, Locals, CoreOK
    <3>2. SaveInv(r)'
      BY <2>1, <2>3, <3>1 DEF SaveInv, VersionsInv
    <3> QED BY <2>1, <2>2, <3>2, SavesKept
  <2>6. CASE local'[r].step = "snapshot"
    <3>1. PICK x \in Asked : local' = [local EXCEPT ![r] = x]
      BY <2>2, <2>6 DEF Begin
    <3>2. ~local'[r].retried
      BY <2>3, <3>1, AskedType DEF CoreOK
    <3>3. SaveInv(r)'
      BY <2>6, <3>2 DEF SaveInv
    <3> QED BY <2>1, <2>2, <3>3, SavesKept
  <2>7. CASE local'[r].step \notin {"snapshot", "maxVersion", "insertVersion", "duplicate"}
    <3>1. SaveInv(r)'
      BY <2>7 DEF SaveInv
    <3> QED BY <2>1, <2>2, <3>1, SavesKept
  <2> QED BY <2>2, <2>4, <2>5, <2>6, <2>7
<1>3. ASSUME NEW r \in Requests, InsertVersion(r)
      PROVE  VersionsInv'
  BY <1>3, InsertVersionSaves
<1>4. ASSUME NEW e \in events, RewardsStep(e)
      PROVE  VersionsInv'
  BY <1>1, <1>4 DEF RewardsStep
<1>5. ASSUME UNCHANGED vars
      PROVE  VersionsInv'
  BY <1>1, <1>5 DEF vars, docsVars
<1> QED BY <1>2, <1>3, <1>4, <1>5 DEF Next, Rest, Delete

\* At the start.
LEMMA SavesInit == Init => VersionsInv
<1> SUFFICES ASSUME Init
             PROVE  VersionsInv
  OBVIOUS
<1>1. CASE versions = {}
  <2>1. Cardinality(versions) = 0
    BY <1>1, FS_EmptySet
  <2>2. {v.number : v \in versions} = {} /\ 1 .. 0 = {}
    BY <1>1
  <2>3. {v.number : v \in versions} = 1 .. Cardinality(versions)
    BY <2>1, <2>2
  <2>4. \A r \in Requests : SaveInv(r)
    BY DEF Init, DocumentsInit, Idle, SaveInv
  <2> QED BY <2>3, <2>4 DEF VersionsInv
<1>2. CASE versions = {[number |-> 1, content |-> Blank(1, -1), by |-> Nobody]}
  <2>1. Cardinality(versions) = 1
    BY <1>2, FS_Singleton
  <2>2. {v.number : v \in versions} = {1} /\ 1 .. 1 = {1}
    BY <1>2
  <2>3. {v.number : v \in versions} = 1 .. Cardinality(versions)
    BY <2>1, <2>2
  <2>4. \A r \in Requests : SaveInv(r)
    BY DEF Init, DocumentsInit, Idle, SaveInv
  <2> QED BY <2>3, <2>4 DEF VersionsInv
<1> QED BY <1>1, <1>2 DEF Init, DocumentsInit

(* Whatever saves run together, the versions are numbered without a gap, and  *)
(* a save fails only if two others landed while it ran (createWithRetry and   *)
(* the unique index).                                                         *)
THEOREM VersionsAlwaysNumbered == Spec => []VersionsNumbered
<1>1. TypeInv /\ VersionsInv /\ [Next]_vars => VersionsInv'
  BY SavesNext DEF TypeInv, CoreOK
<1>2. VersionsInv /\ TypeOK => VersionsNumbered
  BY DEF VersionsInv, SaveInv, VersionsNumbered, At
<1> QED BY <1>1, <1>2, SavesInit, TypeInit, TypeNext, WorkspaceTyped, PTL DEF Spec

-----------------------------------------------------------------------------
(* The rewards: XP counted once for each award. *)

Types == {rule.type : rule \in MILESTONE_RULES}

\* Every rule has a milestone of its own, of its worth.
LEMMA Worths ==
  /\ Types = {"document_created", "first_section", "section_goal"}
  /\ \A rule \in MILESTONE_RULES : rule.xp \in Nat /\ rule.type \in Types
                                   /\ Worth(rule.type) = rule.xp
  /\ \A type \in Types : Worth(type) \in Nat
<1>1. \A rule, other \in MILESTONE_RULES : rule.type = other.type => rule = other
  BY DEF MILESTONE_RULES
<1>2. \A rule \in MILESTONE_RULES : Worth(rule.type) = rule.xp
  BY <1>1 DEF Worth
<1>3. \A rule \in MILESTONE_RULES : rule.xp \in Nat
  BY DEF MILESTONE_RULES
<1>4. Types = {"document_created", "first_section", "section_goal"}
  BY DEF MILESTONE_RULES, Types
<1> QED BY <1>2, <1>3, <1>4 DEF Types

\* A milestone that is not there yet adds what it is worth.
LEMMA XpAdds ==
  ASSUME NEW types \in SUBSET Types
  PROVE  /\ XpOf(types) \in Nat
         /\ \A type \in Types \ types : XpOf(types \cup {type}) = XpOf(types) + Worth(type)
BY Worths DEF XpOf

\* No milestone is worth nothing.
LEMMA XpOfNone == XpOf({}) = 0
BY DEF XpOf

RewardInv ==
  /\ retired \in Nat
  /\ user.xp = XpOf(milestones) + retired + (IF mission.completed THEN MissionXp ELSE 0)
  /\ user.level = user.xp \div XP_PER_LEVEL + 1
  /\ mission.progress <= MissionTarget
  /\ ~mission.completed => mission.progress < MissionTarget

\* Every step.
LEMMA RewardsNext ==
  ASSUME RewardsOK, RewardInv, [Next]_vars
  PROVE  RewardInv'
<1>1. ASSUME UNCHANGED rewardVars
      PROVE  RewardInv'
  BY <1>1 DEF RewardInv, rewardVars
<1>2. /\ milestones \in SUBSET Types /\ XpOf(milestones) \in Nat
      /\ user.xp \in Nat /\ user.level \in Nat
      /\ mission \in [progress : Nat, completed : BOOLEAN]
      /\ MissionXp \in Nat /\ MissionTarget \in Nat \ {0}
  BY XpAdds, MissionAssumption DEF RewardsOK, Types
<1>3. ASSUME NEW r \in Requests, Delete(r)
      PROVE  RewardInv'
  <2>1. CASE document'
    BY <1>1, <1>3, <2>1 DEF Delete, MilestonesCascade, rewardVars
  <2>2. CASE ~document'
    <3>1. /\ milestones' = {} /\ retired' = retired + XpOf(milestones)
          /\ UNCHANGED <<user, mission>>
      BY <1>3, <2>2 DEF Delete, MilestonesCascade
    <3>2. XpOf(milestones') = 0
      BY <3>1, XpOfNone
    <3> QED BY <1>2, <3>1, <3>2 DEF RewardInv
  <2> QED BY <2>1, <2>2
<1>4. ASSUME NEW e \in events, ApplyMilestoneRules(e)
      PROVE  RewardInv'
  <2>1. CASE UNCHANGED <<milestones, user>>
    BY <1>1, <1>4, <2>1 DEF ApplyMilestoneRules, rewardVars
  <2>2. CASE \E rule \in Matching(e) : AwardOnce(rule) /\ rule.type \notin milestones
    <3>1. PICK rule \in MILESTONE_RULES : AwardOnce(rule) /\ rule.type \notin milestones
      BY <2>2 DEF Matching
    <3>2. /\ milestones' = milestones \cup {rule.type} /\ user' = Credited(rule.xp)
          /\ UNCHANGED <<mission, retired>>
      BY <1>4, <3>1 DEF AwardOnce, ApplyMilestoneRules
    <3>3. rule.xp \in Nat /\ rule.type \in Types /\ Worth(rule.type) = rule.xp
      BY Worths
    <3>4. XpOf(milestones') = XpOf(milestones) + rule.xp
      BY <1>2, <3>1, <3>2, <3>3, XpAdds
    <3>5. user'.xp = user.xp + rule.xp /\ user'.level = user'.xp \div XP_PER_LEVEL + 1
      BY <3>2 DEF Credited
    <3> QED BY <1>2, <3>2, <3>3, <3>4, <3>5 DEF RewardInv
  <2> QED BY <1>4, <2>1, <2>2 DEF ApplyMilestoneRules, AwardOnce
<1>5. ASSUME NEW e \in events, ApplyMissionProgress(e)
      PROVE  RewardInv'
  <2>1. CASE UNCHANGED <<mission, user>>
    BY <1>1, <1>5, <2>1 DEF ApplyMissionProgress, rewardVars
  <2>2. CASE IncrementAtomic /\ ~mission.completed
    <3> DEFINE progress == mission.progress + 1
    <3>1. /\ mission' = [progress |-> progress, completed |-> progress >= MissionTarget]
          /\ user' = IF progress >= MissionTarget THEN Credited(MissionXp) ELSE user
          /\ UNCHANGED <<milestones, retired>>
      BY <1>5, <2>2 DEF IncrementAtomic, ApplyMissionProgress
    <3>2. progress \in Nat /\ progress <= MissionTarget
      BY <1>2, <2>2 DEF RewardInv
    <3>3. mission'.progress = progress /\ mission'.completed = (progress >= MissionTarget)
      BY <3>1
    <3> HIDE DEF progress
    <3>4. CASE progress >= MissionTarget
      <4>1. /\ user'.xp = user.xp + MissionXp
            /\ user'.level = user'.xp \div XP_PER_LEVEL + 1
        BY <3>1, <3>4 DEF Credited
      <4>2. mission'.completed /\ mission'.progress <= MissionTarget
        BY <3>2, <3>3, <3>4
      <4>3. user.xp = XpOf(milestones) + retired /\ retired \in Nat
        <5>1. user.xp = XpOf(milestones) + retired
                          + (IF mission.completed THEN MissionXp ELSE 0)
              /\ retired \in Nat
          BY DEF RewardInv
        <5>2. user.xp = XpOf(milestones) + retired + 0
          BY <2>2, <5>1
        <5> QED BY <1>2, <5>1, <5>2
      <4>4. XpOf(milestones') = XpOf(milestones) /\ retired' = retired
        BY <3>1
      <4>5. user'.xp = XpOf(milestones') + retired' + MissionXp
        BY <1>2, <4>1, <4>3, <4>4
      <4>6. user'.xp = XpOf(milestones')
                         + retired' + (IF mission'.completed THEN MissionXp ELSE 0)
        BY <4>2, <4>5
      <4>7. retired' \in Nat
        BY <4>3, <4>4
      <4> QED BY <4>1, <4>2, <4>6, <4>7 DEF RewardInv
    <3>5. CASE ~(progress >= MissionTarget)
      BY <1>2, <2>2, <3>1, <3>2, <3>3, <3>5 DEF RewardInv
    <3> QED BY <3>4, <3>5
  <2> QED BY <1>5, <2>1, <2>2 DEF ApplyMissionProgress, IncrementAtomic
<1>6. ASSUME NEW r \in Requests, DocumentsStep(r) \/ TemplatesStep(r), UNCHANGED rewardVars
      PROVE  RewardInv'
  BY <1>1, <1>6
<1>7. ASSUME UNCHANGED vars
      PROVE  RewardInv'
  BY <1>1, <1>7 DEF vars
<1> QED BY <1>3, <1>4, <1>5, <1>6, <1>7 DEF Next, Rest, RewardsStep

\* At the start.
LEMMA RewardsStart == Init => RewardInv
<1> SUFFICES ASSUME Init
             PROVE  RewardInv
  OBVIOUS
<1>1. /\ retired = 0 /\ mission = [progress |-> 0, completed |-> FALSE]
      /\ user = [xp |-> IF created THEN 50 ELSE 0, level |-> 1]
      /\ milestones = IF created THEN {"document_created"} ELSE {}
  BY DEF Init, RewardsInit
<1>2. Worth("document_created") = 50
  <2>1. [event |-> "document.created", type |-> "document_created", xp |-> 50]
          \in MILESTONE_RULES
    BY DEF MILESTONE_RULES
  <2> QED BY <2>1, Worths
<1>3. XpOf({"document_created"}) = 50 /\ XpOf({}) = 0
  BY <1>2, XpOfNone DEF XpOf
<1>4. XpOf(milestones) = user.xp
  BY <1>1, <1>3
<1>5. user.level = user.xp \div XP_PER_LEVEL + 1
  BY <1>1 DEF XP_PER_LEVEL
<1>6. user.xp \in Nat
  BY <1>1
<1>7. mission.progress = 0 /\ ~mission.completed /\ retired = 0
  BY <1>1
<1> QED BY <1>4, <1>5, <1>6, <1>7, MissionAssumption DEF RewardInv

(* The owner's XP is that of the milestones ever recorded and of the          *)
(* completed mission, each counted once, whatever is repeated, handled at     *)
(* once or deleted (awardOnce, incrementAtomic, the cascade).                 *)
THEOREM AwardsPaidOnce == Spec => []XpMatchesAwards
<1>1. TypeInv /\ RewardInv /\ [Next]_vars => RewardInv'
  BY RewardsNext DEF TypeInv
<1>2. RewardInv => XpMatchesAwards
  BY DEF RewardInv, XpMatchesAwards
<1> QED BY <1>1, <1>2, RewardsStart, TypeInit, TypeNext, PTL DEF Spec

-----------------------------------------------------------------------------
(* What every step leaves of the rows and of the locks of others.             *)

\* Rows that stay keep their order and who gave it, and new ones are numbered on.
RowsKept ==
  /\ next' \in Nat \ {0} /\ next' >= next
  /\ \A s \in DOMAIN rows' : s \in DOMAIN rows \/ s >= next
  /\ \A s \in DOMAIN rows \cap DOMAIN rows' :
       rows'[s].order = rows[s].order /\ rows'[s].placed = rows[s].placed

\* What an insert after a deletion of `ids' leaves.
InsertedAre(ids, contents, placed) ==
  /\ DOMAIN rows' = (DOMAIN rows \ ids) \cup next .. next + Len(contents) - 1
  /\ \A s \in DOMAIN rows \ ids : rows'[s] = rows[s]
  /\ \A s \in next .. next + Len(contents) - 1 :
       rows'[s] = [order |-> contents[s - next + 1].order,
                   words |-> contents[s - next + 1].words, placed |-> placed]

\* An insert leaves the rows that stay.
LEMMA InsertedKeeps ==
  ASSUME StoreOK, NEW ids, NEW contents \in Seq(Contents), NEW placed,
         rows' = Inserted(Deleted(rows, ids), next, contents, placed),
         next' = next + Len(contents)
  PROVE  RowsKept /\ InsertedAre(ids, contents, placed)
<1> DEFINE kept == Deleted(rows, ids)
<1>1. next \in Nat \ {0} /\ Len(contents) \in Nat /\ DOMAIN rows \subseteq 1 .. next - 1
  BY DEF StoreOK, RowsBelow
<1>2. DOMAIN kept = DOMAIN rows \ ids /\ \A s \in DOMAIN kept : kept[s] = rows[s]
  BY DEF Deleted, Restrict
<1> HIDE DEF kept
<1>3. DOMAIN rows' = DOMAIN kept \cup next .. next + Len(contents) - 1
  BY DEF Inserted, kept
<1>4. \A s \in DOMAIN kept : rows'[s] = kept[s]
  BY <1>3 DEF Inserted, kept
<1>5. ASSUME NEW s \in next .. next + Len(contents) - 1
      PROVE  /\ s \notin DOMAIN rows
             /\ rows'[s] = [order |-> contents[s - next + 1].order,
                            words |-> contents[s - next + 1].words, placed |-> placed]
  <2>1. s \notin DOMAIN rows
    BY <1>1
  <2>2. s \notin DOMAIN kept
    BY <1>2, <2>1
  <2> QED BY <1>3, <2>1, <2>2 DEF Inserted, kept
<1>6. next' \in Nat \ {0} /\ next' >= next
  BY <1>1
<1>7. \A s \in DOMAIN rows' : s \in DOMAIN rows \/ s >= next
  BY <1>1, <1>2, <1>3
<1>8. \A s \in DOMAIN rows \cap DOMAIN rows' : rows'[s] = rows[s]
  BY <1>2, <1>3, <1>4, <1>5
<1> QED BY <1>2, <1>3, <1>4, <1>5, <1>6, <1>7, <1>8 DEF RowsKept, InsertedAre

\* An insert alone is one after a deletion of nothing.
LEMMA NothingDeleted ==
  ASSUME StoreOK, NEW contents, NEW placed
  PROVE  Inserted(rows, next, contents, placed)
           = Inserted(Deleted(rows, {}), next, contents, placed)
<1>1. /\ DOMAIN Deleted(rows, {}) = DOMAIN rows
      /\ \A s \in DOMAIN rows : Deleted(rows, {})[s] = rows[s]
  BY DEF Deleted, Restrict
<1> QED BY <1>1 DEF Inserted

\* The insert of a section.
LEMMA InsertSectionKeeps ==
  ASSUME CoreOK, NEW r \in Requests, InsertSection(r), document
  PROVE  /\ RowsKept
         /\ \A s \in DOMAIN rows' \ DOMAIN rows : rows'[s].placed = "created"
<1> DEFINE contents == <<[order |-> local[r].number + 1, words |-> local[r].words]>>
<1>1. /\ local[r].step = "insert" /\ local[r].number \in Int /\ local[r].number >= -1
      /\ local[r].words \in Words
  BY DEF InsertSection, At, CoreOK, RequestsOK, RequestOK, Locals
<1>2. contents \in Seq(Contents) /\ Len(contents) = 1
  BY <1>1 DEF Contents
<1>3. /\ rows' = Inserted(Deleted(rows, {}), next, contents, "created")
      /\ next' = next + Len(contents)
  BY <1>2, NothingDeleted DEF InsertSection, CoreOK
<1>4. StoreOK
  BY DEF CoreOK
<1> HIDE DEF contents
<1>5. RowsKept /\ InsertedAre({}, contents, "created")
  BY <1>2, <1>3, <1>4, InsertedKeeps
<1>6. ASSUME NEW s \in DOMAIN rows' \ DOMAIN rows
      PROVE  rows'[s].placed = "created"
  <2>1. s \in next .. next + Len(contents) - 1
    BY <1>5 DEF InsertedAre
  <2>2. rows'[s] = [order |-> contents[s - next + 1].order,
                    words |-> contents[s - next + 1].words, placed |-> "created"]
    BY <1>5, <2>1 DEF InsertedAre
  <2> QED BY <2>2
<1> QED BY <1>5, <1>6

\* The inserts of a restore.
LEMMA ReplaceSectionsKeeps ==
  ASSUME CoreOK, NEW r \in Requests, ReplaceSections(r), document
  PROVE  /\ RowsKept
         /\ \A s \in DOMAIN rows' \ DOMAIN rows : rows'[s].placed = "restored"
<1>1. local[r].content \in Seq(Contents)
  BY DEF CoreOK, RequestsOK, Locals
<1>2. /\ rows' = Inserted(Deleted(rows, Mine(r)), next, local[r].content, "restored")
      /\ next' = next + Len(local[r].content)
  BY DEF ReplaceSections
<1>3. StoreOK
  BY DEF CoreOK
<1>4. RowsKept /\ InsertedAre(Mine(r), local[r].content, "restored")
  BY <1>1, <1>2, <1>3, InsertedKeeps
<1>5. ASSUME NEW s \in DOMAIN rows' \ DOMAIN rows
      PROVE  rows'[s].placed = "restored"
  <2>1. s \in next .. next + Len(local[r].content) - 1
    BY <1>4 DEF InsertedAre
  <2>2. rows'[s] = [order |-> local[r].content[s - next + 1].order,
                    words |-> local[r].content[s - next + 1].words, placed |-> "restored"]
    BY <1>4, <2>1 DEF InsertedAre
  <2> QED BY <2>2
<1> QED BY <1>4, <1>5

\* The inserts of an application.
LEMMA ApplyKeeps ==
  ASSUME CoreOK, NEW r \in Requests, ApplyToDocument(r), document /\ Live
  PROVE  /\ RowsKept
         /\ DOMAIN rows' = DOMAIN rows \cup next .. next + local[r].size - 1
         /\ \A s \in DOMAIN rows : rows'[s] = rows[s]
         /\ \A s \in next .. next + local[r].size - 1 :
              rows'[s].order = local[r].number + (s - next + 1)
<1> DEFINE contents == Blank(local[r].size, local[r].number)
<1>1. /\ local[r].step = "append" /\ local[r].number \in Int /\ local[r].number >= -1
      /\ local[r].size \in Nat
  BY DEF ApplyToDocument, At, CoreOK, RequestsOK, RequestOK, Locals
<1>2. contents \in Seq(Contents) /\ Len(contents) = local[r].size
  BY <1>1, BlankType
<1>3. /\ rows' = Inserted(Deleted(rows, {}), next, contents, "applied")
      /\ next' = next + Len(contents)
  BY <1>2, NothingDeleted DEF ApplyToDocument, CoreOK
<1>4. \A i \in 1 .. local[r].size : contents[i].order = local[r].number + i
  BY DEF Blank
<1> HIDE DEF contents
<1>5. RowsKept /\ InsertedAre({}, contents, "applied")
  <2>1. StoreOK
    BY DEF CoreOK
  <2> QED BY <1>2, <1>3, <2>1, InsertedKeeps
<1>6. next \in Nat /\ DOMAIN rows \subseteq 1 .. next - 1
  BY DEF CoreOK, StoreOK, RowsBelow
<1>7. \A s \in next .. next + local[r].size - 1 : s - next + 1 \in 1 .. local[r].size
  BY <1>1, <1>6
<1>8. /\ DOMAIN rows' = DOMAIN rows \cup next .. next + local[r].size - 1
      /\ \A s \in DOMAIN rows : rows'[s] = rows[s]
      /\ \A s \in next .. next + local[r].size - 1 :
           rows'[s].order = contents[s - next + 1].order
  <2>1. DOMAIN rows' = DOMAIN rows \cup next .. next + local[r].size - 1
    BY <1>2, <1>5 DEF InsertedAre
  <2>2. \A s \in DOMAIN rows : rows'[s] = rows[s]
    BY <1>5 DEF InsertedAre
  <2>3. ASSUME NEW s \in next .. next + local[r].size - 1
        PROVE  rows'[s].order = contents[s - next + 1].order
    <3>1. rows'[s] = [order |-> contents[s - next + 1].order,
                      words |-> contents[s - next + 1].words, placed |-> "applied"]
      BY <1>2, <1>5 DEF InsertedAre
    <3> QED BY <3>1
  <2> QED BY <2>1, <2>2, <2>3
<1> QED BY <1>4, <1>5, <1>7, <1>8

\* Every step but the COMMIT of a reorder leaves the rows that stay in place; and
\* only an application appends rows as applied.
LEMMA StepKeepsRows ==
  ASSUME CoreOK, NEW r \in Requests,
         DocumentsStep(r) \/ DeleteDocument(r) \/ TemplatesStep(r), ~CommitReorder(r)
  PROVE  /\ RowsKept /\ lastOrder' = lastOrder
         /\ \A s \in DOMAIN rows' \ DOMAIN rows :
              ApplyToDocument(r) \/ rows'[s].placed \in {"created", "restored"}
<1>1. next \in Nat \ {0} /\ \A s \in DOMAIN rows : rows[s] \in Rows
  BY DEF CoreOK, StoreOK, RowsBelow
<1>2. ASSUME UNCHANGED <<rows, next>>
      PROVE  RowsKept /\ DOMAIN rows' \ DOMAIN rows = {}
  BY <1>1, <1>2 DEF RowsKept
<1>3. ASSUME NEW ids, rows' = Deleted(rows, ids), next' = next
      PROVE  RowsKept /\ DOMAIN rows' \ DOMAIN rows = {}
  BY <1>1, <1>3 DEF RowsKept, Deleted, Restrict
<1>4. lastOrder' = lastOrder
  BY DEF DocumentsStep, TemplatesStep, DeleteDocument, CreateDocument, Begin,
         ReadMaxOrder, InsertSection, WriteSection, RereadSection, RemoveSection,
         ListSections, MoveRow, SelectForSave, SaveDocument, InsertVersion,
         ReinsertDocument, LockDocument, ClearRow, ReplaceSections, TakeSnapshot,
         ReadMaxVersion, DeadlockVictim, CreateTemplate, BeginTemplate, LockTemplate,
         SaveTemplate, RemoveTemplate, ReadTemplateSections, ApplyToDocument, sectionVars
<1>5. CASE UNCHANGED <<rows, next>>
  BY <1>2, <1>4, <1>5
<1>6. CASE RemoveSection(r) \/ DeleteDocument(r)
  BY <1>3, <1>4, <1>6 DEF RemoveSection, DeleteDocument
<1>7. CASE InsertSection(r)
  BY <1>4, <1>5, <1>7, InsertSectionKeeps DEF InsertSection
<1>8. CASE ReplaceSections(r)
  BY <1>4, <1>5, <1>8, ReplaceSectionsKeeps DEF ReplaceSections
<1>9. CASE ApplyToDocument(r)
  BY <1>4, <1>5, <1>9, ApplyKeeps DEF ApplyToDocument
<1>10. CASE WriteSection(r)
  <2> DEFINE s == local[r].section
  <2>1. next' = next /\ (rows' = rows \/ (s \in DOMAIN rows
                           /\ rows' = [rows EXCEPT ![s].words = local[r].words]))
    BY <1>10 DEF WriteSection
  <2> HIDE DEF s
  <2>2. CASE s \in DOMAIN rows /\ rows' = [rows EXCEPT ![s].words = local[r].words]
    <3>1. DOMAIN rows' = DOMAIN rows
      BY <2>2
    <3>2. \A t \in DOMAIN rows : rows'[t].order = rows[t].order
                                 /\ rows'[t].placed = rows[t].placed
      BY <1>1, <2>2 DEF Rows
    <3> QED BY <1>1, <1>4, <2>1, <3>1, <3>2 DEF RowsKept
  <2> QED BY <1>5, <2>1, <2>2
<1>11. CASE \/ CreateDocument(r) \/ Begin(r) \/ ReadMaxOrder(r) \/ RereadSection(r)
            \/ ListSections(r) \/ MoveRow(r) \/ SelectForSave(r) \/ SaveDocument(r)
            \/ ReinsertDocument(r) \/ LockDocument(r) \/ ClearRow(r) \/ TakeSnapshot(r)
            \/ ReadMaxVersion(r) \/ InsertVersion(r) \/ DeadlockVictim(r)
            \/ CreateTemplate(r) \/ BeginTemplate(r) \/ LockTemplate(r) \/ SaveTemplate(r)
            \/ RemoveTemplate(r) \/ ReadTemplateSections(r)
  <2>1. UNCHANGED <<rows, next>>
    BY <1>11 DEF CreateDocument, Begin, ReadMaxOrder, RereadSection, ListSections, MoveRow,
         SelectForSave, SaveDocument, ReinsertDocument, LockDocument, ClearRow, TakeSnapshot,
         ReadMaxVersion, InsertVersion, DeadlockVictim, CreateTemplate, BeginTemplate,
         LockTemplate, SaveTemplate, RemoveTemplate, ReadTemplateSections, sectionVars
  <2> QED BY <1>5, <2>1
<1> QED BY <1>6, <1>7, <1>8, <1>9, <1>10, <1>11 DEF DocumentsStep, TemplatesStep

\* A request gains and loses its own row locks, and nobody else's.
LEMMA StepKeepsLocks ==
  ASSUME NEW r \in Requests, DocumentsStep(r) \/ DeleteDocument(r) \/ TemplatesStep(r)
  PROVE  \A q \in Requests \ {r} : Mine(q)' = Mine(q)
<1>1. ASSUME UNCHANGED rowLocks
      PROVE  \A q \in Requests \ {r} : Mine(q)' = Mine(q)
  BY <1>1 DEF Mine
<1>2. ASSUME Release(r)
      PROVE  \A q \in Requests \ {r} : Mine(q)' = Mine(q)
  BY <1>2 DEF Mine, Release
<1>3. ASSUME NEW s, rowLocks' = rowLocks \cup Locking(r, s)
      PROVE  \A q \in Requests \ {r} : Mine(q)' = Mine(q)
  BY <1>3, LockingFacts
<1>4. CASE MoveRow(r) \/ ClearRow(r)
  BY <1>3, <1>4 DEF MoveRow, ClearRow
<1>5. CASE CommitReorder(r) \/ DeleteDocument(r) \/ ReplaceSections(r) \/ DeadlockVictim(r)
           \/ ApplyToDocument(r)
  BY <1>2, <1>5 DEF CommitReorder, DeleteDocument, ReplaceSections, DeadlockVictim,
     ApplyToDocument
<1>6. CASE ~(MoveRow(r) \/ ClearRow(r) \/ CommitReorder(r) \/ DeleteDocument(r)
             \/ ReplaceSections(r) \/ DeadlockVictim(r) \/ ApplyToDocument(r))
  <2>1. UNCHANGED rowLocks
    BY <1>6 DEF DocumentsStep, TemplatesStep, CreateDocument, Begin, ReadMaxOrder,
         InsertSection, WriteSection, RereadSection, RemoveSection, ListSections,
         SelectForSave, SaveDocument, ReinsertDocument, LockDocument, TakeSnapshot,
         ReadMaxVersion, InsertVersion, CreateTemplate, BeginTemplate, LockTemplate,
         SaveTemplate, RemoveTemplate, ReadTemplateSections, lockVars
  <2> QED BY <1>1, <2>1
<1> QED BY <1>4, <1>5, <1>6

-----------------------------------------------------------------------------
(* Reorders.                                                                  *)

\* A list of rows that have been numbered, each once.
Listed(order, n) ==
  /\ \A i, j \in 1 .. Len(order) : order[i] = order[j] => i = j
  /\ \A i \in 1 .. Len(order) : order[i] < n

\* The rows a reorder has come to are locked by it, if they are still there.
MovingInv(r) ==
  local[r].step = "move" =>
    /\ Listed(local[r].order, next)
    /\ \A k \in 1 .. Len(local[r].order) :
         /\ k < local[r].number
         /\ local[r].order[k] \in DOMAIN rows
         => local[r].order[k] \in Mine(r)

\* The rows that the last reorder placed are where it put them.
PlacedInv ==
  /\ Listed(lastOrder, next)
  /\ \A i \in 1 .. Len(lastOrder) :
       lastOrder[i] \in DOMAIN rows => rows[lastOrder[i]].order = i - 1

ReorderInv == PlacedInv /\ \A r \in Requests : MovingInv(r)

\* A list that is exactly the set of the ids names each once.
LEMMA ExactList ==
  ASSUME StoreOK, NEW order \in Seq(Nat), IsListingOf(order, rows)
  PROVE  Listed(order, next)
<1> DEFINE D == DOMAIN rows
           Places == 1 .. Len(order)
<1>1. IsFiniteSet(Places) /\ Cardinality(Places) = Len(order) /\ Len(order) \in Nat
  <2>1. Len(order) \in Nat
    OBVIOUS
  <2>2. IsFiniteSet(1 .. Len(order))
        /\ Cardinality(1 .. Len(order)) = IF 1 > Len(order) THEN 0 ELSE Len(order) - 1 + 1
    BY <2>1, FS_Interval
  <2> QED BY <2>1, <2>2
<1>2. order \in Surjection(Places, D)
  <2>1. DOMAIN order = Places /\ order = [i \in Places |-> order[i]]
    OBVIOUS
  <2>2. ToSet(order) = {order[i] : i \in Places}
    BY <2>1, Zenon DEF ToSet
  <2>3. D = {order[i] : i \in Places}
    BY <2>2 DEF IsListingOf
  <2> HIDE DEF D, Places
  <2>4. order \in [Places -> D]
    BY <2>1, <2>3
  <2> QED BY <2>3, <2>4 DEF Surjection
<1>3. Cardinality(Places) = Cardinality(D)
  BY <1>1 DEF IsListingOf
<1>4. order \in Injection(Places, D)
  BY <1>1, <1>2, <1>3, FS_SurjSameCardinalityImpliesInj
<1>5. \A i, j \in Places : order[i] = order[j] => i = j
  BY <1>4 DEF Injection, IsInjective
<1>6. \A i \in Places : order[i] \in D
  BY <1>4 DEF Injection
<1>7. \A s \in D : s < next
  BY DEF StoreOK, RowsBelow
<1> QED BY <1>5, <1>6, <1>7 DEF Listed

\* The requests that others' steps find moving go on as they did.
LEMMA OthersMoving ==
  ASSUME CoreOK, ReorderInv, NEW r \in Requests, OthersUnchanged(r),
         next' \in Nat, next' >= next, \A s \in DOMAIN rows' : s \in DOMAIN rows \/ s >= next,
         \A q \in Requests \ {r} : Mine(q)' = Mine(q)
  PROVE  \A q \in Requests \ {r} : MovingInv(q)'
<1> SUFFICES ASSUME NEW q \in Requests \ {r}, local[q].step = "move"
             PROVE  MovingInv(q)'
  BY DEF MovingInv, OthersUnchanged
<1> DEFINE order == local[q].order
<1>1. local'[q] = local[q] /\ MovingInv(q) /\ Mine(q)' = Mine(q)
  BY DEF OthersUnchanged, ReorderInv
<1>2. order \in Seq(Nat) /\ local[q].number \in Int /\ next \in Nat
  BY DEF CoreOK, RequestsOK, StoreOK, Locals
<1>3. Listed(order, next) /\ \A k \in 1 .. Len(order) :
                          k < local[q].number /\ order[k] \in DOMAIN rows => order[k] \in Mine(q)
  BY <1>1 DEF MovingInv
<1>4. local'[q].order = order /\ local'[q].number = local[q].number
  BY <1>1
<1> HIDE DEF order
<1>5. \A k \in 1 .. Len(order) : order[k] \in Nat /\ order[k] < next
  BY <1>2, <1>3 DEF Listed
<1>6. \A k \in 1 .. Len(order) : order[k] \in DOMAIN rows' => order[k] \in DOMAIN rows
  BY <1>2, <1>5
<1>7. Listed(order, next')
  BY <1>2, <1>3, <1>5 DEF Listed
<1>8. \A k \in 1 .. Len(order) :
        k < local[q].number /\ order[k] \in DOMAIN rows' => order[k] \in Mine(q)'
  BY <1>1, <1>3, <1>6
<1> QED BY <1>4, <1>7, <1>8 DEF MovingInv

\* What leaves the rows that stay in place.
LEMMA PlacedKept ==
  ASSUME StoreOK, PlacedInv, RowsKept, lastOrder' = lastOrder
  PROVE  PlacedInv'
<1>1. lastOrder \in Seq(Nat) /\ next \in Nat
  BY DEF StoreOK
<1>2. \A i \in 1 .. Len(lastOrder) : lastOrder[i] \in Nat /\ lastOrder[i] < next
  BY <1>1 DEF PlacedInv, Listed
<1>3. \A i \in 1 .. Len(lastOrder) :
        lastOrder[i] \in DOMAIN rows' => lastOrder[i] \in DOMAIN rows \cap DOMAIN rows'
  BY <1>1, <1>2 DEF RowsKept
<1>4. \A i \in 1 .. Len(lastOrder) :
        lastOrder[i] \in DOMAIN rows' => rows'[lastOrder[i]].order = i - 1
  BY <1>3 DEF RowsKept, PlacedInv
<1>5. Listed(lastOrder', next')
  BY <1>1, <1>2 DEF Listed, PlacedInv, RowsKept
<1> QED BY <1>4, <1>5 DEF PlacedInv

\* The COMMIT: every row of the list that is still there is locked, and moves.
LEMMA CommitPlaces ==
  ASSUME CoreOK, ReorderInv, NEW r \in Requests, CommitReorder(r)
  PROVE  ReorderInv'
<1> DEFINE order == local[r].order
<1>1. /\ local[r].step = "move" /\ local[r].number > Len(order)
      /\ rows' = Moved(rows, order, Mine(r)) /\ lastOrder' = order /\ next' = next
      /\ End(r, "done") /\ Release(r)
  BY DEF CommitReorder, At
<1>2. order \in Seq(Nat) /\ next \in Nat /\ local[r].number \in Int
  BY DEF CoreOK, RequestsOK, StoreOK, Locals
<1>3. Listed(order, next) /\ \A k \in 1 .. Len(order) :
                          k < local[r].number /\ order[k] \in DOMAIN rows => order[k] \in Mine(r)
  BY <1>1 DEF ReorderInv, MovingInv
<1>4. DOMAIN rows' = DOMAIN rows
  BY <1>1 DEF Moved
<1>5. \A s \in DOMAIN rows : rows[s] \in Rows
  BY DEF CoreOK, StoreOK, RowsBelow
<1> HIDE DEF order
<1>6. ASSUME NEW i \in 1 .. Len(order), order[i] \in DOMAIN rows
      PROVE  rows'[order[i]].order = i - 1
  <2> DEFINE s == order[i]
             Index == CHOOSE k \in 0 .. Len(order) - 1 : order[k + 1] = s
  <2>1. s \in Mine(r)
    BY <1>1, <1>2, <1>3, <1>6
  <2>2. rows'[s] = [rows[s] EXCEPT !.order = Index, !.placed = "moved"]
    BY <1>1, <1>6, <2>1 DEF Moved
  <2>3. i - 1 \in 0 .. Len(order) - 1 /\ order[(i - 1) + 1] = s
    BY <1>2
  <2>4. Index \in 0 .. Len(order) - 1 /\ order[Index + 1] = s
    BY <2>3
  <2>5. \A k \in 0 .. Len(order) - 1 : order[k + 1] = s => k = i - 1
    <3>1. ASSUME NEW k \in 0 .. Len(order) - 1, order[k + 1] = s
          PROVE  k = i - 1
      <4>1. k + 1 \in 1 .. Len(order)
        BY <1>2
      <4>2. k + 1 = i
        BY <1>3, <3>1, <4>1 DEF Listed
      <4> QED BY <4>2
    <3> QED BY <3>1
  <2> HIDE DEF Index
  <2>6. Index = i - 1
    BY <2>4, <2>5
  <2>7. rows'[s].order = Index
    BY <1>5, <1>6, <2>2 DEF Rows
  <2> QED BY <2>6, <2>7
<1>7. PlacedInv'
  BY <1>1, <1>3, <1>4, <1>6 DEF PlacedInv, Listed
<1>8. OthersUnchanged(r) /\ local'[r].step = "done"
  BY <1>1, EndType DEF CoreOK, RequestsOK, Ended
<1>9. \A q \in Requests \ {r} : Mine(q)' = Mine(q)
  BY <1>1 DEF Release, Mine
<1>10. \A q \in Requests \ {r} : MovingInv(q)'
  BY <1>1, <1>2, <1>4, <1>8, <1>9, OthersMoving
<1>11. MovingInv(r)'
  BY <1>8 DEF MovingInv
<1> QED BY <1>7, <1>10, <1>11 DEF ReorderInv

\* One UPDATE: the row is locked, unless it is gone.
LEMMA MoveRowMoving ==
  ASSUME CoreOK, NEW r \in Requests, MovingInv(r), MoveRow(r)
  PROVE  MovingInv(r)'
<1> DEFINE order == local[r].order
           i == local[r].number
<1>1. /\ local[r].step = "move" /\ i <= Len(order) /\ UNCHANGED <<rows, next>>
      /\ rowLocks' = rowLocks \cup Locking(r, order[i])
  BY DEF MoveRow, At, sectionVars
<1>2. order \in Seq(Nat) /\ i \in Int /\ i >= 1
  BY <1>1 DEF CoreOK, RequestsOK, RequestOK, Locals
<1>3. Listed(order, next) /\ \A k \in 1 .. Len(order) :
                          k < i /\ order[k] \in DOMAIN rows => order[k] \in Mine(r)
  BY <1>1 DEF MovingInv
<1>4. /\ Mine(r) \subseteq Mine(r)'
      /\ order[i] \in DOMAIN rows => order[i] \in Mine(r)'
  BY <1>1, LockingFacts
<1>5. local'[r].order = order /\ local'[r].number = i + 1
  BY <1>2 DEF MoveRow, CoreOK, RequestsOK, Locals
<1> HIDE DEF order, i
<1>6. \A k \in 1 .. Len(order) :
        k < i + 1 /\ order[k] \in DOMAIN rows' => order[k] \in Mine(r)'
  <2> SUFFICES ASSUME NEW k \in 1 .. Len(order), k < i + 1, order[k] \in DOMAIN rows'
               PROVE  order[k] \in Mine(r)'
    OBVIOUS
  <2>1. k < i \/ k = i
    BY <1>2
  <2> QED BY <1>1, <1>3, <1>4, <2>1
<1>7. Listed(order, next')
  BY <1>1, <1>3 DEF Listed
<1> QED BY <1>5, <1>6, <1>7 DEF MovingInv

\* The check: no row has been come to yet.
LEMMA ListSectionsMoving ==
  ASSUME CoreOK, NEW r \in Requests, ListSections(r)
  PROVE  MovingInv(r)'
<1>1. UNCHANGED <<rows, next>> /\ local[r] \in Locals /\ local \in [Requests -> Locals]
  BY DEF ListSections, sectionVars, CoreOK, RequestsOK
<1>2. CASE End(r, "failed")
  <2>1. local'[r].step = "failed"
    BY <1>1, <1>2, EndType DEF Ended
  <2> QED BY <2>1 DEF MovingInv
<1>3. CASE /\ IsListingOf(local[r].order, rows)
           /\ local' = [local EXCEPT ![r].step = "move", ![r].number = 1]
  <2>1. local'[r].order = local[r].order /\ local[r].order \in Seq(Nat)
    BY <1>1, <1>3 DEF Locals
  <2>2. local'[r].number = 1
    BY <1>1, <1>3, FirstMoveType
  <2>3. Listed(local[r].order, next)
    BY <1>3, <2>1, ExactList DEF CoreOK
  <2>4. Listed(local[r].order, next')
    BY <1>1, <2>1, <2>3 DEF Listed
  <2>5. \A k \in 1 .. Len(local[r].order) : ~(k < 1)
    OBVIOUS
  <2> QED BY <2>1, <2>2, <2>3, <2>5, <1>1 DEF MovingInv, Listed
<1> QED BY <1>2, <1>3 DEF ListSections

\* Every step.
LEMMA ReorderNext ==
  ASSUME CoreOK, ReorderInv, [Next]_vars
  PROVE  ReorderInv'
<1>1. ASSUME UNCHANGED <<sectionVars, rowLocks, local>>
      PROVE  ReorderInv'
  BY <1>1 DEF ReorderInv, PlacedInv, MovingInv, Listed, Mine, sectionVars
<1>2. ASSUME NEW r \in Requests,
             DocumentsStep(r) \/ DeleteDocument(r) \/ TemplatesStep(r)
      PROVE  ReorderInv'
  <2>1. CASE CommitReorder(r)
    BY <2>1, CommitPlaces
  <2>2. CASE ~CommitReorder(r)
    <3>1. RowsKept /\ lastOrder' = lastOrder
      BY <1>2, <2>2, StepKeepsRows
    <3>2. PlacedInv'
      BY <3>1, PlacedKept DEF CoreOK, ReorderInv
    <3>3. \A q \in Requests \ {r} : Mine(q)' = Mine(q)
      BY <1>2, StepKeepsLocks
    <3>4. OthersUnchanged(r) /\ (local'[r].step = "move" => ListSections(r) \/ MoveRow(r))
      BY <1>2, Moves
    <3>5. \A q \in Requests \ {r} : MovingInv(q)'
      BY <3>1, <3>3, <3>4, OthersMoving DEF RowsKept
    <3>6. MovingInv(r)'
      <4>1. CASE local'[r].step # "move"
        BY <4>1 DEF MovingInv
      <4>2. CASE ListSections(r)
        BY <4>2, ListSectionsMoving
      <4>3. CASE MoveRow(r)
        BY <4>3, MoveRowMoving DEF ReorderInv
      <4> QED BY <3>4, <4>1, <4>2, <4>3
    <3> QED BY <3>2, <3>5, <3>6 DEF ReorderInv
  <2> QED BY <2>1, <2>2
<1>3. ASSUME NEW e \in events, RewardsStep(e)
      PROVE  ReorderInv'
  BY <1>1, <1>3 DEF RewardsStep, lockVars
<1>4. ASSUME UNCHANGED vars
      PROVE  ReorderInv'
  BY <1>1, <1>4 DEF vars, docsVars, lockVars
<1> QED BY <1>2, <1>3, <1>4 DEF Next, Rest, Delete

\* At the start.
LEMMA ReorderInit == Init => ReorderInv
BY DEF Init, DocumentsInit, ReorderInv, PlacedInv, MovingInv, Listed, Idle

(* Whatever reorders, edits and deletions run together, of two sections that  *)
(* a reorder placed the one it put first is first (the transaction of         *)
(* reorder, and the check that its list is exactly the set of the ids).       *)
THEOREM ReordersTakeEffect == Spec => []ReorderTakesEffect
<1>1. TypeInv /\ ReorderInv /\ [Next]_vars => ReorderInv'
  BY ReorderNext DEF TypeInv, CoreOK
<1>2. TypeInv /\ ReorderInv => ReorderTakesEffect
  <2> SUFFICES ASSUME TypeInv, ReorderInv, NEW i \in DOMAIN lastOrder,
                      NEW j \in DOMAIN lastOrder, i < j,
                      lastOrder[i] \in DOMAIN rows, lastOrder[j] \in DOMAIN rows
               PROVE  rows[lastOrder[i]].order < rows[lastOrder[j]].order
    BY DEF ReorderTakesEffect
  <2>1. i \in 1 .. Len(lastOrder) /\ j \in 1 .. Len(lastOrder)
    BY DEF TypeInv, StoreOK
  <2>2. rows[lastOrder[i]].order = i - 1 /\ rows[lastOrder[j]].order = j - 1
    BY <2>1 DEF ReorderInv, PlacedInv
  <2> QED BY <2>1, <2>2
<1> QED BY <1>1, <1>2, ReorderInit, TypeInit, TypeNext, PTL DEF Spec

-----------------------------------------------------------------------------
(* The lock on the document row.                                              *)

\* Steps that only a request of a document that has been there comes to.
Reached == {"select", "insertDocument", "lockDocument", "append", "clear"}

\* Unless a deleted document has come back, who should hold its row and does not
\* found none, and there is none.
GrantInv ==
  /\ document => created
  /\ \A r \in Requests : local[r].step \in Reached => created
  /\ ~revived => \A r \in Requests :
       local[r].step \in {"append", "clear"} /\ docLock # r => ~document

\* What every step does to the document row and to the lock on it.
LEMMA DocumentStep ==
  ASSUME NEW r \in Requests, DocumentsStep(r) \/ DeleteDocument(r) \/ TemplatesStep(r)
  PROVE  /\ created => created'
         /\ revived => revived'
         /\ document' => created' \/ document \/ ReinsertDocument(r)
         /\ ~document /\ document' =>
              (CreateDocument(r) /\ ~created) \/ revived'
         /\ \A q \in Requests \ {r} : docLock = q <=> docLock' = q
<1>0. docLock' = docLock => \A q \in Requests \ {r} : docLock = q <=> docLock' = q
  OBVIOUS
<1>1. CASE CreateDocument(r) \/ ReinsertDocument(r)
  <2>1. CASE CreateDocument(r)
    <3>1. ~created /\ created' /\ revived' = revived /\ docLock' = docLock
      BY <2>1, Zenon DEF CreateDocument, lockVars
    <3> QED BY <1>0, <2>1, <3>1
  <2>2. CASE ReinsertDocument(r)
    <3>1. created' = created /\ revived' = (revived \/ ~document) /\ docLock' = docLock
      BY <2>2, Zenon DEF ReinsertDocument, lockVars
    <3> QED BY <1>0, <2>2, <3>1
  <2> QED BY <1>1, <2>1, <2>2
<1>2. CASE DeleteDocument(r)
  BY <1>2, DocumentsAssumption DEF DeleteDocument, Release
<1>3. CASE \/ CommitReorder(r) \/ ReplaceSections(r) \/ ApplyToDocument(r) \/ DeadlockVictim(r)
  BY <1>3, DocumentsAssumption DEF CommitReorder, ReplaceSections, ApplyToDocument,
     DeadlockVictim, Release, documentVars
<1>4. CASE LockDocument(r)
  BY <1>4, DocumentsAssumption DEF LockDocument, documentVars
<1>5. CASE ~(\/ CreateDocument(r) \/ ReinsertDocument(r) \/ DeleteDocument(r)
             \/ CommitReorder(r) \/ ReplaceSections(r) \/ ApplyToDocument(r)
             \/ DeadlockVictim(r) \/ LockDocument(r))
  <2>1. UNCHANGED <<document, created, revived, docLock>>
    BY <1>5 DEF DocumentsStep, TemplatesStep, Begin, ReadMaxOrder, InsertSection, WriteSection,
         RereadSection, RemoveSection, ListSections, MoveRow, SelectForSave, SaveDocument,
         ClearRow, TakeSnapshot, ReadMaxVersion, InsertVersion, CreateTemplate, BeginTemplate,
         LockTemplate, SaveTemplate, RemoveTemplate, ReadTemplateSections,
         lockVars, documentVars
  <2> QED BY <2>1
<1> QED BY <1>1, <1>2, <1>3, <1>4, <1>5

\* Every step.
LEMMA GrantNext ==
  ASSUME CoreOK, GrantInv, [Next]_vars
  PROVE  GrantInv'
<1>1. ASSUME UNCHANGED <<documentVars, lockVars, local>>
      PROVE  GrantInv'
  BY <1>1 DEF GrantInv, documentVars, lockVars
<1>2. ASSUME NEW r \in Requests,
             DocumentsStep(r) \/ DeleteDocument(r) \/ TemplatesStep(r)
      PROVE  GrantInv'
  <2>1. /\ created => created'
        /\ revived => revived'
        /\ document' => created' \/ document \/ ReinsertDocument(r)
        /\ ~document /\ document' => (CreateDocument(r) /\ ~created) \/ revived'
        /\ \A q \in Requests \ {r} : docLock = q <=> docLock' = q
    BY <1>2, DocumentStep
  <2>2. ReinsertDocument(r) => created
    BY DEF ReinsertDocument, At, GrantInv, Reached
  <2>3. document' => created'
    BY <2>1, <2>2 DEF GrantInv
  <2>4. /\ OthersUnchanged(r)
        /\ local'[r].step = "append" => LockDocument(r)
        /\ local'[r].step = "clear" => LockDocument(r) \/ ClearRow(r)
        /\ local'[r].step = "lockDocument" => Begin(r) \/ ReadTemplateSections(r)
        /\ local'[r].step = "select" => Begin(r)
        /\ local'[r].step = "insertDocument" => SelectForSave(r)
    BY <1>2, Moves
  <2>5. local'[r].step \in Reached => created
    <3>1. Begin(r) => document
      BY DEF Begin
    <3>2. ReadTemplateSections(r) => document \/ local'[r].step = "failed"
      BY EndType DEF ReadTemplateSections, CoreOK, RequestsOK, Ended
    <3>3. SelectForSave(r) => local[r].step = "select"
      BY DEF SelectForSave, At
    <3>4. LockDocument(r) => local[r].step = "lockDocument"
      BY DEF LockDocument, At
    <3>5. ClearRow(r) => local[r].step = "clear"
      BY DEF ClearRow, At
    <3> QED BY <2>4, <3>1, <3>2, <3>3, <3>4, <3>5 DEF GrantInv, Reached
  <2>6. \A q \in Requests : local'[q].step \in Reached => created'
    BY <2>1, <2>4, <2>5 DEF OthersUnchanged, GrantInv
  <2>7. ASSUME ~revived', NEW q \in Requests, local'[q].step \in {"append", "clear"},
               docLock' # q
        PROVE  ~document'
    <3>1. CASE q # r
      <4>1. local[q].step \in {"append", "clear"} /\ docLock # q
        BY <2>1, <2>4, <2>7, <3>1 DEF OthersUnchanged
      <4>2. ~document /\ created
        BY <2>1, <2>7, <4>1 DEF GrantInv, Reached
      <4> QED BY <2>1, <2>7, <4>2
    <3>2. CASE q = r /\ LockDocument(r)
      BY <2>7, <3>2 DEF LockDocument, documentVars
    <3>3. CASE q = r /\ ClearRow(r)
      <4>1. local[r].step = "clear" /\ docLock # r
        BY <2>7, <3>3 DEF ClearRow, At
      <4>2. ~document
        BY <2>1, <2>7, <4>1 DEF GrantInv
      <4> QED BY <3>3, <4>2 DEF ClearRow, documentVars
    <3> QED BY <2>4, <2>7, <3>1, <3>2, <3>3
  <2> QED BY <2>3, <2>6, <2>7 DEF GrantInv
<1>3. ASSUME NEW e \in events, RewardsStep(e)
      PROVE  GrantInv'
  BY <1>1, <1>3 DEF RewardsStep
<1>4. ASSUME UNCHANGED vars
      PROVE  GrantInv'
  BY <1>1, <1>4 DEF vars, docsVars
<1> QED BY <1>2, <1>3, <1>4 DEF Next, Rest, Delete

\* At the start.
LEMMA GrantStart == Init => GrantInv
BY DEF Init, DocumentsInit, GrantInv, Idle, Reached
-----------------------------------------------------------------------------
\* The maximum that an application read is still the greatest order of the
\* sections appended, for whoever would append more waits.
AppliedInv ==
  /\ \A r \in Requests : local[r].step = "append" /\ docLock = r =>
       \A s \in DOMAIN rows : rows[s].placed = "applied" => rows[s].order <= local[r].number
  /\ AppliesDoNotClash

\* The sections that were appended, and stay so, were where they are.
LEMMA AppliedWere ==
  ASSUME CoreOK, NEW r \in Requests, ~ApplyToDocument(r),
         DocumentsStep(r) \/ DeleteDocument(r) \/ TemplatesStep(r),
         NEW s \in DOMAIN rows', rows'[s].placed = "applied"
  PROVE  s \in DOMAIN rows /\ rows[s].placed = "applied" /\ rows'[s].order = rows[s].order
<1>1. CASE CommitReorder(r)
  <2>1. rows' = Moved(rows, local[r].order, Mine(r))
    BY <1>1 DEF CommitReorder
  <2>2. s \in DOMAIN rows /\ rows[s] \in Rows
    BY <2>1 DEF Moved, CoreOK, StoreOK, RowsBelow
  <2>3. CASE s \in Mine(r)
    <3>1. PICK i : rows'[s] = [rows[s] EXCEPT !.order = i, !.placed = "moved"]
      BY <2>1, <2>2, <2>3 DEF Moved
    <3>2. rows'[s].placed = "moved"
      BY <2>2, <3>1 DEF Rows
    <3> QED BY <3>2
  <2>4. CASE s \notin Mine(r)
    BY <2>1, <2>2, <2>4 DEF Moved
  <2> QED BY <2>3, <2>4
<1>2. CASE ~CommitReorder(r)
  <2>1. RowsKept /\ \A t \in DOMAIN rows' \ DOMAIN rows :
                      rows'[t].placed \in {"created", "restored"}
    BY <1>2, StepKeepsRows
  <2>2. s \in DOMAIN rows
    BY <2>1
  <2> QED BY <2>1, <2>2 DEF RowsKept
<1> QED BY <1>1, <1>2

\* An application that appends holds the document row: what it appends comes
\* after all the others.
LEMMA ApplyAppends ==
  ASSUME CoreOK, GrantInv, AppliedInv, NEW r \in Requests, ApplyToDocument(r), ~revived
  PROVE  AppliesDoNotClash'
<1>1. CASE ~(document /\ Live)
  BY <1>1 DEF ApplyToDocument, AppliedInv, AppliesDoNotClash, documentVars
<1>2. CASE document /\ Live
  <2>1. /\ DOMAIN rows' = DOMAIN rows \cup next .. next + local[r].size - 1
        /\ \A s \in DOMAIN rows : rows'[s] = rows[s]
        /\ \A s \in next .. next + local[r].size - 1 :
              rows'[s].order = local[r].number + (s - next + 1)
    BY <1>2, ApplyKeeps
  <2>2. local[r].step = "append" /\ docLock = r
    BY <1>2 DEF ApplyToDocument, At, GrantInv
  <2>3. \A s \in DOMAIN rows : rows[s].placed = "applied" => rows[s].order <= local[r].number
    BY <2>2 DEF AppliedInv
  <2>4. next \in Nat /\ local[r].number \in Int /\ local[r].size \in Nat
        /\ \A s \in DOMAIN rows : rows[s].order \in Nat
    BY RowsFinite DEF CoreOK, StoreOK, RequestsOK, Locals
  <2> DEFINE n == next
             new == n .. n + local[r].size - 1
             last == local[r].number
  <2>5. \A s \in new : rows'[s].order \in Int /\ rows'[s].order > last
    BY <2>1, <2>4
  <2>6. \A s, t \in new : s # t => rows'[s].order # rows'[t].order
    BY <2>1, <2>4
  <2>7. \A s, t \in DOMAIN rows :
          s # t /\ rows[s].placed = "applied" /\ rows[t].placed = "applied"
            => rows[s].order # rows[t].order
    BY DEF AppliedInv, AppliesDoNotClash
  <2>8. \A s \in DOMAIN rows : rows'[s].placed = "applied" =>
          rows'[s].order \in Nat /\ rows'[s].order <= last
    BY <2>1, <2>3, <2>4
  <2>9. \A s \in DOMAIN rows, t \in new :
          rows'[s].placed = "applied" => rows'[s].order # rows'[t].order
    <3> HIDE DEF new, last
    <3> QED BY <2>4, <2>5, <2>8 DEF last
  <2>10. \A s, t \in DOMAIN rows :
          s # t /\ rows'[s].placed = "applied" /\ rows'[t].placed = "applied"
            => rows'[s].order # rows'[t].order
    BY <2>1, <2>7
  <2>11. DOMAIN rows' = DOMAIN rows \cup new
    BY <2>1
  <2> HIDE DEF new, last, n
  <2> QED BY <2>6, <2>9, <2>10, <2>11 DEF AppliesDoNotClash
<1> QED BY <1>1, <1>2

\* Every step.
LEMMA AppliedNext ==
  ASSUME CoreOK, GrantInv, AppliedInv, [Next]_vars
  PROVE  AppliedInv'
<1>1. ASSUME UNCHANGED <<documentVars, sectionVars, lockVars, local>>
      PROVE  AppliedInv'
  BY <1>1 DEF AppliedInv, AppliesDoNotClash, documentVars, sectionVars, lockVars
<1>2. ASSUME NEW r \in Requests,
             DocumentsStep(r) \/ DeleteDocument(r) \/ TemplatesStep(r)
      PROVE  AppliedInv'
  <2>1. /\ revived => revived'
        /\ \A q \in Requests \ {r} : docLock = q <=> docLock' = q
    BY <1>2, DocumentStep
  <2>2. OthersUnchanged(r) /\ (local'[r].step = "append" => LockDocument(r))
    BY <1>2, Moves
  <2>3. AppliesDoNotClash'
    <3>1. CASE ApplyToDocument(r) /\ ~revived
      BY <3>1, ApplyAppends
    <3>2. CASE ~ApplyToDocument(r)
      <4> SUFFICES ASSUME ~revived', NEW s \in DOMAIN rows', NEW t \in DOMAIN rows', s # t,
                          rows'[s].placed = "applied", rows'[t].placed = "applied"
                   PROVE  rows'[s].order # rows'[t].order
        BY DEF AppliesDoNotClash
      <4>1. /\ s \in DOMAIN rows /\ rows[s].placed = "applied" /\ rows'[s].order = rows[s].order
            /\ t \in DOMAIN rows /\ rows[t].placed = "applied" /\ rows'[t].order = rows[t].order
        BY <1>2, <3>2, AppliedWere
      <4> QED BY <2>1, <4>1 DEF AppliedInv, AppliesDoNotClash
    <3>3. CASE revived
      BY <2>1, <3>3 DEF AppliesDoNotClash
    <3> QED BY <3>1, <3>2, <3>3
  <2>4. ASSUME NEW q \in Requests, local'[q].step = "append", docLock' = q,
               NEW s \in DOMAIN rows', rows'[s].placed = "applied"
        PROVE  rows'[s].order <= local'[q].number
    <3>1. CASE q # r
      <4>1. local'[q] = local[q] /\ docLock = q
        BY <2>1, <2>2, <2>4, <3>1 DEF OthersUnchanged
      <4>2. CASE ~ApplyToDocument(r)
        <5>1. s \in DOMAIN rows /\ rows[s].placed = "applied" /\ rows'[s].order = rows[s].order
          BY <1>2, <2>4, <4>2, AppliedWere
        <5> QED BY <2>4, <4>1, <5>1 DEF AppliedInv
      <4>3. CASE ApplyToDocument(r)
        BY <3>1, <4>1, <4>3, DocumentsAssumption DEF ApplyToDocument, DocumentFree
      <4> QED BY <4>2, <4>3
    <3>2. CASE q = r
      <4>1. LockDocument(r) /\ local'[r].step = "append"
        BY <2>2, <2>4, <3>2
      <4>2. rows' = rows /\ local \in [Requests -> Locals] /\ local[r] \in Locals
        BY <4>1 DEF LockDocument, sectionVars, CoreOK, RequestsOK
      <4>3. local'[r].number = MaxOrder(rows)
        <5>1. local[r].kind = "apply"
          BY <4>1, <4>2 DEF LockDocument, Locals
        <5> QED BY <4>1, <4>2, <5>1 DEF LockDocument, Locals
      <4> QED BY <3>2, <4>2, <4>3, RowsFinite, MaxOrderFacts DEF CoreOK
    <3> QED BY <3>1, <3>2
  <2> QED BY <2>3, <2>4 DEF AppliedInv
<1>3. ASSUME NEW e \in events, RewardsStep(e)
      PROVE  AppliedInv'
  BY <1>1, <1>3 DEF RewardsStep
<1>4. ASSUME UNCHANGED vars
      PROVE  AppliedInv'
  BY <1>1, <1>4 DEF vars, docsVars
<1> QED BY <1>2, <1>3, <1>4 DEF Next, Rest, Delete

\* At the start.
LEMMA AppliedInit == Init => AppliedInv
<1> SUFFICES ASSUME Init
             PROVE  AppliedInv
  OBVIOUS
<1>1. \A r \in Requests : local[r].step = "idle"
  BY DEF Init, DocumentsInit, Idle
<1>2. \A s \in DOMAIN rows : rows[s].placed = "created"
  <2>1. CASE rows = <<>>
    BY <2>1
  <2>2. CASE rows = [s \in 1 .. OldSections |->
                       [order |-> s - 1, words |-> "brief", placed |-> "created"]]
    BY <2>2
  <2> QED BY <2>1, <2>2 DEF Init, DocumentsInit
<1> QED BY <1>1, <1>2 DEF AppliedInv, AppliesDoNotClash

(* Applications that run at once append after each other: no two sections     *)
(* that they append share an order, unless a deleted document came back       *)
(* (applyToDocument reads the maximum with the document row locked).          *)
THEOREM AppliesKeptApart == Spec => []AppliesDoNotClash
<1>1. TypeInv /\ GrantInv /\ AppliedInv /\ [Next]_vars => GrantInv' /\ AppliedInv'
  BY GrantNext, AppliedNext DEF TypeInv, CoreOK
<1>2. AppliedInv => AppliesDoNotClash
  BY DEF AppliedInv
<1> QED BY <1>1, <1>2, GrantStart, AppliedInit, TypeInit, TypeNext, PTL DEF Spec

-----------------------------------------------------------------------------
(* Restores.                                                                  *)

\* The contents of a version are in the order of their sections.
Sorted(content) ==
  \A i, j \in 1 .. Len(content) : i < j => content[i].order <= content[j].order

\* Sections inserted one after the other, in order, are listed as inserted.
LEMMA SnapshotOfRestored ==
  ASSUME NEW n \in Nat, NEW content \in Seq(Contents), Sorted(content), NEW rs,
         DOMAIN rs = n .. n + Len(content) - 1,
         \A s \in n .. n + Len(content) - 1 :
           rs[s] = [order |-> content[s - n + 1].order,
                    words |-> content[s - n + 1].words, placed |-> "restored"]
  PROVE  \E age \in Ages(rs) : Snapshot(rs, age) = content
<1> DEFINE age == [s \in Tied(rs) |-> s]
           N == Len(content)
           D == DOMAIN rs
           Row(i) == n + i - 1
           Upto(i) == {t \in D : Precedes(rs, age, t, Row(i))}
<1>0. age \in Ages(rs) /\ \A s \in Tied(rs) : age[s] = s
  BY DEF Ages, Injection, IsInjective
<1> HIDE DEF age
<1>1. N \in Nat /\ \A i \in 1 .. N : content[i] \in Contents
  OBVIOUS
<1>2. Cardinality(D) = N
  <2>1. n \in Int /\ n + N - 1 \in Int
    BY <1>1
  <2>2. Cardinality(n .. n + N - 1) = IF n > n + N - 1 THEN 0 ELSE n + N - 1 - n + 1
    BY <2>1, FS_Interval
  <2>3. D = n .. n + N - 1
    OBVIOUS
  <2> HIDE DEF D, N
  <2>4. (IF n > n + N - 1 THEN 0 ELSE n + N - 1 - n + 1) = N
    BY <1>1
  <2> QED BY <2>2, <2>3, <2>4
<1>3. \A i \in 1 .. N : Row(i) \in D /\ Row(i) - n + 1 = i
  BY <1>1
<1>4. \A i \in 1 .. N : /\ rs[Row(i)].order = content[i].order
                        /\ rs[Row(i)].words = content[i].words
  <2> SUFFICES ASSUME NEW i \in 1 .. N
               PROVE  /\ rs[Row(i)].order = content[i].order
                      /\ rs[Row(i)].words = content[i].words
    OBVIOUS
  <2>1. Row(i) \in n .. n + Len(content) - 1 /\ Row(i) - n + 1 = i
    BY <1>3
  <2> HIDE DEF Row
  <2>2. rs[Row(i)] = [order |-> content[i].order, words |-> content[i].words,
                      placed |-> "restored"]
    BY <2>1
  <2> QED BY <2>2
<1>5. \A t \in D : t - n + 1 \in 1 .. N /\ t = Row(t - n + 1)
  BY <1>1
<1>6. \A i, j \in 1 .. N : Precedes(rs, age, Row(i), Row(j)) <=> i < j
  <2> SUFFICES ASSUME NEW i \in 1 .. N, NEW j \in 1 .. N
               PROVE  Precedes(rs, age, Row(i), Row(j)) <=> i < j
    OBVIOUS
  <2>1. content[i].order \in Nat /\ content[j].order \in Nat
    BY <1>1 DEF Contents
  <2>2. /\ i < j => content[i].order <= content[j].order
        /\ j < i => content[j].order <= content[i].order
    BY DEF Sorted
  <2>3. /\ rs[Row(i)].order = content[i].order /\ rs[Row(j)].order = content[j].order
        /\ Row(i) < Row(j) <=> i < j
        /\ Row(i) # Row(j) <=> i # j
        /\ Row(i) \in D /\ Row(j) \in D
    BY <1>1, <1>3, <1>4
  <2> HIDE DEF Row
  <2>6. rs[Row(i)].order = rs[Row(j)].order /\ Row(i) # Row(j) =>
          age[Row(i)] = Row(i) /\ age[Row(j)] = Row(j)
    BY <1>0, <2>3 DEF Tied
  <2>5. i \in Int /\ j \in Int
    OBVIOUS
  <2>4. Precedes(rs, age, Row(i), Row(j)) <=>
          \/ content[i].order < content[j].order
          \/ content[i].order = content[j].order /\ i < j
    BY <2>3, <2>5, <2>6 DEF Precedes

  <2> QED BY <2>1, <2>2, <2>4, <2>5
<1>7. \A i \in 1 .. N : Cardinality(Upto(i)) = i - 1
  <2> SUFFICES ASSUME NEW i \in 1 .. N
               PROVE  Cardinality(Upto(i)) = i - 1
    OBVIOUS
  <2>1. \A t \in D : Precedes(rs, age, t, Row(i)) <=> t - n + 1 < i
    <3> SUFFICES ASSUME NEW t \in D
                 PROVE  Precedes(rs, age, t, Row(i)) <=> t - n + 1 < i
      OBVIOUS
    <3>1. PICK k : k = t - n + 1
      OBVIOUS
    <3>2. k \in 1 .. N /\ t = Row(k)
      BY <1>5, <3>1
    <3>3. Precedes(rs, age, Row(k), Row(i)) <=> k < i
      BY <1>6, <3>2
    <3> QED BY <3>1, <3>2, <3>3
  <2>2. D = n .. n + N - 1
    OBVIOUS
  <2>3. Upto(i) = n .. n + i - 2
    <3>1. \A t \in n .. n + N - 1 : t - n + 1 < i <=> t \in n .. n + i - 2
      BY <1>1
    <3>2. n .. n + i - 2 \subseteq n .. n + N - 1
      BY <1>1
    <3> HIDE DEF D, N, Row
    <3> QED BY <2>1, <2>2, <3>1, <3>2
  <2>4. Cardinality(n .. n + i - 2) = IF n > n + i - 2 THEN 0 ELSE n + i - 2 - n + 1
    <3>1. n \in Int /\ n + i - 2 \in Int
      OBVIOUS
    <3> QED BY <3>1, FS_Interval
  <2>5. i \in Int /\ i >= 1
    OBVIOUS
  <2> HIDE DEF Upto
  <2> QED BY <2>3, <2>4, <2>5
<1>8. \A i \in 1 .. N : Listing(rs, age)[i] = Row(i)
  <2> SUFFICES ASSUME NEW i \in 1 .. N
               PROVE  Listing(rs, age)[i] = Row(i)
    OBVIOUS
  <2> DEFINE Chosen == CHOOSE s \in D : Cardinality({t \in D : Precedes(rs, age, t, s)}) = i - 1
  <2>1. Listing(rs, age)[i] = Chosen
    BY <1>2 DEF Listing
  <2>2. Row(i) \in D /\ Cardinality({t \in D : Precedes(rs, age, t, Row(i))}) = i - 1
    BY <1>3, <1>7
  <2> HIDE DEF D, Row
  <2>3. Chosen \in D /\ Cardinality({t \in D : Precedes(rs, age, t, Chosen)}) = i - 1
    BY <2>2
  <2> HIDE DEF Chosen
  <2>4. PICK k \in 1 .. N : Chosen = Row(k)
    BY <1>5, <2>3
  <2>5. k - 1 = i - 1
    BY <1>7, <2>3, <2>4
  <2>6. k = i
    BY <2>5
  <2> QED BY <2>1, <2>4, <2>6
<1>9. Snapshot(rs, age) = [i \in 1 .. N |-> [order |-> rs[Listing(rs, age)[i]].order,
                                        words |-> rs[Listing(rs, age)[i]].words]]
  BY <1>2 DEF Snapshot
<1>10. \A i \in 1 .. N : [order |-> rs[Listing(rs, age)[i]].order,
                          words |-> rs[Listing(rs, age)[i]].words] = content[i]
  <2> SUFFICES ASSUME NEW i \in 1 .. N
               PROVE  [order |-> rs[Listing(rs, age)[i]].order,
                       words |-> rs[Listing(rs, age)[i]].words] = content[i]
    OBVIOUS
  <2>1. content[i] = [order |-> content[i].order, words |-> content[i].words]
    BY <1>1 DEF Contents
  <2>2. rs[Listing(rs, age)[i]].order = content[i].order /\ rs[Listing(rs, age)[i]].words = content[i].words
    BY <1>4, <1>8
  <2> QED BY <2>1, <2>2
<1>11. Snapshot(rs, age) = [i \in 1 .. N |-> content[i]]
  BY <1>9, <1>10
<1>12. content = [i \in 1 .. N |-> content[i]]
  OBVIOUS
<1> QED BY <1>0, <1>11, <1>12

\* A listing is in order.
LEMMA SnapshotSorted ==
  ASSUME StoreOK, NEW age \in Ages(rows)
  PROVE  Sorted(Snapshot(rows, age))
<1> DEFINE N == Cardinality(DOMAIN rows)
<1>1. /\ N \in Nat
      /\ \A i \in 1 .. N : Listing(rows, age)[i] \in DOMAIN rows
      /\ \A i, j \in 1 .. N :
           i < j => Precedes(rows, age, Listing(rows, age)[i], Listing(rows, age)[j])
  BY RowsFinite, ListingFacts
<1>2. Snapshot(rows, age) =
        [i \in 1 .. N |-> [order |-> rows[Listing(rows, age)[i]].order,
                          words |-> rows[Listing(rows, age)[i]].words]]
  BY DEF Snapshot
<1> HIDE DEF N
<1>3. Len(Snapshot(rows, age)) = N
  <2>1. DOMAIN Snapshot(rows, age) = 1 .. N
    BY <1>2
  <2>2. Snapshot(rows, age) \in Seq(Contents)
    BY SnapshotType
  <2> HIDE DEF N
  <2> QED BY <1>1, <2>1, <2>2
<1>4. \A i \in 1 .. N : Snapshot(rows, age)[i].order = rows[Listing(rows, age)[i]].order
  BY <1>2
<1>5. \A i, j \in 1 .. N :
        i < j => rows[Listing(rows, age)[i]].order <= rows[Listing(rows, age)[j]].order
  BY <1>1, RowsFinite DEF Precedes
<1> QED BY <1>3, <1>4, <1>5 DEF Sorted

-----------------------------------------------------------------------------
SortedInv ==
  /\ \A v \in versions : Sorted(v.content)
  /\ \A r \in Requests : Sorted(local[r].content)

\* What an owner asks for has the content of a version, or none.
LEMMA AskedContent ==
  \A x \in Asked : x.content = <<>> \/ \E v \in versions : x.content = v.content
<1> DEFINE Plain(k, step) == [Idle EXCEPT !.kind = k, !.step = step]
           Creating(w)    == [Idle EXCEPT !.kind = "createSection", !.step = "maxOrder",
                                          !.words = w]
           Updating(s, w) == [Idle EXCEPT !.kind = "updateSection", !.step = "write",
                                          !.section = s, !.words = w]
           Deleting(s)    == [Idle EXCEPT !.kind = "deleteSection", !.step = "remove",
                                          !.section = s]
           Reordering(o)  == [Idle EXCEPT !.kind = "reorder", !.step = "list", !.order = o]
           Restoring(c)   == [Idle EXCEPT !.kind = "restore", !.step = "lockDocument",
                                          !.content = c]
<1>1. Asked = {Creating(w) : w \in Words}
              \cup {Updating(s, w) : s \in DOMAIN rows, w \in Words}
              \cup {Deleting(s) : s \in DOMAIN rows}
              \cup {Reordering(o) : o \in SetToSeqs(DOMAIN rows) \ {<<>>}}
              \cup {Plain("updateDocument", "select"),
                    Plain("deleteDocument", "lockDocument"), Plain("saveVersion", "snapshot")}
              \cup {Restoring(v.content) : v \in versions}
  BY DEF Asked
<1>2. /\ \A k, step : Plain(k, step).content = <<>>
      /\ \A w : Creating(w).content = <<>>
      /\ \A s, w : Updating(s, w).content = <<>>
      /\ \A s : Deleting(s).content = <<>>
      /\ \A o : Reordering(o).content = <<>>
      /\ \A c : Restoring(c).content = c
  BY DEF Idle
<1> HIDE DEF Plain, Creating, Updating, Deleting, Reordering, Restoring
<1> QED BY <1>1, <1>2

\* A request's content comes from a version or from the sections, or is none.
LEMMA ContentStep ==
  ASSUME CoreOK, NEW r \in Requests,
         DocumentsStep(r) \/ DeleteDocument(r) \/ TemplatesStep(r)
  PROVE  \/ local'[r].content \in {local[r].content, <<>>}
         \/ \E age \in Ages(rows) : local'[r].content = Snapshot(rows, age)
         \/ \E v \in versions : local'[r].content = v.content
<1> DEFINE Kept == local'[r].content \in {local[r].content, <<>>}
<1>1. local \in [Requests -> Locals] /\ local[r] \in Locals
  BY DEF CoreOK, RequestsOK
<1>2. ASSUME End(r, "done") \/ End(r, "failed")
      PROVE  Kept
  BY <1>1, <1>2 DEF End, Idle
<1>3. ASSUME NEW step, Goto(r, step)
      PROVE  Kept
  BY <1>1, <1>3 DEF Goto, Locals
<1>4. CASE CreateDocument(r) \/ RereadSection(r) \/ RemoveSection(r) \/ CommitReorder(r)
           \/ SaveDocument(r) \/ ReinsertDocument(r) \/ DeleteDocument(r) \/ InsertSection(r)
           \/ ReplaceSections(r) \/ DeadlockVictim(r) \/ CreateTemplate(r)
           \/ SaveTemplate(r) \/ RemoveTemplate(r) \/ ApplyToDocument(r)
  <2>1. End(r, "done") \/ End(r, "failed")
    BY <1>4 DEF CreateDocument, RereadSection, RemoveSection, CommitReorder, SaveDocument,
         ReinsertDocument, DeleteDocument, InsertSection, ReplaceSections, DeadlockVictim,
         CreateTemplate, SaveTemplate, RemoveTemplate, ApplyToDocument
  <2> QED BY <1>2, <2>1
<1>5. CASE WriteSection(r) \/ SelectForSave(r) \/ LockTemplate(r)
  BY <1>2, <1>3, <1>5 DEF WriteSection, SelectForSave, LockTemplate
<1>6. CASE Begin(r)
  <2>1. PICK x \in Asked : local' = [local EXCEPT ![r] = x]
    BY <1>6 DEF Begin
  <2>2. local'[r] = x
    BY <1>1, <2>1
  <2> QED BY <2>1, <2>2, AskedContent
<1>7. CASE BeginTemplate(r)
  <2>1. PICK kind, size, publish :
          local' = [local EXCEPT ![r] = TemplateRequest(kind, size, publish)]
    BY <1>7 DEF BeginTemplate
  <2>2. local'[r] = TemplateRequest(kind, size, publish)
    BY <1>1, <2>1
  <2>3. TemplateRequest(kind, size, publish).content = <<>>
    BY DEF TemplateRequest, Idle
  <2> QED BY <2>2, <2>3
<1>8. CASE ReadMaxOrder(r) \/ ReadMaxVersion(r)
  BY <1>1, <1>8 DEF ReadMaxOrder, ReadMaxVersion, Locals
<1>9. CASE ReadTemplateSections(r)
  BY <1>1, <1>2, <1>9 DEF ReadTemplateSections, Locals
<1>10. CASE ListSections(r)
  BY <1>1, <1>2, <1>10 DEF ListSections, Locals
<1>11. CASE MoveRow(r) \/ ClearRow(r)
  BY <1>1, <1>11 DEF MoveRow, ClearRow, Locals
<1>12. CASE LockDocument(r)
  BY <1>1, <1>12 DEF LockDocument, Locals
<1>13. CASE TakeSnapshot(r)
  BY <1>1, <1>13 DEF TakeSnapshot, Locals
<1>14. CASE InsertVersion(r)
  <2>1. CASE End(r, "done")
    BY <1>2, <2>1
  <2>2. CASE local' = [local EXCEPT ![r].step = "maxVersion", ![r].retried = TRUE]
    BY <1>1, <2>2 DEF Locals
  <2>3. CASE Goto(r, "duplicate")
    BY <1>3, <2>3
  <2>4. Taken(local[r].number + 1) \in BOOLEAN /\ local[r].retried \in BOOLEAN
    BY <1>1 DEF Taken, Locals
  <2> QED BY <1>14, <2>1, <2>2, <2>3, <2>4 DEF InsertVersion
<1> QED
  BY <1>4, <1>5, <1>6, <1>7, <1>8, <1>9, <1>10, <1>11, <1>12, <1>13, <1>14
     DEF DocumentsStep, TemplatesStep

\* A version is added by a save, and has its content.
LEMMA VersionsStep ==
  ASSUME CoreOK, NEW r \in Requests,
         DocumentsStep(r) \/ DeleteDocument(r) \/ TemplatesStep(r)
  PROVE  \A v \in versions' : v \in versions \/ v.content = local[r].content
<1>1. CASE InsertVersion(r)
  <2>1. \/ versions' = versions
        \/ versions' = versions \cup
             {[number |-> local[r].number + 1, content |-> local[r].content, by |-> r]}
    BY <1>1, InsertVersionCases
  <2> QED BY <2>1
<1>2. CASE ~InsertVersion(r)
  <2>1. versions' = versions
    BY <1>2 DEF DocumentsStep, TemplatesStep, DeleteDocument, CreateDocument, Begin,
         ReadMaxOrder, InsertSection, WriteSection, RereadSection, RemoveSection,
         ListSections, MoveRow, CommitReorder, SelectForSave, SaveDocument,
         ReinsertDocument, LockDocument, ClearRow, ReplaceSections, TakeSnapshot,
         ReadMaxVersion, DeadlockVictim, CreateTemplate, BeginTemplate, LockTemplate,
         SaveTemplate, RemoveTemplate, ReadTemplateSections, ApplyToDocument
  <2> QED BY <2>1
<1> QED BY <1>1, <1>2

\* Every step.
LEMMA SortedNext ==
  ASSUME CoreOK, SortedInv, [Next]_vars
  PROVE  SortedInv'
<1>1. ASSUME UNCHANGED <<versions, local>>
      PROVE  SortedInv'
  BY <1>1 DEF SortedInv
<1>2. ASSUME NEW r \in Requests,
             DocumentsStep(r) \/ DeleteDocument(r) \/ TemplatesStep(r)
      PROVE  SortedInv'
  <2>1. \A v \in versions' : Sorted(v.content)
    BY <1>2, VersionsStep DEF SortedInv
  <2>2. Sorted(<<>>)
    BY DEF Sorted
  <2>3. \A age \in Ages(rows) : Sorted(Snapshot(rows, age))
    BY SnapshotSorted DEF CoreOK
  <2>4. Sorted(local'[r].content)
    <3>1. \/ local'[r].content = local[r].content \/ local'[r].content = <<>>
          \/ \E age \in Ages(rows) : local'[r].content = Snapshot(rows, age)
          \/ \E v \in versions : local'[r].content = v.content
      BY <1>2, ContentStep
    <3> QED BY <2>2, <2>3, <3>1 DEF SortedInv
  <2>5. \A q \in Requests \ {r} : Sorted(local'[q].content)
    BY <1>2, Moves DEF OthersUnchanged, SortedInv
  <2> QED BY <2>1, <2>4, <2>5 DEF SortedInv
<1>3. ASSUME NEW e \in events, RewardsStep(e)
      PROVE  SortedInv'
  BY <1>1, <1>3 DEF RewardsStep
<1>4. ASSUME UNCHANGED vars
      PROVE  SortedInv'
  BY <1>1, <1>4 DEF vars, docsVars
<1> QED BY <1>2, <1>3, <1>4 DEF Next, Rest, Delete

\* At the start.
LEMMA SortedInit == Init => SortedInv
<1> SUFFICES ASSUME Init
             PROVE  SortedInv
  OBVIOUS
<1>1. \A r \in Requests : local[r].content = <<>>
  BY DEF Init, DocumentsInit, Idle
<1>2. Sorted(<<>>)
  BY DEF Sorted
<1>3. Len(Blank(1, -1)) = 1
  <2>1. Blank(1, -1) = [i \in 1 .. 1 |-> [order |-> -1 + i, words |-> "brief"]]
    BY DEF Blank
  <2> QED BY <2>1
<1>4. Sorted(Blank(1, -1))
  BY <1>3 DEF Sorted
<1>5. \A v \in versions : v.content = Blank(1, -1)
  BY DEF Init, DocumentsInit
<1> QED BY <1>1, <1>2, <1>4, <1>5 DEF SortedInv
-----------------------------------------------------------------------------
\* Who holds the document row and clears its sections has come to each or still
\* has it before it, for whoever would add one waits.
ClearInv ==
  \A r \in Requests :
    local[r].step = "clear" /\ docLock = r =>
      DOMAIN rows \subseteq local[r].targets \cup Mine(r)

\* Who adds sections waits for who holds the document row.
LEMMA AddingWaits ==
  ASSUME NEW r \in Requests, DocumentsStep(r) \/ DeleteDocument(r) \/ TemplatesStep(r)
  PROVE  DOMAIN rows' \subseteq DOMAIN rows \/ docLock \in {r, Nobody}
<1>1. CASE InsertSection(r) \/ ReplaceSections(r) \/ ApplyToDocument(r)
  BY <1>1 DEF InsertSection, ReplaceSections, ApplyToDocument, DocumentFree
<1>2. CASE RemoveSection(r) \/ DeleteDocument(r) \/ CommitReorder(r)
  <2>1. CASE CommitReorder(r)
    BY <2>1 DEF CommitReorder, Moved
  <2>2. CASE RemoveSection(r) \/ DeleteDocument(r)
    <3>1. PICK ids : rows' = Deleted(rows, ids)
      BY <2>2 DEF RemoveSection, DeleteDocument
    <3> QED BY <3>1 DEF Deleted, Restrict
  <2> QED BY <1>2, <2>1, <2>2
<1>3. CASE WriteSection(r)
  BY <1>3 DEF WriteSection
<1>4. CASE ~(InsertSection(r) \/ ReplaceSections(r) \/ ApplyToDocument(r) \/ RemoveSection(r)
             \/ DeleteDocument(r) \/ CommitReorder(r) \/ WriteSection(r))
  <2>1. rows' = rows
    BY <1>4 DEF DocumentsStep, TemplatesStep, CreateDocument, Begin, ReadMaxOrder,
         RereadSection, ListSections, MoveRow, SelectForSave, SaveDocument, ReinsertDocument,
         LockDocument, ClearRow, TakeSnapshot, ReadMaxVersion, InsertVersion, DeadlockVictim,
         CreateTemplate, BeginTemplate, LockTemplate, SaveTemplate, RemoveTemplate,
         ReadTemplateSections, sectionVars
  <2> QED BY <2>1
<1> QED BY <1>1, <1>2, <1>3, <1>4

\* Every step.
LEMMA ClearNext ==
  ASSUME CoreOK, ClearInv, [Next]_vars
  PROVE  ClearInv'
<1>1. ASSUME UNCHANGED <<sectionVars, lockVars, local>>
      PROVE  ClearInv'
  BY <1>1 DEF ClearInv, Mine, sectionVars, lockVars
<1>2. ASSUME NEW r \in Requests,
             DocumentsStep(r) \/ DeleteDocument(r) \/ TemplatesStep(r)
      PROVE  ClearInv'
  <2>1. \A q \in Requests \ {r} : docLock = q <=> docLock' = q
    BY <1>2, DocumentStep
  <2>2. OthersUnchanged(r) /\ (local'[r].step = "clear" => LockDocument(r) \/ ClearRow(r))
    BY <1>2, Moves
  <2>3. local \in [Requests -> Locals] /\ local[r] \in Locals
    BY DEF CoreOK, RequestsOK
  <2>4. ASSUME NEW q \in Requests, local'[q].step = "clear", docLock' = q
        PROVE  DOMAIN rows' \subseteq local'[q].targets \cup Mine(q)'
    <3>1. CASE q # r
      <4>1. local'[q] = local[q] /\ docLock = q /\ Mine(q)' = Mine(q)
        BY <1>2, <2>1, <2>2, <2>4, <3>1, StepKeepsLocks DEF OthersUnchanged
      <4>2. DOMAIN rows' \subseteq DOMAIN rows
        BY <1>2, <3>1, <4>1, AddingWaits, DocumentsAssumption
      <4> QED BY <2>4, <4>1, <4>2 DEF ClearInv
    <3>2. CASE q = r /\ LockDocument(r)
      <4>1. local[r].kind # "apply"
        BY <2>3, <2>4, <3>2 DEF LockDocument, Locals
      <4>2. rows' = rows /\ local'[r].targets = DOMAIN rows
        BY <2>3, <3>2, <4>1 DEF LockDocument, Locals, sectionVars
      <4> QED BY <3>2, <4>2
    <3>3. CASE q = r /\ ClearRow(r)
      <4>1. PICK s \in local[r].targets :
              /\ rowLocks' = rowLocks \cup Locking(r, s)
              /\ local' = [local EXCEPT ![r].targets = @ \ {s}]
        BY <3>3 DEF ClearRow
      <4>2. local'[r].targets = local[r].targets \ {s}
        BY <2>3, <4>1 DEF Locals
      <4>3. rows' = rows /\ docLock = r /\ local[r].step = "clear"
        BY <2>4, <3>3 DEF ClearRow, At, sectionVars
      <4>4. Mine(r) \subseteq Mine(r)' /\ (s \in DOMAIN rows => s \in Mine(r)')
        BY <4>1, LockingFacts
      <4>5. DOMAIN rows \subseteq local[r].targets \cup Mine(r)
        BY <4>3 DEF ClearInv
      <4> QED BY <3>3, <4>2, <4>3, <4>4, <4>5
    <3> QED BY <2>2, <2>4, <3>1, <3>2, <3>3
  <2> QED BY <2>4 DEF ClearInv
<1>3. ASSUME NEW e \in events, RewardsStep(e)
      PROVE  ClearInv'
  BY <1>1, <1>3 DEF RewardsStep
<1>4. ASSUME UNCHANGED vars
      PROVE  ClearInv'
  BY <1>1, <1>4 DEF vars, docsVars
<1> QED BY <1>2, <1>3, <1>4 DEF Next, Rest, Delete

\* The COMMIT of a restore.
LEMMA RestoreExact ==
  ASSUME CoreOK, GrantInv, SortedInv, ClearInv, NEW r \in Requests, ReplaceSections(r),
         document, ~revived
  PROVE  \E age \in Ages(rows') : Snapshot(rows', age) = local[r].content
<1> DEFINE content == local[r].content
<1>1. /\ local[r].step = "clear" /\ local[r].targets = {}
      /\ rows' = Inserted(Deleted(rows, Mine(r)), next, content, "restored")
      /\ next' = next + Len(content)
  BY DEF ReplaceSections, At
<1>2. docLock = r
  BY <1>1 DEF GrantInv
<1>3. DOMAIN rows \subseteq Mine(r)
  BY <1>1, <1>2 DEF ClearInv
<1>4. content \in Seq(Contents) /\ StoreOK /\ Sorted(content) /\ next \in Nat
  BY DEF CoreOK, RequestsOK, StoreOK, Locals, SortedInv
<1> HIDE DEF content
<1>5. InsertedAre(Mine(r), content, "restored")
  BY <1>1, <1>4, InsertedKeeps
<1>6. /\ DOMAIN rows' = next .. next + Len(content) - 1
      /\ \A s \in next .. next + Len(content) - 1 :
           rows'[s] = [order |-> content[s - next + 1].order,
                       words |-> content[s - next + 1].words, placed |-> "restored"]
  <2>1. DOMAIN rows \ Mine(r) = {}
    BY <1>3
  <2> QED BY <1>5, <2>1 DEF InsertedAre
<1>7. PICK n, rs : n = next /\ rs = rows'
  OBVIOUS
<1>8. \E age \in Ages(rs) : Snapshot(rs, age) = content
  BY <1>4, <1>6, <1>7, SnapshotOfRestored
<1> QED BY <1>7, <1>8 DEF content

\* No other step of a restore ends it as done.
LEMMA RestoredStep ==
  ASSUME CoreOK, GrantInv, SortedInv, ClearInv, [Next]_vars, NEW r \in Requests,
         local[r].step = "clear", local[r].kind = "restore", document, ~revived,
         local'[r].step = "done"
  PROVE  \E age \in Ages(rows') : Snapshot(rows', age) = local[r].content
<1>1. local' # local
  OBVIOUS
<1>2. PICK q \in Requests : DocumentsStep(q) \/ DeleteDocument(q) \/ TemplatesStep(q)
  BY <1>1 DEF Next, Rest, Delete, RewardsStep, vars, docsVars
<1>3. q = r
  BY <1>2, Moves DEF OthersUnchanged
<1>4. local \in [Requests -> Locals] /\ local[r] \in Locals
  BY DEF CoreOK, RequestsOK
<1>5. CASE ReplaceSections(r)
  BY <1>5, RestoreExact
<1>6. CASE ClearRow(r)
  <2>1. local'[r].step = "clear"
    BY <1>4, <1>6 DEF ClearRow, Locals
  <2> QED BY <2>1
<1>7. CASE DeadlockVictim(r)
  BY <1>4, <1>7, EndType DEF DeadlockVictim, Ended
<1>8. ClearRow(r) \/ DeadlockVictim(r) \/ ReplaceSections(r)
  BY <1>2, <1>3 DEF DocumentsStep, TemplatesStep, DeleteDocument, CreateDocument, Begin,
     ReadMaxOrder, InsertSection, WriteSection, RereadSection, RemoveSection, ListSections,
     MoveRow, CommitReorder, SelectForSave, SaveDocument, ReinsertDocument, LockDocument,
     TakeSnapshot, ReadMaxVersion, InsertVersion, CreateTemplate, BeginTemplate, LockTemplate,
     SaveTemplate, RemoveTemplate, ReadTemplateSections, ApplyToDocument, At
<1> QED BY <1>5, <1>6, <1>7, <1>8

(* A restore that commits leaves the sections of the version, with the order  *)
(* it gives them, and no other, whatever creates, applies or edits run with   *)
(* it: some listing of the new rows is the version, and every one is, where   *)
(* no two orders are equal.  A deleted document that came back is excepted    *)
(* (replaceAll locks the document row).                                       *)
THEOREM RestoresExact == Spec => RestoredExactly
<1>1. /\ Init => GrantInv /\ SortedInv /\ ClearInv
      /\ TypeInv /\ GrantInv /\ SortedInv /\ ClearInv /\ [Next]_vars
           => GrantInv' /\ SortedInv' /\ ClearInv'
  <2>1. Init => ClearInv
    BY DEF Init, DocumentsInit, ClearInv, Idle
  <2> QED BY <2>1, GrantStart, SortedInit, GrantNext, SortedNext, ClearNext DEF TypeInv, CoreOK
<1> DEFINE Exact ==
      \A r \in Requests :
        /\ At(r, "clear") /\ local[r].kind = "restore" /\ document /\ ~revived
        /\ local'[r].step = "done"
        => \E age \in Ages(rows') : Snapshot(rows', age) = local[r].content
<1>2. TypeInv /\ GrantInv /\ SortedInv /\ ClearInv /\ [Next]_vars => [Exact]_vars
  BY RestoredStep DEF TypeInv, CoreOK, At
<1>3. RestoredExactly <=> [][Exact]_vars
  BY DEF RestoredExactly
<1> QED BY <1>1, <1>2, <1>3, TypeInit, TypeNext, PTL DEF Spec
=============================================================================
