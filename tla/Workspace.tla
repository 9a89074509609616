------------------------------- MODULE Workspace -------------------------------
(***************************************************************************)
(* The document, the template and the rewards together.  Requests run at   *)
(* the same time, and the listener's handling of what they emitted goes on *)
(* after they have answered.                                               *)
(***************************************************************************)
EXTENDS Templates, Rewards

vars == <<docsVars, templateVars, rewardVars>>

Init == DocumentsInit /\ TemplatesInit /\ RewardsInit

Delete(r) == DeleteDocument(r) /\ MilestonesCascade /\ UNCHANGED templateVars

\* Nothing asked is left unanswered, and no event unhandled.
Rest ==
  /\ \A r \in Requests : local[r].step \in Ended \cup {"idle"}
  /\ events = {}
  /\ UNCHANGED vars

Next ==
  \/ \E r \in Requests :
       \/ DocumentsStep(r) /\ UNCHANGED <<templateVars, rewardVars>>
       \/ TemplatesStep(r) /\ UNCHANGED rewardVars
       \/ Delete(r)
  \/ \E e \in events : RewardsStep(e) /\ UNCHANGED templateVars
  \/ Rest

Spec == Init /\ [][Next]_vars
-----------------------------------------------------------------------------
\* Every variable holds what its column or field can.
TypeOK ==
  /\ document \in BOOLEAN /\ created \in BOOLEAN /\ revived \in BOOLEAN
  /\ next \in Nat \ {0}
  /\ DOMAIN rows \subseteq 1 .. next - 1
  /\ \A s \in DOMAIN rows : rows[s] \in Rows
  /\ \A v \in versions : v.number \in Nat \ {0} /\ v.content \in Seq(Contents)
  /\ docLock \in Requests \cup {Nobody}
  /\ rowLocks \subseteq Requests \X (1 .. next - 1)
  /\ local \in [Requests -> Locals]
  /\ lastOrder \in Seq(Nat)
  /\ template \in TemplateRows
  /\ templateLock \in Requests \cup {Nobody}
  /\ milestones \subseteq {rule.type : rule \in MILESTONE_RULES}
  /\ user \in [xp : Nat, level : Nat]
  /\ mission \in [progress : Nat, completed : BOOLEAN]

(* A section never outlives its document: a request that found the document  *)
(* and inserts into it while it is being deleted waits for the deletion, and *)
(* then fails (the foreign key of `sections', ON DELETE CASCADE).            *)
NoOrphanSections == ~document => DOMAIN rows = {}

(* Of two sections that a reorder placed and nothing has replaced since, the *)
(* one it put first is first, whatever other reorders, edits and deletions   *)
(* ran with it (SectionTypeOrmRepository.reorder).                           *)
ReorderTakesEffect ==
  \A i, j \in DOMAIN lastOrder :
    i < j /\ {lastOrder[i], lastOrder[j]} \subseteq DOMAIN rows
      => rows[lastOrder[i]].order < rows[lastOrder[j]].order

(* When a restore commits, the sections of the document are those of the     *)
(* version, with the content and the order it gives them, and no other: none *)
(* that was being created, applied or edited survives it (replaceAll).       *)
(* Sections to which the version gives the same order may be listed in any.  *)
(* A document that was deleted and came back is the exception: the restore   *)
(* may have found no row to lock.                                            *)
RestoredExactly ==
  [][\A r \in Requests :
       /\ At(r, "clear") /\ local[r].kind = "restore" /\ document /\ ~revived
       /\ local'[r].step = "done"
       => \E age \in Ages(rows') : Snapshot(rows', age) = local[r].content]_vars

(* In a well-typed state, the versions of a document are numbered 1, 2, 3    *)
(* ... with no gap and no number twice, however many saves run at once; and  *)
(* a save that meets one other does not fail: it takes two that land while   *)
(* it runs (createWithRetry, which retries exactly once).                    *)
VersionsNumbered ==
  /\ TypeOK
  /\ {v.number : v \in versions} = 1 .. Cardinality(versions)
  /\ \A r \in Requests :
       At(r, "duplicate") => Cardinality(versions) - local[r].seen >= 2

(* Sections appended by applications of templates never share an order, even *)
(* when the applications run at once (applyToDocument locks the document; it *)
(* goes on when there is none to lock, which shows if one comes back).       *)
AppliesDoNotClash ==
  \A s, t \in DOMAIN rows :
    /\ s # t /\ ~revived
    /\ rows[s].placed = "applied" /\ rows[t].placed = "applied"
    => rows[s].order # rows[t].order

(* What an author saves, who is no admin, is never saved over a published    *)
(* template, even when an admin published it after the author's request      *)
(* looked (onlyIfUnpublished of TemplateTypeOrmRepository.update).           *)
PublishedNotEdited ==
  [][\A r \in Requests :
       At(r, "saveTemplate") /\ local[r].kind = "editTemplate" /\ local'[r].step = "done"
         => ~template.published]_vars

(* The XP of the owner is that of every milestone ever recorded and of the   *)
(* completed mission, each counted once, and the level follows it: an event  *)
(* repeated, two at once, or a deleted document never pays twice or loses XP *)
(* (awardOnce, incrementAtomic).                                             *)
XpMatchesAwards ==
  /\ user.xp = XpOf(milestones) + retired + (IF mission.completed THEN MissionXp ELSE 0)
  /\ user.level = user.xp \div XP_PER_LEVEL + 1
  /\ mission.progress <= MissionTarget

(* A document that was deleted stays deleted: an update that comes too late   *)
(* finds no document (GetDocumentUseCase, DocumentTypeOrmRepository.update). *)
DeletedStaysDeleted == [][created /\ ~document => ~document']_vars
=============================================================================
