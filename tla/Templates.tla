------------------------------- MODULE Templates -------------------------------
(***************************************************************************)
(* One template: its author, who is no admin, and the admins edit it, and  *)
(* the owner of the document, who is neither, applies it.  Its sections    *)
(* are replaced as a whole, so their number stands for them.  The template *)
(* and the document have the same type.                                    *)
(***************************************************************************)
EXTENDS Documents

CONSTANT MaxSize  \* bound: sections of a template

ASSUME MaxSizeAssumption == MaxSize \in Nat \ {0}

VARIABLES
  template,     \* its row and its sections
  templateLock  \* the request whose transaction holds the row FOR UPDATE

templateVars == <<template, templateLock>>

TemplateRows == [state : {"none", "live", "deleted"}, published : BOOLEAN, size : Nat]

TemplatesInit ==
  /\ template \in {[state |-> "none", published |-> FALSE, size |-> 0],
                   [state |-> "live", published |-> TRUE, size |-> 1]}
  /\ templateLock = Nobody

Live == template.state = "live"
-----------------------------------------------------------------------------
\* An author cannot publish; an admin can, in the same request.
CreateTemplate(r) ==
  /\ At(r, "idle")
  /\ template.state = "none"
  /\ template' \in [state : {"live"}, published : BOOLEAN, size : 1 .. MaxSize]
  /\ End(r, "done")
  /\ UNCHANGED <<documentVars, sectionVars, versions, lockVars, events, templateLock>>

TemplateRequest(kind, size, publish) ==
  [Idle EXCEPT !.kind = kind, !.size = size, !.publish = publish,
               !.step = CASE kind = "apply" -> "templateSections"
                          [] kind = "deleteTemplate" -> "removeTemplate"
                          [] OTHER -> "lockTemplate"]

\* The early checks of an update, of a deletion, and of an application.
BeginTemplate(r) ==
  /\ At(r, "idle")
  /\ Live
  /\ \E kind \in {"editTemplate", "administerTemplate", "deleteTemplate", "apply"},
        size \in 1 .. MaxSize, publish \in BOOLEAN :
       /\ kind = "editTemplate" => ~template.published /\ ~publish
       /\ kind = "apply" => template.published
       /\ kind \in {"apply", "deleteTemplate"} => size = 1 /\ ~publish
       /\ local' = [local EXCEPT ![r] = TemplateRequest(kind, size, publish)]
  /\ UNCHANGED <<documentVars, sectionVars, versions, lockVars, events, templateVars>>

Bug_LockTemplate(r) ==
  /\ At(r, "lockTemplate")
  /\ templateLock = Nobody
  /\ IF Live THEN templateLock' = r /\ Goto(r, "saveTemplate")
             ELSE UNCHANGED templateLock /\ End(r, "failed")
  /\ UNCHANGED <<documentVars, sectionVars, versions, lockVars, events, template>>

\* The published check holds against a concurrent publish: it is made again.
LockTemplate(r) ==
  /\ At(r, "lockTemplate")
  /\ templateLock = Nobody
  /\ IF Live /\ (local[r].kind = "editTemplate" => ~template.published)
     THEN templateLock' = r /\ Goto(r, "saveTemplate")
     ELSE UNCHANGED templateLock /\ End(r, "failed")
  /\ UNCHANGED <<documentVars, sectionVars, versions, lockVars, events, template>>

SaveTemplate(r) ==
  /\ At(r, "saveTemplate")
  /\ template' = [template EXCEPT !.published = local[r].publish, !.size = local[r].size]
  /\ templateLock' = Nobody
  /\ End(r, "done")
  /\ UNCHANGED <<documentVars, sectionVars, versions, lockVars, events>>

RemoveTemplate(r) ==
  /\ At(r, "removeTemplate")
  /\ templateLock = Nobody
  /\ template' = [template EXCEPT !.state = "deleted"]
  /\ End(r, "done")
  /\ UNCHANGED <<documentVars, sectionVars, versions, lockVars, events, templateLock>>
-----------------------------------------------------------------------------
\* findById reads the sections with a second query; the sections of a deleted
\* template are none.  The document is found in the same step.
ReadTemplateSections(r) ==
  /\ At(r, "templateSections")
  /\ IF document
     THEN local' = [local EXCEPT ![r].size = IF Live THEN template.size ELSE 0,
                                 ![r].step = "lockDocument"]
     ELSE End(r, "failed")
  /\ UNCHANGED <<documentVars, sectionVars, versions, lockVars, events, templateVars>>

\* The row of document_templates refers to both, and rolls back with the sections.
ApplyToDocument(r) ==
  /\ At(r, "append")
  /\ DocumentFree(r)
  /\ templateLock = Nobody
  /\ IF document /\ Live
     THEN /\ rows' = Inserted(rows, next, Blank(local[r].size, local[r].number), "applied")
          /\ next' = next + local[r].size
          /\ End(r, "done")
     ELSE End(r, "failed") /\ UNCHANGED <<rows, next>>
  /\ Release(r)
  /\ UNCHANGED <<documentVars, lastOrder, versions, events, templateVars>>

TemplatesStep(r) ==
  \/ CreateTemplate(r) \/ BeginTemplate(r)
  \/ LockTemplate(r) \/ SaveTemplate(r) \/ RemoveTemplate(r)
  \/ ReadTemplateSections(r) \/ ApplyToDocument(r)
=============================================================================
