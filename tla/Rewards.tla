-------------------------------- MODULE Rewards --------------------------------
(***************************************************************************)
(* What GamificationListener does with the events of the document: award   *)
(* milestones, advance today's mission, and add to the XP of the owner.    *)
(* An award is one transaction, and the unique index makes a second one of *)
(* the same milestone wait for it; so it is one step.  An error ends the   *)
(* handling of its event, and nothing else.                                *)
(***************************************************************************)
EXTENDS Documents

CONSTANTS MissionEvent, MissionTarget, MissionXp  \* today's mission

ASSUME MissionAssumption == MissionTarget \in Nat \ {0} /\ MissionXp \in Nat

VARIABLES
  milestones,  \* the types of milestone the document has
  user,        \* xp and level
  mission      \* the row of mission_progress

\* What a property needs to remember; no action reads it.
VARIABLE retired  \* XP of the milestones that were deleted with the document

rewardVars == <<milestones, user, mission, retired>>

MILESTONE_RULES ==
  {[event |-> "document.created", type |-> "document_created", xp |-> 50],
   [event |-> "section.created", type |-> "first_section", xp |-> 25],
   [event |-> "section.updated", type |-> "section_goal", xp |-> 25]}

XP_PER_LEVEL == 100

\* The rules whose event and condition match.
Matching(e) ==
  {rule \in MILESTONE_RULES :
     rule.event = e.event /\ (rule.type = "section_goal" => e.words = "long")}

Credited(xp) == [xp |-> user.xp + xp, level |-> (user.xp + xp) \div XP_PER_LEVEL + 1]

Worth(type) == (CHOOSE rule \in MILESTONE_RULES : rule.type = type).xp

\* xp_awarded of the milestones of these types, added up.
XpOf(types) ==
  LET Paid(type) == IF type \in types THEN Worth(type) ELSE 0
  IN  Paid("document_created") + Paid("first_section") + Paid("section_goal")

RewardsInit ==
  /\ milestones = IF created THEN {"document_created"} ELSE {}
  /\ user = [xp |-> IF created THEN 50 ELSE 0, level |-> 1]
  /\ mission = [progress |-> 0, completed |-> FALSE]
  /\ retired = 0
-----------------------------------------------------------------------------
\* INSERT ... ON CONFLICT DO NOTHING, and the XP only when it inserted.
Bug_AwardOnce(rule) ==
  /\ milestones' = milestones \cup {rule.type}
  /\ user' = Credited(rule.xp)

AwardOnce(rule) ==
  IF rule.type \in milestones
  THEN UNCHANGED <<milestones, user>>
  ELSE milestones' = milestones \cup {rule.type} /\ user' = Credited(rule.xp)

\* A milestone refers to the document: without it the insert fails, and the
\* mission is not reached.
ApplyMilestoneRules(e) ==
  /\ e.stage = "award"
  /\ Matching(e) # {} => docLock = Nobody
  /\ IF Matching(e) = {} THEN UNCHANGED <<milestones, user>>
     ELSE \E rule \in Matching(e) :
            IF document THEN AwardOnce(rule) ELSE UNCHANGED <<milestones, user>>
  /\ events' = (events \ {e}) \cup
       IF Matching(e) = {} \/ document THEN {[e EXCEPT !.stage = "mission"]} ELSE {}
  /\ UNCHANGED <<mission, retired>>

\* The UPDATE is guarded by completed = false.
IncrementAtomic ==
  LET progress == mission.progress + 1 IN
  IF mission.completed THEN UNCHANGED <<mission, user>>
  ELSE /\ mission' = [progress |-> progress, completed |-> progress >= MissionTarget]
       /\ user' = IF progress >= MissionTarget THEN Credited(MissionXp) ELSE user

ApplyMissionProgress(e) ==
  /\ e.stage = "mission"
  /\ IF e.event = MissionEvent THEN IncrementAtomic ELSE UNCHANGED <<mission, user>>
  /\ events' = events \ {e}
  /\ UNCHANGED <<milestones, retired>>

\* ON DELETE CASCADE of milestones.document_id.
MilestonesCascade ==
  /\ milestones' = IF document' THEN milestones ELSE {}
  /\ retired' = IF document' THEN retired ELSE retired + XpOf(milestones)
  /\ UNCHANGED <<user, mission>>

RewardsStep(e) ==
  /\ ApplyMilestoneRules(e) \/ ApplyMissionProgress(e)
  /\ UNCHANGED <<documentVars, sectionVars, versions, lockVars, local>>
=============================================================================
