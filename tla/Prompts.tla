------------------------------ MODULE Prompts ------------------------------
(***************************************************************************)
(* The prompts the AI features run with (prompt.typeorm.repository.ts):    *)
(* administrators create versions and activate one per feature type, and   *)
(* every API instance keeps the active prompt of a type in memory for a    *)
(* while.                                                                  *)
(*                                                                         *)
(* An activation is a READ COMMITTED transaction of PostgreSQL, one        *)
(* statement per step; `active` is what is committed.  `epoch` counts      *)
(* commits, so that an answer can be compared with the activations made    *)
(* before it.  Time is a counter of ticks; a read is answered within one.  *)
(***************************************************************************)
EXTENDS Naturals, FiniteSets

CONSTANTS
  Prompts,     \* the prompt versions there may be
  TypeOf,      \* the feature type of each
  VersionOf,   \* its version label
  SystemNames, \* the placeholders its system template uses
  UserNames,   \* the placeholders its user template uses
  Seeded,      \* those the migrations inserted
  Live,        \* those of them that are active at the start
  Instances,   \* API processes
  Admins,      \* activations, one each
  Lookups,     \* concurrent lookups
  TTL,         \* ACTIVE_PROMPT_CACHE_TTL_MS, in ticks
  MaxTime,     \* bound: the last tick
  None         \* no prompt, no cache entry

Types == {TypeOf[p] : p \in Prompts}

ASSUME PromptAssumption ==
  /\ Live \subseteq Seeded /\ Seeded \subseteq Prompts
  /\ \A p, q \in Live : TypeOf[p] = TypeOf[q] => p = q
  /\ TTL \in Nat \ {0} /\ MaxTime \in Nat /\ IsFiniteSet(Admins)

VARIABLES
  table,      \* the rows of prompts
  active,     \* the committed is_active rows
  tx,         \* the activations
  cache,      \* per instance and type: activeCache
  generation, \* per instance: cacheGeneration
  lookups,    \* the lookups
  epoch,      \* commits so far
  floor,      \* per instance: the last own activation whose cache was cleared
  now         \* the clock

vars == <<table, active, tx, cache, generation, lookups, epoch, floor, now>>

Init ==
  /\ table = Seeded
  /\ active = Live
  /\ tx = [a \in Admins |-> [step |-> "idle"]]
  /\ cache = [i \in Instances |-> [t \in Types |-> None]]
  /\ generation = [i \in Instances |-> 0]
  /\ lookups = [l \in Lookups |-> [step |-> "idle"]]
  /\ epoch = 0
  /\ floor = [i \in Instances |-> 0]
  /\ now = 0

-----------------------------------------------------------------------------
(* Creating a version. *)

\* PROMPT_DEFINITIONS: what the user template of a type may and must contain.
AllowedNames(type) ==
  IF type = "planning" THEN {"prompt", "context", "nonce"}
  ELSE {"content", "context", "nonce"}
RequiredName(type) == IF type = "planning" THEN "prompt" ELSE "content"

\* The variables the callers render with: GenerateSuggestionUseCase and
\* renderPlanningPrompt.
RenderNames(type) ==
  IF type = "planning" THEN {"prompt", "context", "nonce"}
  ELSE {"content", "context", "nonce"}

\* Only the user template is looked at.
Bug_Acceptable(p) ==
  /\ UserNames[p] \subseteq AllowedNames(TypeOf[p])
  /\ RequiredName(TypeOf[p]) \in UserNames[p]

\* CreatePromptUseCase: the system template may hold the nonce only.
Acceptable(p) ==
  /\ SystemNames[p] \subseteq {"nonce"}
  /\ UserNames[p] \subseteq AllowedNames(TypeOf[p])
  /\ RequiredName(TypeOf[p]) \in UserNames[p]

\* A new row is inactive; (type, version) is unique.
Create(p) ==
  /\ p \notin table
  /\ Acceptable(p)
  /\ \A q \in table : <<TypeOf[q], VersionOf[q]>> # <<TypeOf[p], VersionOf[p]>>
  /\ table' = table \cup {p}
  /\ UNCHANGED <<active, tx, cache, generation, lookups, epoch, floor, now>>

-----------------------------------------------------------------------------
(* Activating a version: PromptTypeOrmRepository.activate. *)

\* Rows that transactions other than a have updated and not yet committed.
LockedByOthers(a) ==
  UNION {tx[b].off \cup tx[b].on :
           b \in {b \in Admins \ {a} : tx[b].step \in {"deactivated", "activated"}}}

SetTx(a, record) ==
  /\ tx' = [tx EXCEPT ![a] = record]
  /\ UNCHANGED <<table, cache, generation, lookups, floor, now>>

\* The target row is read, and the first UPDATE takes its snapshot.
Activate(a) ==
  \E i \in Instances, p \in table :
    /\ tx[a].step = "idle"
    /\ SetTx(a, [step |-> "matched", instance |-> i, target |-> p,
                 matched |-> {q \in active : TypeOf[q] = TypeOf[p]}])
    /\ UNCHANGED <<active, epoch>>

\* UPDATE ... WHERE feature_type AND is_active SET is_active = false: waits for
\* the rows it matched, and skips those no longer active.
Deactivate(a) ==
  LET x == tx[a] IN
  /\ x.step = "matched"
  /\ x.matched \cap LockedByOthers(a) = {}
  /\ SetTx(a, [step |-> "deactivated", instance |-> x.instance,
               target |-> x.target, off |-> x.matched \cap active, on |-> {}])
  /\ UNCHANGED <<active, epoch>>

\* Rows of the target's type that another transaction has made active and not
\* yet committed: the unique index waits for them.
PendingRivals(a) ==
  {q \in UNION {tx[b].on : b \in {b \in Admins \ {a} : tx[b].step = "activated"}} :
     TypeOf[q] = TypeOf[tx[a].target] /\ q # tx[a].target}

\* Committed active rows of the type that this transaction did not deactivate.
Rivals(a) ==
  {q \in active \ tx[a].off :
     TypeOf[q] = TypeOf[tx[a].target] /\ q # tx[a].target}

\* UQ_prompts_active_feature_type refuses the second UPDATE: rolled back, 409.
Conflict(a) ==
  LET x == tx[a] IN
  /\ x.step = "deactivated"
  /\ x.target \notin LockedByOthers(a)
  /\ PendingRivals(a) = {}
  /\ Rivals(a) # {}
  /\ SetTx(a, [step |-> "refused"])
  /\ UNCHANGED <<active, epoch>>

\* UPDATE ... SET is_active = true for the target.
MakeActive(a) ==
  LET x == tx[a] IN
  /\ x.step = "deactivated"
  /\ x.target \notin LockedByOthers(a)
  /\ PendingRivals(a) = {}
  /\ Rivals(a) = {}
  /\ SetTx(a, [x EXCEPT !.step = "activated", !.on = {x.target}])
  /\ UNCHANGED <<active, epoch>>

\* COMMIT, seen by the instance or not: a connection lost at that moment is an
\* error to the caller, though the activation took place.
Commit(a) ==
  LET x == tx[a] IN
  /\ x.step = "activated"
  /\ active' = (active \ x.off) \cup x.on
  /\ epoch' = epoch + 1
  /\ \/ SetTx(a, [step |-> "committed", instance |-> x.instance,
                  epoch |-> epoch + 1])
     \/ SetTx(a, [step |-> "refused"])

\* Without a transaction the first UPDATE is committed when the second one fails.
Bug_RollBack(a) ==
  /\ tx[a].step \in {"matched", "deactivated", "activated"}
  /\ SetTx(a, [step |-> "refused"])
  /\ active' = IF tx[a].step = "deactivated" THEN active \ tx[a].off ELSE active
  /\ UNCHANGED epoch

\* A failure before the commit undoes the transaction.
RollBack(a) ==
  /\ tx[a].step \in {"matched", "deactivated", "activated"}
  /\ SetTx(a, [step |-> "refused"])
  /\ UNCHANGED <<active, epoch>>

\* clearActiveCache, after the commit; then the caller has its answer.
ClearActiveCache(a) ==
  LET i == tx[a].instance IN
  /\ tx[a].step = "committed"
  /\ generation' = [generation EXCEPT ![i] = @ + 1]
  /\ cache' = [cache EXCEPT ![i] = [t \in Types |-> None]]
  /\ floor' = [floor EXCEPT ![i] = IF tx[a].epoch > @ THEN tx[a].epoch ELSE @]
  /\ tx' = [tx EXCEPT ![a] = [step |-> "done"]]
  /\ UNCHANGED <<table, active, lookups, epoch, now>>

-----------------------------------------------------------------------------
(* Looking the active prompt up: findActiveByFeatureType. *)

SetLookup(l, record) ==
  /\ lookups' = [lookups EXCEPT ![l] = record]
  /\ UNCHANGED <<table, active, tx, generation, epoch, floor, now>>

Fresh(entry) == entry # None /\ entry.expires > now

\* The entry's prompt is the answer.  Kept of it: what was committed when it
\* was read, how long ago, and what had been activated when it was asked for.
Answer(entry, since) ==
  [step |-> "answered", epoch |-> entry.epoch, age |-> now - entry.readAt,
   since |-> since]

\* A fresh entry is answered at once; else the generation is noted.
Look(l) ==
  \E i \in Instances, t \in Types :
    /\ lookups[l].step \in {"idle", "answered"}
    /\ SetLookup(l,
         IF Fresh(cache[i][t])
         THEN Answer(cache[i][t], floor[i])
         ELSE [step |-> "read", instance |-> i, type |-> t,
               generation |-> generation[i], since |-> floor[i]])
    /\ UNCHANGED cache

\* The database answers with what is committed.
Read(l) ==
  LET x == lookups[l]
      found == {p \in active : TypeOf[p] = x.type}
  IN /\ x.step = "read"
     /\ SetLookup(l, [step |-> "fill", instance |-> x.instance,
          type |-> x.type, generation |-> x.generation, since |-> x.since,
          entry |-> [prompt |-> IF found = {} THEN None
                                ELSE CHOOSE p \in found : TRUE,
                     epoch |-> epoch, readAt |-> now, expires |-> now + TTL]])
     /\ UNCHANGED cache

\* The cache is filled whatever happened since the read began.
Bug_Fill(l) ==
  LET x == lookups[l] IN
  /\ x.step = "fill"
  /\ cache' = [cache EXCEPT ![x.instance][x.type] = x.entry]
  /\ SetLookup(l, Answer(x.entry, x.since))

\* The cache is filled unless it was cleared since the read began; "no active
\* prompt" is kept too.
Fill(l) ==
  LET x == lookups[l] IN
  /\ x.step = "fill"
  /\ cache' = IF x.generation = generation[x.instance]
              THEN [cache EXCEPT ![x.instance][x.type] = x.entry]
              ELSE cache
  /\ SetLookup(l, Answer(x.entry, x.since))

\* A read is answered within a tick.
Tick ==
  /\ now < MaxTime
  /\ \A l \in Lookups : lookups[l].step # "fill"
  /\ now' = now + 1
  /\ UNCHANGED <<table, active, tx, cache, generation, lookups, epoch, floor>>

Next ==
  \/ \E p \in Prompts : Create(p)
  \/ \E a \in Admins :
       \/ Activate(a) \/ Deactivate(a) \/ Conflict(a) \/ MakeActive(a)
       \/ Commit(a) \/ RollBack(a) \/ ClearActiveCache(a)
  \/ \E l \in Lookups : Look(l) \/ Read(l) \/ Fill(l)
  \/ Tick

Spec == Init /\ [][Next]_vars

-----------------------------------------------------------------------------

\* Types: committed rows exist, cache entries hold prompts of their type.
TypeOK ==
  /\ active \subseteq table /\ table \subseteq Prompts
  /\ \A i \in Instances, t \in Types :
       cache[i][t] # None /\ cache[i][t].prompt # None =>
         TypeOf[cache[i][t].prompt] = t
  /\ generation \in [Instances -> 0..Cardinality(Admins)]
  /\ now \in 0..MaxTime

\* In a well-typed state, however activations of one type overlap, fail or
\* collide, a type that had an active prompt has exactly one: never two, and
\* never none because a refused activation left its first UPDATE behind
\* (activate, and the unique index UQ_prompts_active_feature_type).
ExactlyOneActive ==
  /\ TypeOK
  /\ \A t \in Types :
       LET n == Cardinality({p \in active : TypeOf[p] = t}) IN
       /\ n <= 1
       /\ (\E p \in Live : TypeOf[p] = t) => n = 1

\* A lookup that begins on an instance after it has answered an activation
\* returns what was committed then or later: a read that was under way cannot
\* put the older prompt back into the cleared cache (cacheGeneration).  And no
\* instance, whoever activates and even if the answer to the commit was lost,
\* returns a prompt read longer ago than the TTL (ACTIVE_PROMPT_CACHE_TTL_MS).
ActivationVisible ==
  \A l \in Lookups : lookups[l].step = "answered" =>
    /\ lookups[l].epoch >= lookups[l].since
    /\ lookups[l].age < TTL

\* What is created can be used: both templates render with the variables the
\* callers have, the system template carries no content, and the user template
\* shows the model what it is to work on (CreatePromptUseCase against
\* GenerateSuggestionUseCase and renderPlanningPrompt).
CreatedPromptsRender ==
  \A p \in table \ Seeded :
    /\ SystemNames[p] \cup UserNames[p] \subseteq RenderNames(TypeOf[p])
    /\ SystemNames[p] \cap {"content", "context", "prompt"} = {}
    /\ UserNames[p] \cap {"content", "prompt"} # {}
=============================================================================
